-------------------------- MODULE StreamLinkProofs --------------------------
(***************************************************************************)
(* Proofs about StreamLink, for any byte base, limit, packets, pipe and       *)
(* chunk: however TCP cuts the bytes, two queues of whole packets.           *)
(***************************************************************************)
EXTENDS StreamLink, SequenceTheorems, WellFoundedInduction, TLAPS

(***************************************************************************)
(* feed() is a recursion over the length of the buffer: that it is one, and  *)
(* what it computes, is proved by induction on that length.                  *)
(***************************************************************************)

(* A set that has 0 and with n also n + 1 has every natural number.          *)
LEMMA SetInduction ==
    ASSUME NEW P, 0 \in P, \A n \in Nat : n \in P => n + 1 \in P
    PROVE  Nat \subseteq P
<1> DEFINE Below == OpToRel(<, Nat)
           rest == Nat \ P
<1>1. IsWellFoundedOn(Below, Nat)
  BY NatLessThanWellFounded
<1>2. \A x, y \in Nat : y < x => <<y, x>> \in Below
  BY DEF OpToRel
<1> HIDE DEF Below
<1> SUFFICES ASSUME rest # {} PROVE FALSE
  OBVIOUS
<1>3. PICK x \in rest : \A y \in rest : <<y, x>> \notin Below
  BY <1>1, WFMin
<1>4. x \in Nat /\ x # 0 /\ x - 1 \in Nat /\ x - 1 < x /\ (x - 1) + 1 = x
  BY <1>3
<1>5. x - 1 \in P
  BY <1>2, <1>3, <1>4
<1>6. QED
  BY <1>3, <1>4, <1>5

(* A sequence without its first n entries.                                  *)
LEMMA SuffixProperties ==
    ASSUME NEW S, NEW s \in Seq(S), NEW n \in 0 .. Len(s)
    PROVE  /\ SubSeq(s, n + 1, Len(s)) \in Seq(S)
           /\ Len(SubSeq(s, n + 1, Len(s))) = Len(s) - n
           /\ \A i \in 1 .. Len(s) - n : SubSeq(s, n + 1, Len(s))[i] = s[n + i]
<1>1. Len(s) \in Nat /\ n \in Nat /\ n <= Len(s)
  OBVIOUS
<1>2. \A i \in n + 1 .. Len(s) : s[i] \in S
  BY <1>1, ElementOfSeq
<1> DEFINE u == SubSeq(s, n + 1, Len(s))
           l == Len(s)
<1>3. /\ u \in Seq(S)
      /\ Len(u) = IF n + 1 <= l THEN l - (n + 1) + 1 ELSE 0
      /\ \A i \in 1 .. l - (n + 1) + 1 : u[i] = s[(n + 1) + i - 1]
  BY <1>1, <1>2, SubSeqProperties
<1>4. l \in Nat /\ n <= l
  BY <1>1
<1> HIDE DEF u, l
<1>5. u \in Seq(S) /\ Len(u) = l - n /\ \A i \in 1 .. l - n : u[i] = s[n + i]
  <2>1. \A i \in 1 .. l - n : i \in 1 .. l - (n + 1) + 1 /\ (n + 1) + i - 1 = n + i
    BY <1>1, <1>4
  <2>2. QED
    BY <1>1, <1>3, <1>4, <2>1
<1>6. QED
  BY <1>5 DEF u, l

LEMMA PrefixThenSuffix ==
    ASSUME NEW S, NEW s \in Seq(S), NEW n \in 0 .. Len(s)
    PROVE  /\ SubSeq(s, 1, n) \in Seq(S) /\ Len(SubSeq(s, 1, n)) = n
           /\ SubSeq(s, 1, n) \o SubSeq(s, n + 1, Len(s)) = s
<1>1. Len(s) \in Nat /\ n \in Nat /\ n <= Len(s)
  OBVIOUS
<1>2. \A i \in 1 .. n : s[i] \in S
  BY <1>1, ElementOfSeq
<1>3. SubSeq(s, 1, n) \in Seq(S) /\ Len(SubSeq(s, 1, n)) = n
  BY <1>1, <1>2, SubSeqProperties
<1>4. 1 \in 1 .. Len(s) + 1 /\ n \in 1 - 1 .. Len(s) /\ Len(s) \in n .. Len(s)
  BY <1>1
<1>5. QED
  BY <1>3, <1>4, ConcatAdjacentSubSeq, SubSeqFull

LEMMA SuffixOfConcat ==
    ASSUME NEW S, NEW s \in Seq(S), NEW t \in Seq(S), NEW n \in 0 .. Len(s)
    PROVE  SubSeq(s \o t, n + 1, Len(s \o t)) = SubSeq(s, n + 1, Len(s)) \o t
<1> DEFINE front == SubSeq(s, 1, n)
           back  == SubSeq(s, n + 1, Len(s))
           whole == s \o t
<1>1. /\ front \in Seq(S) /\ back \in Seq(S) /\ Len(front) = n /\ front \o back = s
      /\ whole \in Seq(S) /\ n \in 0 .. Len(whole)
  <2>1. front \in Seq(S) /\ Len(front) = n /\ front \o back = s
    BY PrefixThenSuffix
  <2>2. back \in Seq(S)
    BY SuffixProperties
  <2>3. whole \in Seq(S) /\ Len(whole) = Len(s) + Len(t) /\ Len(s) \in Nat /\ Len(t) \in Nat
    BY ConcatProperties, LenProperties
  <2> HIDE DEF front, back, whole
  <2>4. n \in 0 .. Len(whole)
    BY <2>3
  <2>5. QED
    BY <2>1, <2>2, <2>3, <2>4
<1>2. whole = front \o (back \o t) /\ back \o t \in Seq(S)
  <2> HIDE DEF front, back
  <2>1. (front \o back) \o t = front \o (back \o t)
    <3>1. front \in Seq(S) /\ back \in Seq(S) /\ t \in Seq(S)
      BY <1>1
    <3>2. QED
      BY <3>1, ConcatAssociative
  <2>2. back \o t \in Seq(S)
    BY <1>1, ConcatProperties
  <2>3. QED
    BY <1>1, <2>1, <2>2
<1>3. SubSeq(whole, 1, n) = front
  <2>1. CASE n = 0
    BY <2>1, <1>1, SubSeqEmpty
  <2>2. CASE n # 0
    <3>1. n \in 1 .. Len(front) /\ 1 \in 1 .. Len(front)
      BY <1>1, <2>2
    <3> HIDE DEF front, back, whole
    <3>2. QED
      BY <1>1, <1>2, <3>1, SubSeqOfConcat1, SubSeqFull
  <2>3. QED
    BY <2>1, <2>2
<1> HIDE DEF front, back, whole
<1>4. /\ SubSeq(whole, n + 1, Len(whole)) \in Seq(S)
      /\ SubSeq(whole, 1, n) \o SubSeq(whole, n + 1, Len(whole)) = whole
  BY <1>1, SuffixProperties, PrefixThenSuffix
<1>5. front \o SubSeq(whole, n + 1, Len(whole)) = front \o (back \o t)
  BY <1>2, <1>3, <1>4
<1>6. SubSeq(whole, n + 1, Len(whole)) = back \o t
  BY <1>1, <1>2, <1>4, <1>5, ConcatSimplifications
<1>7. QED
  BY <1>6 DEF whole, back

Size(b) == 2 + PayloadLen(b)
Payload(b) == SubSeq(b, 3, Size(b))
After(b) == SubSeq(b, Size(b) + 1, Len(b))

\* One round of feed(), with f for the rest of the buffer.
Round(f, b) ==
    IF Oversize(b) THEN [packets |-> <<>>, rest |-> <<>>]
    ELSE IF ~HasFrame(b) THEN [packets |-> <<>>, rest |-> b]
    ELSE [packets |-> <<Payload(b)>> \o f[After(b)].packets, rest |-> f[After(b)].rest]

LEMMA FrameParts ==
    ASSUME NEW b \in Bytes, HasFrame(b)
    PROVE  /\ PayloadLen(b) \in Nat /\ Size(b) \in Nat /\ 2 <= Size(b) /\ Size(b) <= Len(b)
           /\ Payload(b) \in Bytes /\ Len(Payload(b)) = PayloadLen(b)
           /\ After(b) \in Bytes /\ Len(After(b)) = Len(b) - Size(b)
           /\ Len(After(b)) \in Nat /\ Len(b) \in Nat /\ Len(After(b)) < Len(b)
<1>1. Len(b) \in Nat /\ Len(b) >= 2
  BY DEF HasFrame, Bytes
<1>2. b[1] \in Nat /\ b[2] \in Nat /\ ByteBase \in Nat
  BY <1>1, ElementOfSeq, FrameAssumption DEF Bytes, Byte
<1>3. PayloadLen(b) \in Nat
  BY <1>2 DEF PayloadLen
<1>4. Size(b) \in Nat /\ 2 <= Size(b) /\ Size(b) <= Len(b)
  BY <1>1, <1>3 DEF Size, HasFrame
<1>5. Payload(b) \in Bytes /\ Len(Payload(b)) = PayloadLen(b)
  BY <1>1, <1>3, <1>4, SubSeqProperties DEF Payload, Bytes, Size
<1>6. After(b) \in Bytes /\ Len(After(b)) = Len(b) - Size(b)
  BY <1>1, <1>4, SubSeqProperties DEF After, Bytes
<1>7. QED
  BY <1>1, <1>3, <1>4, <1>5, <1>6

Shorter(n) == {b \in Bytes : Len(b) < n}
Solves(f, n) == f = [b \in Shorter(n) |-> Round(f, b)]

\* A round asks for what is left of the buffer only.
LEMMA RoundIsLocal ==
    ASSUME NEW b \in Bytes, NEW f, NEW g, HasFrame(b) => f[After(b)] = g[After(b)]
    PROVE  Round(f, b) = Round(g, b)
  BY DEF Round

LEMMA SolutionExists ==
    ASSUME NEW n \in Nat PROVE \E f : Solves(f, n)
<1> DEFINE P == {m \in Nat : \E f : Solves(f, m)}
<1>1. 0 \in P
  <2>1. Shorter(0) = {}
    BY DEF Shorter, Bytes
  <2> DEFINE f == [b \in {} |-> b]
  <2>2. f = [b \in {} |-> Round(f, b)]
    OBVIOUS
  <2>3. QED
    BY <2>1, <2>2 DEF Solves
<1>2. ASSUME NEW m \in Nat, m \in P PROVE m + 1 \in P
  <2>1. PICK f : Solves(f, m)
    BY <1>2
  <2> DEFINE g == [b \in Shorter(m + 1) |-> Round(f, b)]
  <2>2. ASSUME NEW b \in Shorter(m + 1) PROVE Round(f, b) = Round(g, b)
    <3>1. b \in Bytes
      BY DEF Shorter
    <3>2. CASE HasFrame(b)
      <4> DEFINE t == After(b)
      <4>1. t \in Shorter(m) /\ t \in Shorter(m + 1)
        BY <3>1, <3>2, FrameParts DEF Shorter
      <4> HIDE DEF t
      <4>2. f[t] = Round(f, t)
        BY <2>1, <4>1 DEF Solves
      <4>3. g[t] = Round(f, t)
        BY <4>1
      <4>4. f[After(b)] = g[After(b)]
        BY <4>2, <4>3 DEF t
      <4> HIDE DEF g
      <4>5. QED
        BY <3>1, <4>4, RoundIsLocal
    <3>3. CASE ~HasFrame(b)
      BY <3>3 DEF Round
    <3>4. QED
      BY <3>2, <3>3
  <2>3. Solves(g, m + 1)
    BY <2>2 DEF Solves
  <2>4. QED
    BY <2>3
<1>3. Nat \subseteq P
  <2> HIDE DEF P
  <2>1. QED
    BY <1>1, <1>2, SetInduction
<1>4. QED
  BY <1>3

LEMMA SolutionIsUnique ==
    ASSUME NEW m \in Nat, NEW n \in Nat, NEW f, NEW g, Solves(f, m), Solves(g, n),
           NEW b \in Shorter(m) \cap Shorter(n)
    PROVE  f[b] = g[b]
<1> DEFINE P == {k \in Nat : \A c \in Shorter(m) \cap Shorter(n) : Len(c) < k => f[c] = g[c]}
<1>1. 0 \in P
  BY DEF Shorter, Bytes
<1>2. ASSUME NEW k \in Nat, k \in P PROVE k + 1 \in P
  <2> SUFFICES ASSUME NEW c \in Shorter(m) \cap Shorter(n), Len(c) < k + 1
               PROVE  f[c] = g[c]
    OBVIOUS
  <2>1. c \in Bytes /\ f[c] = Round(f, c) /\ g[c] = Round(g, c)
    BY DEF Solves, Shorter
  <2>2. HasFrame(c) => f[After(c)] = g[After(c)]
    <3> SUFFICES ASSUME HasFrame(c) PROVE f[After(c)] = g[After(c)]
      OBVIOUS
    <3>1. After(c) \in Shorter(m) \cap Shorter(n) /\ Len(After(c)) < k
      BY <2>1, FrameParts DEF Shorter
    <3>2. QED
      BY <1>2, <3>1
  <2>3. Round(f, c) = Round(g, c)
    BY <2>1, <2>2, RoundIsLocal
  <2>4. QED
    BY <2>1, <2>3
<1>3. Nat \subseteq P
  <2> HIDE DEF P
  <2>1. QED
    BY <1>1, <1>2, SetInduction
<1>4. b \in Bytes /\ Len(b) \in Nat
  BY DEF Shorter, Bytes
<1>5. Len(b) + 1 \in P
  BY <1>3, <1>4
<1>6. QED
  BY <1>4, <1>5

(* feed() of a buffer is one round and feed() of what is left.               *)
LEMMA FeedDef == Feed = [b \in Bytes |-> Round(Feed, b)]
<1> DEFINE sol(n) == CHOOSE f : Solves(f, n)
           F == [b \in Bytes |-> sol(Len(b) + 1)[b]]
<1>1. \A n \in Nat : Solves(sol(n), n)
  BY SolutionExists
<1> HIDE DEF sol
<1>2. ASSUME NEW b \in Bytes PROVE F[b] = Round(F, b)
  <2> DEFINE n == Len(b) + 1
             f == sol(n)
  <2>1. n \in Nat /\ b \in Shorter(n)
    BY DEF Bytes, Shorter
  <2>2. F[b] = Round(f, b)
    BY <1>1, <2>1 DEF Solves
  <2>3. HasFrame(b) => f[After(b)] = F[After(b)]
    <3> SUFFICES ASSUME HasFrame(b) PROVE f[After(b)] = F[After(b)]
      OBVIOUS
    <3> DEFINE t == After(b)
               k == Len(t) + 1
    <3>1. t \in Bytes /\ k \in Nat /\ t \in Shorter(k) /\ t \in Shorter(n)
      BY <2>1, FrameParts DEF Shorter
    <3>2. F[t] = sol(k)[t]
      BY <3>1
    <3> HIDE DEF t, k, n, F
    <3>3. Solves(f, n) /\ Solves(sol(k), k)
      BY <1>1, <2>1, <3>1
    <3>4. f[t] = sol(k)[t]
      BY <2>1, <3>1, <3>3, SolutionIsUnique
    <3>5. QED
      BY <3>2, <3>4 DEF t
  <2> HIDE DEF F, f
  <2>4. Round(f, b) = Round(F, b)
    BY <2>3, RoundIsLocal
  <2>5. QED
    BY <2>2, <2>4
<1>3. F = [b \in Bytes |-> Round(F, b)]
  <2>1. F = [b \in Bytes |-> F[b]]
    OBVIOUS
  <2> HIDE DEF F
  <2>2. QED
    BY <1>2, <2>1
<1> HIDE DEF F
<1>4. QED
  BY <1>3 DEF Feed, Round, Payload, After, Size

(* feed() by cases.                                                        *)
LEMMA FeedCases ==
    ASSUME NEW b \in Bytes
    PROVE  /\ Oversize(b) => Feed[b].packets = <<>> /\ Feed[b].rest = <<>>
           /\ ~Oversize(b) /\ ~HasFrame(b) => Feed[b].packets = <<>> /\ Feed[b].rest = b
           /\ ~Oversize(b) /\ HasFrame(b) =>
                /\ Feed[b].packets = <<Payload(b)>> \o Feed[After(b)].packets
                /\ Feed[b].rest = Feed[After(b)].rest
<1>1. Feed[b] = Round(Feed, b)
  BY FeedDef
<1>2. QED
  BY <1>1 DEF Round

(* It hands out packets, and keeps bytes among which no packet is complete.   *)
LEMMA FeedResult ==
    ASSUME NEW b \in Bytes
    PROVE  /\ Feed[b].packets \in Seq(Bytes)
           /\ Feed[b].rest \in Bytes /\ ~HasFrame(Feed[b].rest)
<1> DEFINE Good(c) == /\ Feed[c].packets \in Seq(Bytes)
                      /\ Feed[c].rest \in Bytes /\ ~HasFrame(Feed[c].rest)
           P == {k \in Nat : \A c \in Shorter(k) : Good(c)}
<1>1. 0 \in P
  BY DEF Shorter, Bytes
<1>2. ASSUME NEW k \in Nat, k \in P PROVE k + 1 \in P
  <2> SUFFICES ASSUME NEW c \in Shorter(k + 1) PROVE Good(c)
    OBVIOUS
  <2>1. c \in Bytes /\ <<>> \in Bytes /\ <<>> \in Seq(Bytes) /\ ~HasFrame(<<>>)
    BY EmptySeq DEF Shorter, Bytes, HasFrame
  <2>2. CASE Oversize(c) \/ ~HasFrame(c)
    BY <2>1, <2>2, FeedCases
  <2>3. CASE ~Oversize(c) /\ HasFrame(c)
    <3>1. After(c) \in Shorter(k) /\ Payload(c) \in Bytes
      BY <2>1, <2>3, FrameParts DEF Shorter
    <3>2. Good(After(c))
      BY <1>2, <3>1
    <3>3. <<Payload(c)>> \in Seq(Bytes)
      BY <3>1
    <3>4. <<Payload(c)>> \o Feed[After(c)].packets \in Seq(Bytes)
      BY <3>2, <3>3, ConcatProperties
    <3>5. QED
      BY <2>1, <2>3, <3>2, <3>4, FeedCases
  <2>4. QED
    BY <2>2, <2>3
<1>3. Nat \subseteq P
  <2> HIDE DEF P
  <2>1. QED
    BY <1>1, <1>2, SetInduction
<1>4. Len(b) + 1 \in P /\ b \in Shorter(Len(b) + 1)
  BY <1>3 DEF Bytes, Shorter
<1>5. QED
  BY <1>4

-----------------------------------------------------------------------------
(***************************************************************************)
(* Clean bytes: no length among them is larger than a packet may be.  The    *)
(* smallest set closed under adding a frame, so that what holds of bytes      *)
(* without a whole frame, and of bytes when it holds of those after their     *)
(* first frame, holds of all clean bytes.                                   *)
(***************************************************************************)
Closed(S) == \A b \in Bytes : (~Oversize(b) /\ (HasFrame(b) => After(b) \in S)) => b \in S
Clean == {b \in Bytes : \A S \in SUBSET Bytes : Closed(S) => b \in S}

LEMMA CleanIsClosed ==
    ASSUME NEW b \in Bytes, ~Oversize(b), HasFrame(b) => After(b) \in Clean
    PROVE  b \in Clean
  BY DEF Clean, Closed

LEMMA CleanInduction ==
    ASSUME NEW S \in SUBSET Clean,
           \A b \in Clean : ~Oversize(b) /\ (HasFrame(b) => After(b) \in S) => b \in S
    PROVE  S = Clean
<1>1. Closed(S)
  <2> SUFFICES ASSUME NEW b \in Bytes, ~Oversize(b), HasFrame(b) => After(b) \in S
               PROVE  b \in S
    BY DEF Closed
  <2>1. b \in Clean
    BY CleanIsClosed
  <2>2. QED
    BY <2>1
<1>2. S \in SUBSET Bytes
  BY DEF Clean
<1>3. \A b \in Clean : b \in S
  BY <1>1, <1>2 DEF Clean
<1>4. QED
  BY <1>3

LEMMA CleanParts ==
    ASSUME NEW b \in Clean
    PROVE  b \in Bytes /\ ~Oversize(b) /\ (HasFrame(b) => After(b) \in Clean)
<1> DEFINE S == {c \in Clean : ~Oversize(c) /\ (HasFrame(c) => After(c) \in Clean)}
<1>1. S \in SUBSET Clean
  OBVIOUS
<1>2. \A c \in Clean : ~Oversize(c) /\ (HasFrame(c) => After(c) \in S) => c \in S
  OBVIOUS
<1>3. S = Clean
  <2> HIDE DEF S
  <2>1. QED
    BY <1>1, <1>2, CleanInduction
<1>4. QED
  BY <1>3 DEF Clean

(* A first frame is the first frame however the bytes go on.                 *)
LEMMA FrameThenMore ==
    ASSUME NEW a \in Bytes, NEW b \in Bytes
    PROVE  /\ a \o b \in Bytes
           /\ Len(a) >= 2 => (Oversize(a \o b) <=> Oversize(a))
           /\ HasFrame(a) => /\ HasFrame(a \o b)
                             /\ Payload(a \o b) = Payload(a)
                             /\ After(a \o b) = After(a) \o b
<1>1. /\ a \o b \in Bytes /\ Len(a \o b) = Len(a) + Len(b)
      /\ Len(a) \in Nat /\ Len(b) \in Nat
      /\ \A i \in 1 .. Len(a) : (a \o b)[i] = a[i]
      /\ \A i \in 1 .. Len(b) : (a \o b)[Len(a) + i] = b[i]
  BY ConcatProperties DEF Bytes
<1>2. ASSUME Len(a) >= 2
      PROVE  PayloadLen(a \o b) = PayloadLen(a)
  BY <1>1, <1>2 DEF PayloadLen
<1>3. Len(a) >= 2 => (Oversize(a \o b) <=> Oversize(a))
  BY <1>1, <1>2 DEF Oversize
<1>4. ASSUME HasFrame(a)
      PROVE  /\ HasFrame(a \o b) /\ Payload(a \o b) = Payload(a)
             /\ After(a \o b) = After(a) \o b
  <2>1. /\ PayloadLen(a) \in Nat /\ Size(a) \in Nat /\ 2 <= Size(a) /\ Size(a) <= Len(a)
        /\ Size(a \o b) = Size(a) /\ Len(a) >= 2
        /\ PayloadLen(a \o b) = PayloadLen(a)
    BY <1>2, <1>4, FrameParts DEF HasFrame, Size
  <2>2. HasFrame(a \o b)
    BY <1>1, <2>1 DEF HasFrame, Size
  <2> DEFINE c == a \o b
  <2>3. c \in Seq(Byte) /\ a \in Seq(Byte) /\ b \in Seq(Byte)
    BY <1>1 DEF Bytes
  <2>4. Payload(c) = Payload(a)
    <3>1. Payload(c) = SubSeq(c, 3, Size(a)) /\ Payload(a) = SubSeq(a, 3, Size(a))
      BY <2>1 DEF Payload
    <3>2. CASE Size(a) < 3
      BY <2>1, <3>1, <3>2, SubSeqEmpty
    <3>3. CASE Size(a) >= 3
      <4>1. 3 \in 1 .. Len(a) /\ Size(a) \in 1 .. Len(a)
        BY <1>1, <2>1, <3>3
      <4>2. QED
        BY <2>3, <3>1, <4>1, SubSeqOfConcat1
    <3>4. QED
      BY <2>1, <3>2, <3>3
  <2>5. After(c) = After(a) \o b
    <3>1. Size(a) \in 0 .. Len(a)
      BY <1>1, <2>1
    <3>2. QED
      BY <1>1, <2>1, <2>3, <3>1, SuffixOfConcat DEF After
  <2>6. QED
    BY <2>2, <2>4, <2>5
<1>5. QED
  BY <1>1, <1>3, <1>4

(* Clean bytes fed in two parts give the packets they give in one, and the    *)
(* first part is clean: how TCP cuts them makes no difference.               *)
LEMMA FeedInParts ==
    ASSUME NEW a \in Bytes, NEW b \in Bytes, a \o b \in Clean
    PROVE  /\ a \in Clean /\ Feed[a].rest \o b \in Clean
           /\ Feed[a \o b].packets = Feed[a].packets \o Feed[Feed[a].rest \o b].packets
           /\ Feed[a \o b].rest = Feed[Feed[a].rest \o b].rest
<1> DEFINE Splits(x, y) ==
             /\ x \in Clean /\ Feed[x].rest \o y \in Clean
             /\ Feed[x \o y].packets = Feed[x].packets \o Feed[Feed[x].rest \o y].packets
             /\ Feed[x \o y].rest = Feed[Feed[x].rest \o y].rest
           S == {c \in Clean : \A x, y \in Bytes : c = x \o y => Splits(x, y)}
<1>1. S \in SUBSET Clean
  OBVIOUS
<1>2. ASSUME NEW c \in Clean, HasFrame(c) => After(c) \in S
      PROVE  c \in S
  <2> SUFFICES ASSUME NEW x \in Bytes, NEW y \in Bytes, c = x \o y PROVE Splits(x, y)
    OBVIOUS
  <2>1. ~Oversize(c) /\ c \in Bytes /\ (HasFrame(c) => After(c) \in Clean)
    BY CleanParts
  <2>2. ~Oversize(x)
    BY <2>1, FrameThenMore DEF Oversize
  <2>3. CASE HasFrame(x)
    <3>1. /\ HasFrame(c) /\ Payload(c) = Payload(x) /\ After(c) = After(x) \o y
          /\ After(x) \in Bytes /\ Payload(x) \in Bytes
      BY <2>3, FrameThenMore, FrameParts
    <3>2. Splits(After(x), y)
      BY <1>2, <3>1
    <3>3. x \in Clean
      BY <2>2, <3>2, CleanIsClosed
    <3>4. /\ Feed[x].packets = <<Payload(x)>> \o Feed[After(x)].packets
          /\ Feed[x].rest = Feed[After(x)].rest
      BY <2>2, <2>3, FeedCases
    <3>5. /\ Feed[c].packets = <<Payload(x)>> \o Feed[After(x) \o y].packets
          /\ Feed[c].rest = Feed[After(x) \o y].rest
      BY <2>1, <3>1, FeedCases
    <3> DEFINE p == Feed[After(x)].packets
               q == Feed[Feed[x].rest \o y].packets
    <3>6. p \in Seq(Bytes) /\ q \in Seq(Bytes) /\ <<Payload(x)>> \in Seq(Bytes)
      <4>1. Feed[x].rest \o y \in Bytes
        BY <3>2, <3>4 DEF Clean
      <4>2. QED
        BY <3>1, <4>1, FeedResult
    <3>7. Feed[After(x) \o y].packets = p \o q
      BY <3>2, <3>4
    <3> HIDE DEF p, q
    <3>8. (<<Payload(x)>> \o p) \o q = <<Payload(x)>> \o (p \o q)
      BY <3>6, ConcatAssociative
    <3>9. Feed[c].packets = Feed[x].packets \o q
      BY <3>4, <3>5, <3>7, <3>8 DEF p
    <3>10. QED
      BY <3>2, <3>3, <3>4, <3>5, <3>9 DEF q
  <2>4. CASE ~HasFrame(x)
    <3>1. Feed[x].packets = <<>> /\ Feed[x].rest = x
      BY <2>2, <2>4, FeedCases
    <3>2. x \in Clean
      BY <2>2, <2>4, CleanIsClosed
    <3>3. <<>> \o Feed[c].packets = Feed[c].packets
      BY <2>1, FeedResult, ConcatEmptySeq
    <3>4. QED
      BY <3>1, <3>2, <3>3
  <2>5. QED
    BY <2>3, <2>4
<1>3. S = Clean
  <2> HIDE DEF S
  <2>1. QED
    BY <1>1, <1>2, CleanInduction
<1>4. Splits(a, b)
  <2> HIDE DEF Splits
  <2>1. a \o b \in S
    BY <1>3
  <2>2. QED
    BY <2>1
<1>5. QED
  BY <1>4

(* More clean bytes behind whole frames add their packets.                   *)
LEMMA FeedBehindFrames ==
    ASSUME NEW a \in Clean, Feed[a].rest = <<>>, NEW b \in Clean
    PROVE  /\ a \o b \in Clean
           /\ Feed[a \o b].packets = Feed[a].packets \o Feed[b].packets
           /\ Feed[a \o b].rest = Feed[b].rest
<1> DEFINE Adds(c) == /\ c \o b \in Clean
                      /\ Feed[c \o b].packets = Feed[c].packets \o Feed[b].packets
                      /\ Feed[c \o b].rest = Feed[b].rest
           S == {c \in Clean : Feed[c].rest = <<>> => Adds(c)}
<1>1. S \in SUBSET Clean
  OBVIOUS
<1>2. ASSUME NEW c \in Clean, HasFrame(c) => After(c) \in S
      PROVE  c \in S
  <2> SUFFICES ASSUME Feed[c].rest = <<>> PROVE Adds(c)
    OBVIOUS
  <2>1. ~Oversize(c) /\ c \in Bytes /\ b \in Bytes /\ c \o b \in Bytes
    BY CleanParts, FrameThenMore
  <2>2. CASE HasFrame(c)
    <3>1. /\ HasFrame(c \o b) /\ Payload(c \o b) = Payload(c) /\ After(c \o b) = After(c) \o b
          /\ ~Oversize(c \o b) /\ After(c) \in Bytes /\ Payload(c) \in Bytes
      BY <2>1, <2>2, FrameThenMore, FrameParts DEF HasFrame
    <3>2. /\ Feed[c].packets = <<Payload(c)>> \o Feed[After(c)].packets
          /\ Feed[c].rest = Feed[After(c)].rest
      BY <2>1, <2>2, FeedCases
    <3>3. Adds(After(c))
      BY <1>2, <2>2, <3>2
    <3>4. c \o b \in Clean
      BY <2>1, <3>1, <3>3, CleanIsClosed
    <3>5. /\ Feed[c \o b].packets = <<Payload(c)>> \o Feed[After(c) \o b].packets
          /\ Feed[c \o b].rest = Feed[After(c) \o b].rest
      BY <2>1, <3>1, FeedCases
    <3> DEFINE p == Feed[After(c)].packets
               q == Feed[b].packets
    <3>6. p \in Seq(Bytes) /\ q \in Seq(Bytes) /\ <<Payload(c)>> \in Seq(Bytes)
      BY <2>1, <3>1, FeedResult
    <3> HIDE DEF p, q
    <3>7. (<<Payload(c)>> \o p) \o q = <<Payload(c)>> \o (p \o q)
      BY <3>6, ConcatAssociative
    <3>8. Feed[c \o b].packets = Feed[c].packets \o Feed[b].packets
      BY <3>2, <3>3, <3>5, <3>7 DEF p, q
    <3>9. QED
      BY <3>3, <3>4, <3>5, <3>8
  <2>3. CASE ~HasFrame(c)
    <3>1. c = <<>> /\ Feed[c].packets = <<>>
      BY <2>1, <2>3, FeedCases
    <3>2. c \o b = b
      BY <2>1, <3>1, ConcatEmptySeq DEF Bytes
    <3>3. <<>> \o Feed[b].packets = Feed[b].packets
      BY <2>1, FeedResult, ConcatEmptySeq
    <3>4. QED
      BY <3>1, <3>2, <3>3
  <2>4. QED
    BY <2>2, <2>3
<1>3. S = Clean
  <2> HIDE DEF S
  <2>1. QED
    BY <1>1, <1>2, CleanInduction
<1>4. QED
  BY <1>3

(* The two bytes of a length.                                              *)
LEMMA TwoDigits ==
    ASSUME NEW n \in Nat, NEW k \in Nat \ {0}, n < k * k
    PROVE  /\ n \div k \in 0 .. k - 1 /\ n % k \in 0 .. k - 1
           /\ k * (n \div k) + (n % k) = n
<1>1. n \div k \in 0 .. k - 1
  OBVIOUS
<1>2. n % k \in 0 .. k - 1 /\ k * (n \div k) + (n % k) = n
  OBVIOUS
<1>3. QED
  BY <1>1, <1>2

(* encodeFrame() and feed() are inverse: a packet that is not too large comes *)
(* out as it was, and nothing is left.                                      *)
LEMMA FeedOfFrame ==
    ASSUME NEW p \in Bytes
    PROVE  /\ encodeFrame(p) \in Clean /\ Feed[encodeFrame(p)].rest = <<>>
           /\ Feed[encodeFrame(p)].packets = IF Fits(p) THEN <<p>> ELSE <<>>
<1>1. <<>> \in Clean /\ Feed[<<>>].rest = <<>> /\ Feed[<<>>].packets = <<>>
  <2>1. <<>> \in Bytes /\ ~HasFrame(<<>>) /\ ~Oversize(<<>>)
    BY EmptySeq DEF Bytes, HasFrame, Oversize
  <2>2. QED
    BY <2>1, CleanIsClosed, FeedCases
<1>2. CASE ~Fits(p)
  BY <1>1, <1>2 DEF encodeFrame
<1>3. CASE Fits(p)
  <2> DEFINE hi == Len(p) \div ByteBase
             lo == Len(p) % ByteBase
             head == <<hi, lo>>
             b == encodeFrame(p)
  <2>1. Len(p) \in Nat /\ Len(p) <= kMaxPayload /\ p \in Seq(Byte)
    BY <1>3 DEF Fits, Bytes
  <2>2. ByteBase \in Nat \ {0} /\ Len(p) < ByteBase * ByteBase
    BY <2>1, FrameAssumption
  <2>3. hi \in Byte /\ lo \in Byte /\ ByteBase * hi + lo = Len(p)
    BY <2>1, <2>2, TwoDigits DEF Byte
  <2>4. b = head \o p
    BY <1>3 DEF encodeFrame, writeFrame
  <2> HIDE DEF b, hi, lo
  <2>5. head \in Seq(Byte) /\ Len(head) = 2 /\ head[1] = hi /\ head[2] = lo
    BY <2>3
  <2> HIDE DEF head
  <2>6. /\ b \in Seq(Byte) /\ Len(b) = 2 + Len(p) /\ b[1] = hi /\ b[2] = lo
    <3>1. /\ b \in Seq(Byte) /\ Len(b) = Len(head) + Len(p)
          /\ \A i \in 1 .. Len(head) + Len(p) :
                b[i] = IF i <= Len(head) THEN head[i] ELSE p[i - Len(head)]
      BY <2>1, <2>4, <2>5, ConcatProperties
    <3>2. 1 \in 1 .. Len(head) + Len(p) /\ 2 \in 1 .. Len(head) + Len(p)
      BY <2>1, <2>5
    <3>3. QED
      BY <2>5, <3>1, <3>2
  <2>7. PayloadLen(b) = Len(p) /\ Size(b) = Len(b)
    BY <2>3, <2>6 DEF PayloadLen, Size
  <2>8. HasFrame(b) /\ ~Oversize(b) /\ b \in Bytes
    BY <2>1, <2>6, <2>7, FrameAssumption DEF HasFrame, Oversize, Bytes
  <2>9. After(b) = <<>>
    BY <2>1, <2>6, <2>7, SubSeqEmpty DEF After
  <2>10. Payload(b) = p
    <3>1. SubSeq(b, 3, Len(b)) = SubSeq(head, 3, Len(head)) \o p
      <4>1. 2 \in 0 .. Len(head) /\ 2 + 1 = 3
        BY <2>5
      <4>2. SubSeq(head \o p, 2 + 1, Len(head \o p)) = SubSeq(head, 2 + 1, Len(head)) \o p
        BY <2>1, <2>5, <4>1, SuffixOfConcat
      <4>3. QED
        BY <2>4, <4>1, <4>2
    <3>2. SubSeq(head, 3, Len(head)) = <<>>
      BY <2>5, SubSeqEmpty
    <3>3. <<>> \o p = p
      BY <2>1, ConcatEmptySeq
    <3>4. QED
      BY <2>7, <3>1, <3>2, <3>3 DEF Payload
  <2>11. Feed[b].packets = <<p>> \o <<>> /\ Feed[b].rest = <<>>
    BY <1>1, <2>8, <2>9, <2>10, FeedCases
  <2>12. <<p>> \in Seq(Bytes) /\ <<p>> \o <<>> = <<p>>
    <3>1. <<p>> \in Seq(Bytes)
      OBVIOUS
    <3>2. QED
      BY <3>1, ConcatEmptySeq
  <2>13. b \in Clean
    BY <1>1, <2>8, <2>9, CleanIsClosed
  <2>14. QED
    BY <1>3, <2>11, <2>12, <2>13 DEF b
<1>4. QED
  BY <1>2, <1>3

-----------------------------------------------------------------------------
(***************************************************************************)
(* The inductive invariant.  What both buffers and the connection hold of a   *)
(* direction is clean as long as it can still arrive, and whole frames while   *)
(* both ends are there; what an end that is gone held is empty, so that a     *)
(* later connection starts with nothing of an earlier one.                   *)
(***************************************************************************)
Stream(d) == rcv[d] \o net[d] \o snd[d]

\* What is under way in d can still arrive.
Live(d) == ~broken /\ (IF d = "up" THEN sSock # "closed" ELSE cOpen)

BuffersOK ==
    /\ snd \in [Dirs -> Bytes] /\ net \in [Dirs -> Bytes] /\ rcv \in [Dirs -> Bytes]
    /\ out \in [Dirs -> Seq(Bytes)]
    /\ \A d \in Dirs : Len(net[d]) <= PipeBytes

EndsOK ==
    /\ end \in {"client", "relay"} /\ cOpen \in BOOLEAN /\ broken \in BOOLEAN
    /\ sSock \in {"closed", "backlog", "open"} /\ polling \subseteq {"client", "server"}

Emptied ==
    /\ broken => net["up"] = <<>> /\ net["down"] = <<>>
    /\ ~cOpen => snd["up"] = <<>> /\ rcv["down"] = <<>> /\ net["down"] = <<>>
    /\ sSock # "open" => snd["down"] = <<>> /\ rcv["up"] = <<>>
    /\ sSock = "closed" => net["up"] = <<>>

StreamsClean == \A d \in Dirs : Live(d) => Stream(d) \in Clean

LinkInv ==
    BuffersOK /\ EndsOK /\ Emptied /\ StreamsClean /\ WholeFrames /\ NoPacketWaits

(* The packets of a direction are taken from its front, or lost from its end. *)
Took(d) == Queue(d) = out'[d] \o Queue(d)'
Lost(d) == \E r \in Seq(Bytes) : Queue(d) = (out'[d] \o Queue(d)') \o r

LEMMA QueueIsFed ==
    ASSUME NEW d \in Dirs
    PROVE  /\ Queue(d) = IF Live(d) THEN Feed[Stream(d)].packets ELSE <<>>
           /\ Queue(d)' = IF Live(d)' THEN Feed[Stream(d)'].packets ELSE <<>>
  BY DEF Queue, Live, Stream

LEMMA BytesConcat ==
    ASSUME NEW a \in Bytes, NEW b \in Bytes
    PROVE  /\ a \o b \in Bytes
           /\ a \o <<>> = a /\ <<>> \o a = a /\ <<>> \in Bytes
<1>1. a \in Seq(Byte) /\ b \in Seq(Byte)
  BY DEF Bytes
<1>2. a \o b \in Seq(Byte)
  BY <1>1, ConcatProperties
<1>3. a \o <<>> = a /\ <<>> \o a = a
  BY <1>1, ConcatEmptySeq
<1>4. QED
  BY <1>2, <1>3, EmptySeq DEF Bytes

LEMMA BytesAssociate ==
    ASSUME NEW a \in Bytes, NEW b \in Bytes, NEW c \in Bytes
    PROVE  (a \o b) \o c = a \o (b \o c)
<1>1. a \in Seq(Byte) /\ b \in Seq(Byte) /\ c \in Seq(Byte)
  BY DEF Bytes
<1>2. QED
  BY <1>1, ConcatAssociative

LEMMA StreamTypes ==
    ASSUME BuffersOK, NEW d \in Dirs
    PROVE  /\ snd[d] \in Bytes /\ net[d] \in Bytes /\ rcv[d] \in Bytes
           /\ rcv[d] \o net[d] \in Bytes /\ Stream(d) \in Bytes
           /\ Queue(d) \in Seq(Bytes)
<1>1. snd[d] \in Bytes /\ net[d] \in Bytes /\ rcv[d] \in Bytes
  BY DEF BuffersOK
<1>2. rcv[d] \o net[d] \in Bytes /\ Stream(d) \in Bytes
  BY <1>1, BytesConcat DEF Stream
<1>3. Queue(d) \in Seq(Bytes)
  BY <1>2, QueueIsFed, FeedResult, EmptySeq
<1>4. QED
  BY <1>1, <1>2, <1>3

(* Nothing under way is nothing to come.                                    *)
LEMMA EmptyStream ==
    /\ <<>> \in Clean /\ Feed[<<>>].packets = <<>> /\ Feed[<<>>].rest = <<>>
    /\ ~HasFrame(<<>>)
<1>1. <<>> \in Bytes /\ ~HasFrame(<<>>) /\ ~Oversize(<<>>)
  BY EmptySeq DEF Bytes, HasFrame, Oversize
<1>2. QED
  BY <1>1, CleanIsClosed, FeedCases

(* What a write leaves: the bytes are where they were, or further on.        *)
Moved(d, bytes) ==
    /\ snd' \in [Dirs -> Bytes] /\ net' \in [Dirs -> Bytes]
    /\ \A e \in Dirs \ {d} : snd'[e] = snd[e] /\ net'[e] = net[e]
    /\ net'[d] \o snd'[d] = net[d] \o bytes
    /\ Len(net'[d]) <= PipeBytes
    /\ bytes = <<>> => snd'[d] = <<>>

LEMMA WriteMoves ==
    ASSUME BuffersOK, NEW d \in Dirs, NEW bytes \in Bytes, NEW n \in 0 .. Len(bytes),
           Len(net[d]) + n <= PipeBytes, Write(d, bytes, n)
    PROVE  Moved(d, bytes)
<1> DEFINE front == SubSeq(bytes, 1, n)
           back  == SubSeq(bytes, n + 1, Len(bytes))
<1>1. /\ front \in Bytes /\ Len(front) = n /\ front \o back = bytes
      /\ back \in Bytes /\ Len(back) = Len(bytes) - n
  BY PrefixThenSuffix, SuffixProperties DEF Bytes
<1>2. net' = [net EXCEPT ![d] = @ \o front] /\ snd' = [snd EXCEPT ![d] = back]
  BY DEF Write
<1>3. snd \in [Dirs -> Bytes] /\ net \in [Dirs -> Bytes] /\ net[d] \in Bytes
  BY DEF BuffersOK
<1> HIDE DEF front, back
<1>4. /\ net[d] \o front \in Bytes /\ Len(net[d] \o front) = Len(net[d]) + n
      /\ (net[d] \o front) \o back = net[d] \o (front \o back)
  <2> DEFINE kernel == net[d]
  <2>1. kernel \in Bytes /\ front \in Bytes /\ back \in Bytes
    BY <1>1, <1>3
  <2> HIDE DEF kernel
  <2>2. (kernel \o front) \o back = kernel \o (front \o back)
    BY <2>1, BytesAssociate
  <2>5. kernel \o front \in Bytes
    BY <2>1, BytesConcat
  <2>3. Len(kernel \o front) = Len(kernel) + Len(front)
    BY <1>1, <2>1, ConcatProperties DEF Bytes
  <2>4. QED
    BY <1>1, <2>2, <2>5, <2>3 DEF kernel
<1>5. /\ snd' \in [Dirs -> Bytes] /\ net' \in [Dirs -> Bytes]
      /\ \A e \in Dirs \ {d} : snd'[e] = snd[e] /\ net'[e] = net[e]
      /\ net'[d] = net[d] \o front /\ snd'[d] = back
  BY <1>1, <1>2, <1>3, <1>4
<1>6. bytes = <<>> => back = <<>>
  <2> SUFFICES ASSUME bytes = <<>> PROVE back = <<>>
    OBVIOUS
  <2>1. Len(back) = 0 /\ back \in Seq(Byte)
    BY <1>1 DEF Bytes
  <2>2. QED
    BY <2>1, EmptySeq
<1>7. QED
  BY <1>1, <1>4, <1>5, <1>6 DEF Moved

LEMMA SendOnceMoves ==
    ASSUME BuffersOK, NEW bytes \in Bytes, Alive, SendOnce(bytes)
    PROVE  Moved("up", bytes)
<1>1. "up" \in Dirs
  BY DEF Dirs
<1>2. PICK n \in Takes("up", bytes) : Write("up", bytes, n)
  BY DEF SendOnce
<1>3. /\ Len(bytes) \in Nat /\ Len(net["up"]) \in Nat /\ Len(net["up"]) <= PipeBytes
      /\ PipeBytes \in Nat
  BY <1>1, FrameAssumption DEF BuffersOK, Bytes
<1>4. n \in 0 .. Len(bytes) /\ Len(net["up"]) + n <= PipeBytes
  BY <1>2, <1>3 DEF Takes, Smaller
<1>5. QED
  BY <1>1, <1>2, <1>4, WriteMoves

LEMMA FlushMoves ==
    ASSUME BuffersOK, NEW bytes \in Bytes, Alive, FlushSendBuffer(bytes)
    PROVE  Moved("down", bytes)
<1> DEFINE full == Len(net["down"])
           room == PipeBytes - full
           n == Smaller(Len(bytes), room)
<1>1. "down" \in Dirs
  BY DEF Dirs
<1>2. Write("down", bytes, n)
  BY DEF FlushSendBuffer
<1>3. /\ Len(bytes) \in Nat /\ Len(net["down"]) \in Nat /\ Len(net["down"]) <= PipeBytes
      /\ PipeBytes \in Nat
  BY <1>1, FrameAssumption DEF BuffersOK, Bytes
<1>4. n \in 0 .. Len(bytes) /\ full + n <= PipeBytes
  <2>1. room \in Nat /\ full \in Nat /\ full + room = PipeBytes /\ Len(bytes) \in Nat
    BY <1>3
  <2> HIDE DEF room, full
  <2>2. CASE Len(bytes) < room
    BY <2>1, <2>2, <1>3 DEF Smaller
  <2>3. CASE ~(Len(bytes) < room)
    BY <2>1, <2>3, <1>3 DEF Smaller
  <2>4. QED
    BY <2>2, <2>3
<1>5. QED
  BY <1>1, <1>2, <1>4, WriteMoves

(* What is written behind the stream is behind it.                           *)
LEMMA MovedStream ==
    ASSUME BuffersOK, NEW d \in Dirs, NEW more \in Bytes, Moved(d, snd[d] \o more), rcv' = rcv
    PROVE  /\ Stream(d)' = Stream(d) \o more
           /\ \A e \in Dirs \ {d} : Stream(e)' = Stream(e)
<1>1. snd[d] \in Bytes /\ net[d] \in Bytes /\ rcv[d] \in Bytes /\ snd'[d] \in Bytes /\ net'[d] \in Bytes
  BY DEF BuffersOK, Moved
<1>2. net'[d] \o snd'[d] = net[d] \o (snd[d] \o more)
  BY DEF Moved
<1>3. (rcv[d] \o net'[d]) \o snd'[d] = ((rcv[d] \o net[d]) \o snd[d]) \o more
  <2> DEFINE r == rcv[d]  n == net[d]  s == snd[d]  n2 == net'[d]  s2 == snd'[d]
  <2>1. /\ r \in Bytes /\ n \in Bytes /\ s \in Bytes /\ n2 \in Bytes /\ s2 \in Bytes
    BY <1>1
  <2>2. n2 \o s2 = n \o (s \o more)
    BY <1>2
  <2> HIDE DEF r, n, s, n2, s2
  <2>3. (r \o n2) \o s2 = ((r \o n) \o s) \o more
    <3> DEFINE front == r \o n
               back  == s \o more
    <3>1. (r \o n2) \o s2 = r \o (n2 \o s2)
      BY <2>1, BytesAssociate
    <3>2. front \in Bytes /\ back \in Bytes
      BY <2>1, BytesConcat
    <3>3. r \o (n \o back) = (r \o n) \o back
      <4>1. r \in Bytes /\ n \in Bytes /\ back \in Bytes
        BY <2>1, <3>2
      <4> HIDE DEF front, back
      <4>2. QED
        BY <4>1, BytesAssociate
    <3>4. front \o (s \o more) = (front \o s) \o more
      <4>1. front \in Bytes /\ s \in Bytes
        BY <2>1, <3>2
      <4> HIDE DEF front, back
      <4>2. QED
        BY <4>1, BytesAssociate
    <3>5. QED
      BY <2>2, <3>1, <3>3, <3>4
  <2>4. QED
    BY <2>3 DEF r, n, s, n2, s2
<1>4. Stream(d)' = Stream(d) \o more
  BY <1>3 DEF Stream
<1>5. \A e \in Dirs \ {d} : Stream(e)' = Stream(e)
  BY DEF Moved, Stream
<1>6. QED
  BY <1>4, <1>5

-----------------------------------------------------------------------------
(***************************************************************************)
(* Every step keeps the invariant, and does to the two queues what PacketFifo *)
(* allows.                                                                 *)
(***************************************************************************)
LEMMA LinkInitHolds == LinkInit => LinkInv
<1> SUFFICES ASSUME LinkInit PROVE LinkInv
  OBVIOUS
<1>1. /\ snd = Nothing /\ net = Nothing /\ rcv = Nothing /\ out = Nothing
      /\ cOpen = FALSE /\ sSock = "closed" /\ broken = FALSE /\ polling = {}
      /\ end \in {"client", "relay"}
  BY DEF LinkInit
<1>2. <<>> \in Bytes /\ <<>> \in Seq(Bytes) /\ Len(<<>>) = 0 /\ ~HasFrame(<<>>)
  BY EmptySeq DEF Bytes, HasFrame
<1>3. BuffersOK
  BY <1>1, <1>2, FrameAssumption DEF BuffersOK, Nothing
<1>4. EndsOK /\ Emptied /\ StreamsClean /\ WholeFrames
  BY <1>1 DEF EndsOK, Emptied, Nothing, Dirs, StreamsClean, Live, WholeFrames, Alive
<1>5. NoPacketWaits
  BY <1>1, <1>2 DEF NoPacketWaits, Nothing
<1>6. QED
  BY <1>3, <1>4, <1>5 DEF LinkInv

\* A step that leaves both streams as they are takes nothing from the queues.
LEMMA NothingTaken ==
    ASSUME BuffersOK, out' = Nothing,
           \A d \in Dirs : Live(d)' = Live(d) /\ Stream(d)' = Stream(d)
    PROVE  \A d \in Dirs : Took(d) /\ out'[d] = <<>>
<1> SUFFICES ASSUME NEW d \in Dirs PROVE Took(d) /\ out'[d] = <<>>
  OBVIOUS
<1>1. Queue(d)' = Queue(d)
  BY QueueIsFed
<1>2. out'[d] = <<>>
  BY DEF Nothing
<1>3. <<>> \o Queue(d) = Queue(d)
  BY StreamTypes, ConcatEmptySeq
<1>4. QED
  BY <1>1, <1>2, <1>3 DEF Took

(* ClientDone, ServerDone and RelayWrites: left-over bytes move on.           *)
LEMMA WritingOn ==
    ASSUME LinkInv, NEW d \in Dirs, Moved(d, snd[d]), Alive,
           UNCHANGED <<ends, rcv>>, polling' \subseteq polling, out' = Nothing,
           d = "down" => sSock = "open" \/ snd["down"] = <<>>
    PROVE  LinkInv' /\ (\A e \in Dirs : Took(e))
<1>1. BuffersOK /\ <<>> \in Bytes /\ snd[d] \in Bytes
  BY EmptySeq DEF LinkInv, BuffersOK, Bytes
<1>2. Moved(d, snd[d] \o <<>>)
  BY <1>1, BytesConcat
<1>3. \A e \in Dirs : Stream(e)' = Stream(e)
  <2>1. /\ Stream(d)' = Stream(d) \o <<>>
        /\ \A e \in Dirs \ {d} : Stream(e)' = Stream(e)
    BY <1>1, <1>2, MovedStream
  <2>2. Stream(d) \o <<>> = Stream(d)
    BY <1>1, StreamTypes, BytesConcat
  <2>3. QED
    BY <2>1, <2>2
<1>4. \A e \in Dirs : Live(e)' = Live(e)
  BY DEF Live, ends
<1>5. BuffersOK'
  <2>1. out' \in [Dirs -> Seq(Bytes)]
    BY EmptySeq DEF Nothing
  <2>2. QED
    BY <2>1 DEF LinkInv, BuffersOK, Moved
<1>6. EndsOK' /\ NoPacketWaits'
  BY DEF LinkInv, EndsOK, NoPacketWaits, ends
<1>7. Emptied'
  BY DEF LinkInv, Emptied, Moved, Alive, ends, Dirs
<1>8. StreamsClean' /\ WholeFrames'
  BY <1>3, <1>4 DEF LinkInv, StreamsClean, WholeFrames, Stream, Alive, ends
<1>9. QED
  BY <1>1, <1>3, <1>4, <1>5, <1>6, <1>7, <1>8, NothingTaken DEF LinkInv

(* ClientSend and ServerSend with both ends there: a packet that fits is put  *)
(* behind the queue, and one that does not changes nothing.                  *)
LEMMA SendingOn ==
    ASSUME LinkInv, NEW d \in Dirs, NEW p \in Payloads, Moved(d, snd[d] \o encodeFrame(p)),
           Alive, UNCHANGED <<ends, rcv, polling>>, out' = Nothing,
           d = "down" => sSock = "open"
    PROVE  /\ LinkInv'
           /\ ~Fits(p) => \A e \in Dirs : Took(e)
           /\ Fits(p) => /\ Queue(d)' = Append(Queue(d), p)
                         /\ \A e \in Dirs \ {d} : Queue(e)' = Queue(e)
<1> DEFINE frame == encodeFrame(p)
<1>1. p \in Bytes /\ BuffersOK
  BY FrameAssumption DEF LinkInv
<1>2. /\ frame \in Clean /\ frame \in Bytes /\ Feed[frame].rest = <<>>
      /\ Feed[frame].packets = IF Fits(p) THEN <<p>> ELSE <<>>
  BY <1>1, FeedOfFrame, CleanParts
<1> HIDE DEF frame
<1>3. /\ Stream(d)' = Stream(d) \o frame
      /\ \A e \in Dirs \ {d} : Stream(e)' = Stream(e)
  BY <1>1, <1>2, MovedStream DEF frame
<1>4. \A e \in Dirs : Live(e)' = Live(e) /\ Live(e)
  BY DEF Live, ends, Alive, LinkInv, EndsOK
<1>5. Stream(d) \in Clean /\ Feed[Stream(d)].rest = <<>>
  BY <1>4 DEF LinkInv, StreamsClean, WholeFrames, Stream
<1>6. /\ Stream(d)' \in Clean /\ Feed[Stream(d)'].rest = <<>>
      /\ Feed[Stream(d)'].packets = Feed[Stream(d)].packets \o Feed[frame].packets
  <2> DEFINE stream == Stream(d)
  <2>1. stream \in Clean /\ Feed[stream].rest = <<>>
    BY <1>5
  <2> HIDE DEF stream
  <2>2. /\ stream \o frame \in Clean /\ Feed[stream \o frame].rest = Feed[frame].rest
        /\ Feed[stream \o frame].packets = Feed[stream].packets \o Feed[frame].packets
    BY <1>2, <2>1, FeedBehindFrames
  <2>3. QED
    BY <1>2, <1>3, <2>2 DEF stream
<1>7. BuffersOK'
  <2>1. out' \in [Dirs -> Seq(Bytes)]
    BY EmptySeq DEF Nothing
  <2>2. QED
    BY <2>1 DEF LinkInv, BuffersOK, Moved
<1>8. EndsOK' /\ NoPacketWaits'
  BY DEF LinkInv, EndsOK, NoPacketWaits, ends
<1>9. Emptied'
  BY DEF LinkInv, Emptied, Moved, Alive, ends, Dirs
<1>10. StreamsClean' /\ WholeFrames'
  <2>1. \A e \in Dirs : Stream(e)' \in Clean /\ Feed[Stream(e)'].rest = <<>>
    BY <1>3, <1>4, <1>6 DEF LinkInv, StreamsClean, WholeFrames, Stream
  <2>2. QED
    BY <2>1 DEF StreamsClean, WholeFrames, Stream
<1>11. LinkInv'
  BY <1>7, <1>8, <1>9, <1>10 DEF LinkInv
<1>12. ASSUME ~Fits(p) PROVE \A e \in Dirs : Took(e)
  <2>1. Queue(d)' = Queue(d) \o <<>>
    BY <1>2, <1>4, <1>6, <1>12, QueueIsFed
  <2>2. \A e \in Dirs : Queue(e) \in Seq(Bytes)
    BY <1>1, StreamTypes
  <2>3. \A e \in Dirs : Queue(e)' = Queue(e)
    BY <2>1, <2>2, <1>3, <1>4, QueueIsFed, ConcatEmptySeq
  <2>4. \A e \in Dirs : <<>> \o Queue(e) = Queue(e)
    BY <2>2, ConcatEmptySeq
  <2>5. QED
    BY <2>3, <2>4 DEF Took, Nothing
<1>13. ASSUME Fits(p)
       PROVE  /\ Queue(d)' = Append(Queue(d), p)
              /\ \A e \in Dirs \ {d} : Queue(e)' = Queue(e)
  <2>1. Queue(d)' = Queue(d) \o <<p>>
    BY <1>2, <1>4, <1>6, <1>13, QueueIsFed
  <2>2. Queue(d) \in Seq(Bytes)
    BY <1>1, StreamTypes
  <2>3. Append(Queue(d), p) = Queue(d) \o <<p>>
    BY <1>1, <2>2, AppendIsConcat
  <2>4. QED
    BY <2>1, <2>3, <1>3, <1>4, QueueIsFed
<1>14. QED
  BY <1>11, <1>12, <1>13

\* A connection starts with nothing, whatever the last one left.
LEMMA ConnectStep ==
    ASSUME LinkInv, Connect
    PROVE  LinkInv' /\ \A e \in Dirs : Took(e)
<1>1. /\ ~cOpen /\ sSock = "closed" /\ cOpen' = TRUE /\ sSock' = "backlog" /\ broken' = FALSE
      /\ snd' = [snd EXCEPT !["up"] = <<>>] /\ net' = Nothing /\ out' = Nothing
      /\ UNCHANGED <<end, rcv, polling>>
  BY DEF Connect
<1>2. BuffersOK /\ Emptied
  BY DEF LinkInv
<1>3. <<>> \in Bytes /\ <<>> \in Seq(Bytes) /\ Len(<<>>) = 0
  BY EmptySeq DEF Bytes
<1>4. BuffersOK'
  <2>1. 0 <= PipeBytes
    BY FrameAssumption
  <2>2. QED
    BY <1>1, <1>2, <1>3, <2>1 DEF BuffersOK, Nothing
<1>5. EndsOK' /\ NoPacketWaits'
  BY <1>1 DEF LinkInv, EndsOK, NoPacketWaits
<1>6. \A d \in Dirs : rcv'[d] = <<>> /\ net'[d] = <<>> /\ snd'[d] = <<>>
  BY <1>1, <1>2 DEF Emptied, BuffersOK, Nothing, Dirs
<1>7. \A d \in Dirs : Stream(d)' = <<>>
  <2>1. <<>> \o <<>> = <<>>
    BY <1>3, BytesConcat
  <2>2. QED
    BY <1>6, <2>1 DEF Stream
<1>8. Emptied' /\ StreamsClean' /\ WholeFrames'
  BY <1>1, <1>6, <1>7, EmptyStream DEF Emptied, StreamsClean, WholeFrames, Stream, Dirs
<1>9. \A e \in Dirs : Queue(e) = <<>> /\ Queue(e)' = <<>>
  BY <1>1, <1>7, QueueIsFed, EmptyStream DEF Live, Dirs
<1>10. \A e \in Dirs : Took(e)
  <2>1. <<>> \o <<>> = <<>>
    BY <1>3, BytesConcat
  <2>2. QED
    BY <1>1, <1>9, <2>1 DEF Took, Nothing
<1>11. QED
  BY <1>4, <1>5, <1>8, <1>10 DEF LinkInv

\* accept() clears buffers that are empty already.
LEMMA AcceptStep ==
    ASSUME LinkInv, Accept
    PROVE  LinkInv' /\ \A e \in Dirs : Took(e)
<1>1. /\ sSock = "backlog" /\ sSock' = "open" /\ out' = Nothing
      /\ snd' = [snd EXCEPT !["down"] = <<>>] /\ rcv' = [rcv EXCEPT !["up"] = <<>>]
      /\ UNCHANGED <<end, net, cOpen, broken, polling>>
  BY DEF Accept
<1>2. BuffersOK /\ Emptied
  BY DEF LinkInv
<1>3. snd' = snd /\ rcv' = rcv
  BY <1>1, <1>2 DEF Emptied, BuffersOK, Dirs
<1>4. \A d \in Dirs : Live(d)' = Live(d) /\ Stream(d)' = Stream(d)
  BY <1>1, <1>3 DEF Live, Stream
<1>5. BuffersOK'
  BY <1>1, <1>2, <1>3, EmptySeq DEF BuffersOK, Nothing
<1>6. EndsOK' /\ NoPacketWaits' /\ Emptied'
  BY <1>1, <1>3 DEF LinkInv, EndsOK, NoPacketWaits, Emptied
<1>7. StreamsClean' /\ WholeFrames'
  BY <1>1, <1>3, <1>4 DEF LinkInv, StreamsClean, WholeFrames, Alive
<1>8. QED
  BY <1>1, <1>2, <1>4, <1>5, <1>6, <1>7, NothingTaken DEF LinkInv

(* Bytes given to a socket that is lost already change nothing that arrives.  *)
LEMMA SendingInVain ==
    ASSUME LinkInv, NEW d \in Dirs, ~Live(d), ~Alive,
           snd' \in [Dirs -> Bytes], \A e \in Dirs \ {d} : snd'[e] = snd[e],
           d = "up" => cOpen, d = "down" => snd'["down"] = <<>>,
           UNCHANGED <<ends, net, rcv, polling>>, out' = Nothing
    PROVE  LinkInv' /\ \A e \in Dirs : Took(e)
<1>1. BuffersOK /\ Emptied
  BY DEF LinkInv
<1>2. BuffersOK'
  BY <1>1, EmptySeq DEF BuffersOK, Nothing
<1>3. EndsOK' /\ NoPacketWaits'
  BY DEF LinkInv, EndsOK, NoPacketWaits, ends
<1>4. Emptied'
  BY <1>1 DEF Emptied, ends, Dirs
<1>5. \A e \in Dirs : Live(e)' = Live(e) /\ (Live(e) => Stream(e)' = Stream(e))
  BY DEF Live, Stream, ends
<1>6. StreamsClean' /\ WholeFrames'
  BY <1>5 DEF LinkInv, StreamsClean, WholeFrames, Alive, ends
<1>7. \A e \in Dirs : Took(e)
  <2> SUFFICES ASSUME NEW e \in Dirs PROVE Took(e)
    OBVIOUS
  <2>1. Queue(e)' = Queue(e)
    BY <1>5, QueueIsFed
  <2>2. out'[e] = <<>> /\ <<>> \o Queue(e) = Queue(e)
    BY <1>1, StreamTypes, ConcatEmptySeq DEF Nothing
  <2>3. QED
    BY <2>1, <2>2 DEF Took
<1>8. QED
  BY <1>2, <1>3, <1>4, <1>6, <1>7 DEF LinkInv

(* What the browser sends is a packet the game's own client could frame.     *)
LEMMA RelayFrames ==
    ASSUME NEW p \in BrowserPackets
    PROVE  p \in Payloads /\ Fits(p) /\ writeFrame(p) = encodeFrame(p)
BY BrowserAssumption DEF encodeFrame

LEMMA SendStep ==
    ASSUME LinkInv, NEW p \in Payloads,
           ClientSend(p) \/ ServerSend(p) \/ (p \in BrowserPackets /\ RelayForwards(p))
    PROVE  /\ LinkInv' /\ out' = Nothing
           /\ \/ \A e \in Dirs : Took(e)
              \/ Fits(p) /\ \E d \in Dirs : /\ Queue(d)' = Append(Queue(d), p)
                                            /\ \A e \in Dirs \ {d} : Queue(e)' = Queue(e)
<1>1. /\ "up" \in Dirs /\ "down" \in Dirs /\ BuffersOK
      /\ snd \in [Dirs -> Bytes] /\ snd["up"] \in Bytes /\ snd["down"] \in Bytes
  BY DEF Dirs, LinkInv, BuffersOK
<1>2. encodeFrame(p) \in Bytes
  BY FrameAssumption, FeedOfFrame, CleanParts
<1>3. snd["up"] \o encodeFrame(p) \in Bytes /\ snd["down"] \o encodeFrame(p) \in Bytes
  BY <1>1, <1>2, BytesConcat
<1>4. CASE ClientSend(p) \/ (p \in BrowserPackets /\ RelayForwards(p))
  <2> DEFINE bytes == snd["up"] \o encodeFrame(p)
  <2>1. /\ cOpen /\ SendOnce(bytes) /\ out' = Nothing /\ UNCHANGED <<ends, rcv, polling>>
    BY <1>4, RelayFrames DEF ClientSend, RelayForwards
  <2>2. CASE Alive
    <3>1. Moved("up", bytes)
      BY <1>1, <1>3, <2>1, <2>2, SendOnceMoves
    <3>2. /\ LinkInv'
          /\ ~Fits(p) => \A e \in Dirs : Took(e)
          /\ Fits(p) => /\ Queue("up")' = Append(Queue("up"), p)
                        /\ \A e \in Dirs \ {"up"} : Queue(e)' = Queue(e)
      BY <1>1, <2>1, <2>2, <3>1, SendingOn
    <3>3. QED
      BY <1>1, <2>1, <3>2
  <2>3. CASE ~Alive
    <3>1. snd' = [snd EXCEPT !["up"] = bytes] /\ net' = net
      BY <2>1, <2>3 DEF SendOnce
    <3> HIDE DEF bytes
    <3>2. snd' \in [Dirs -> Bytes] /\ \A e \in Dirs \ {"up"} : snd'[e] = snd[e]
      BY <1>1, <1>3, <3>1 DEF bytes
    <3>3. ~Live("up")
      BY <2>1, <2>3 DEF Alive, Live
    <3>4. QED
      BY <1>1, <2>1, <2>3, <3>1, <3>2, <3>3, SendingInVain
  <2>4. QED
    BY <2>2, <2>3
<1>5. CASE ServerSend(p)
  <2> DEFINE bytes == snd["down"] \o encodeFrame(p)
  <2>1. /\ sSock = "open" /\ Fits(p) /\ FlushSendBuffer(bytes)
        /\ out' = Nothing /\ UNCHANGED <<ends, rcv, polling>>
    BY <1>5 DEF ServerSend
  <2>2. CASE Alive
    <3>1. Moved("down", bytes)
      BY <1>1, <1>3, <2>1, <2>2, FlushMoves
    <3>2. /\ LinkInv'
          /\ Queue("down")' = Append(Queue("down"), p)
          /\ \A e \in Dirs \ {"down"} : Queue(e)' = Queue(e)
      BY <1>1, <2>1, <2>2, <3>1, SendingOn
    <3>3. QED
      BY <1>1, <2>1, <3>2
  <2>3. CASE ~Alive
    <3>1. snd' = [snd EXCEPT !["down"] = <<>>] /\ net' = net
      BY <2>1, <2>3 DEF FlushSendBuffer
    <3>2. /\ snd' \in [Dirs -> Bytes] /\ \A e \in Dirs \ {"down"} : snd'[e] = snd[e]
          /\ snd'["down"] = <<>>
      BY <1>1, <3>1, EmptySeq DEF Bytes
    <3>3. ~Live("down")
      BY <2>1, <2>3 DEF Alive, Live
    <3>4. QED
      BY <1>1, <2>1, <2>3, <3>1, <3>2, <3>3, SendingInVain
  <2>4. QED
    BY <2>2, <2>3
<1>6. QED
  BY <1>4, <1>5

LEMMA WriteOnStep ==
    ASSUME LinkInv, ClientDone \/ ServerDone \/ RelayWrites
    PROVE  LinkInv' /\ \A e \in Dirs : Took(e)
<1>1. /\ "up" \in Dirs /\ "down" \in Dirs /\ BuffersOK /\ Emptied
      /\ snd \in [Dirs -> Bytes] /\ snd["up"] \in Bytes /\ snd["down"] \in Bytes
  BY DEF Dirs, LinkInv, BuffersOK
<1>2. CASE ServerDone
  <2>1. /\ Alive /\ UNCHANGED <<ends, rcv>> /\ polling' \subseteq polling /\ out' = Nothing
        /\ FlushSendBuffer(snd["down"])
    BY <1>2 DEF ServerDone
  <2>2. Moved("down", snd["down"])
    BY <1>1, <2>1, FlushMoves
  <2>3. sSock = "open" \/ snd["down"] = <<>>
    BY <1>1 DEF Emptied
  <2>4. QED
    BY <1>1, <2>1, <2>2, <2>3, WritingOn
<1>3. CASE (ClientDone \/ RelayWrites) /\ SendOnce(snd["up"])
  <2>1. Alive /\ UNCHANGED <<ends, rcv>> /\ polling' \subseteq polling /\ out' = Nothing
    BY <1>3 DEF ClientDone, RelayWrites
  <2>2. Moved("up", snd["up"])
    BY <1>1, <1>3, <2>1, SendOnceMoves
  <2>3. QED
    BY <1>1, <2>1, <2>2, WritingOn
<1>4. CASE ClientDone /\ snd["up"] = <<>>
  <2>1. /\ Alive /\ UNCHANGED <<ends, rcv, snd, net>> /\ polling' \subseteq polling
        /\ out' = Nothing
    BY <1>4 DEF ClientDone
  <2>2. Moved("up", snd["up"])
    BY <1>1, <2>1 DEF Moved, BuffersOK
  <2>3. QED
    BY <1>1, <2>1, <2>2, WritingOn
<1>5. QED
  BY <1>2, <1>3, <1>4 DEF ClientDone, RelayWrites

\* A stream where recv() cuts it.
LEMMA CutStream ==
    ASSUME BuffersOK, NEW d \in Dirs, NEW n \in 0 .. Len(net[d])
    PROVE  LET chunk == SubSeq(net[d], 1, n)
               back  == SubSeq(net[d], n + 1, Len(net[d]))
           IN  /\ chunk \in Bytes /\ back \in Bytes /\ rcv[d] \o chunk \in Bytes
               /\ Len(back) = Len(net[d]) - n
               /\ back \o snd[d] \in Bytes
               /\ Stream(d) = (rcv[d] \o chunk) \o (back \o snd[d])
<1> DEFINE kernel == net[d]  got == rcv[d]  kept == snd[d]
           chunk == SubSeq(kernel, 1, n)
           back  == SubSeq(kernel, n + 1, Len(kernel))
           all   == got \o chunk
<1>1. kernel \in Bytes /\ got \in Bytes /\ kept \in Bytes
  BY DEF BuffersOK
<1>2. chunk \in Bytes /\ back \in Bytes /\ chunk \o back = kernel /\ Len(back) = Len(kernel) - n
  BY <1>1, PrefixThenSuffix, SuffixProperties DEF Bytes
<1> HIDE DEF chunk, back, kernel, got, kept
<1>3. all \in Bytes /\ back \o kept \in Bytes
  BY <1>1, <1>2, BytesConcat
<1>4. got \o (chunk \o back) = all \o back
  <2>1. got \in Bytes /\ chunk \in Bytes /\ back \in Bytes
    BY <1>1, <1>2
  <2>2. QED
    BY <2>1, BytesAssociate
<1> HIDE DEF all
<1>5. (all \o back) \o kept = all \o (back \o kept)
  <2>1. all \in Bytes /\ back \in Bytes /\ kept \in Bytes
    BY <1>1, <1>2, <1>3
  <2>2. QED
    BY <2>1, BytesAssociate
<1>6. Stream(d) = (got \o kernel) \o kept
  BY DEF Stream, got, kernel, kept
<1>7. Stream(d) = all \o (back \o kept)
  BY <1>2, <1>4, <1>5, <1>6
<1>8. QED
  BY <1>2, <1>3, <1>7 DEF chunk, back, kernel, got, kept, all

(* One recv() and its handlers: what is handed out leaves the front of the    *)
(* queue, and what is kept waits for more bytes.                             *)
LEMMA ReadingOn ==
    ASSUME LinkInv, NEW d \in Dirs, Receiving(d), NEW n \in 1 .. Len(net[d]), net[d] # <<>>
    PROVE  LET fed  == Fed(rcv[d] \o SubSeq(net[d], 1, n))
               back == SubSeq(net[d], n + 1, Len(net[d]))
           IN  /\ Live(d) /\ back \in Bytes /\ Len(back) <= PipeBytes
               /\ fed.packets \in Seq(Bytes) /\ fed.rest \in Bytes /\ ~HasFrame(fed.rest)
               /\ (fed.rest \o back) \o snd[d] \in Clean
               /\ Feed[(fed.rest \o back) \o snd[d]].rest = Feed[Stream(d)].rest
               /\ Queue(d) = fed.packets \o Feed[(fed.rest \o back) \o snd[d]].packets
<1> DEFINE kernel == net[d]  kept == snd[d]
           all   == rcv[d] \o SubSeq(kernel, 1, n)
           back  == SubSeq(kernel, n + 1, Len(kernel))
           rest  == Feed[all].rest
<1>1. BuffersOK /\ kernel \in Bytes /\ kept \in Bytes /\ Len(kernel) \in Nat /\ Len(kernel) <= PipeBytes
  BY DEF LinkInv, BuffersOK, Bytes
<1>2. Live(d)
  BY DEF LinkInv, Emptied, Receiving, Live, Dirs, EndsOK
<1>3. /\ all \in Bytes /\ back \in Bytes /\ Len(back) = Len(kernel) - n
      /\ back \o kept \in Bytes
      /\ Stream(d) = all \o (back \o kept)
  <2>1. n \in 0 .. Len(net[d])
    BY <1>1
  <2>2. QED
    BY <1>1, <2>1, CutStream
<1>4. Len(back) <= PipeBytes
  BY <1>1, <1>3, FrameAssumption
<1>5. Stream(d) \in Clean
  BY <1>2 DEF LinkInv, StreamsClean
<1>6. Feed[all].packets \in Seq(Bytes) /\ rest \in Bytes /\ ~HasFrame(rest)
  BY <1>3, FeedResult
<1> DEFINE tail == back \o kept
<1> HIDE DEF all, back, kernel, kept, rest
<1>7. /\ rest \o tail \in Clean
      /\ Feed[Stream(d)].packets = Feed[all].packets \o Feed[rest \o tail].packets
      /\ Feed[Stream(d)].rest = Feed[rest \o tail].rest
  <2>1. tail \in Bytes /\ all \in Bytes /\ all \o tail \in Clean /\ Stream(d) = all \o tail
    BY <1>3, <1>5
  <2> HIDE DEF tail
  <2>2. QED
    BY <2>1, FeedInParts DEF rest
<1>8. (rest \o back) \o kept = rest \o tail
  <2>1. rest \in Bytes /\ back \in Bytes /\ kept \in Bytes
    BY <1>1, <1>3, <1>6
  <2>2. QED
    BY <2>1, BytesAssociate
<1>9. Queue(d) = Feed[all].packets \o Feed[(rest \o back) \o kept].packets
  BY <1>2, <1>7, <1>8, QueueIsFed
<1>10. QED
  BY <1>2, <1>3, <1>4, <1>6, <1>7, <1>8, <1>9 DEF Fed, all, back, kernel, kept, rest

LEMMA ReceiveStep ==
    ASSUME LinkInv, NEW d \in Dirs, Receive(d)
    PROVE  LinkInv' /\ \A e \in Dirs : Took(e)
<1>1. BuffersOK /\ Receiving(d) /\ net[d] # <<>> /\ net[d] \in Bytes /\ Len(net[d]) \in Nat
  BY DEF Receive, LinkInv, BuffersOK, Bytes
<1>2. PICK n \in 1 .. Smaller(ChunkBytes, Len(net[d])) :
         LET fed == Fed(rcv[d] \o SubSeq(net[d], 1, n))
         IN  /\ rcv' = [rcv EXCEPT ![d] = fed.rest]
             /\ net' = [net EXCEPT ![d] = SubSeq(@, n + 1, Len(@))]
             /\ out' = [Nothing EXCEPT ![d] = fed.packets]
  BY DEF Receive
<1>3. n \in 1 .. Len(net[d])
  BY <1>1, <1>2, FrameAssumption DEF Smaller
<1> DEFINE fed  == Fed(rcv[d] \o SubSeq(net[d], 1, n))
           back == SubSeq(net[d], n + 1, Len(net[d]))
           left == (fed.rest \o back) \o snd[d]
<1>4. /\ Live(d) /\ back \in Bytes /\ Len(back) <= PipeBytes
      /\ fed.packets \in Seq(Bytes) /\ fed.rest \in Bytes /\ ~HasFrame(fed.rest)
      /\ left \in Clean /\ Feed[left].rest = Feed[Stream(d)].rest
      /\ Queue(d) = fed.packets \o Feed[left].packets
  BY <1>1, <1>3, ReadingOn
<1>5. /\ rcv' = [rcv EXCEPT ![d] = fed.rest] /\ net' = [net EXCEPT ![d] = back]
      /\ out' = [Nothing EXCEPT ![d] = fed.packets]
  BY <1>2
<1>6. UNCHANGED <<ends, snd>> /\ polling' = polling \cup {Receiver(d)}
  BY DEF Receive
<1> HIDE DEF fed, back
<1>7. /\ snd' \in [Dirs -> Bytes] /\ net' \in [Dirs -> Bytes] /\ rcv' \in [Dirs -> Bytes]
      /\ out' \in [Dirs -> Seq(Bytes)]
      /\ rcv'[d] = fed.rest /\ net'[d] = back /\ snd'[d] = snd[d] /\ out'[d] = fed.packets
      /\ \A e \in Dirs \ {d} : rcv'[e] = rcv[e] /\ net'[e] = net[e] /\ snd'[e] = snd[e] /\ out'[e] = <<>>
  BY <1>1, <1>4, <1>5, <1>6, EmptySeq DEF BuffersOK, Nothing
<1>8. /\ Stream(d)' = left
      /\ \A e \in Dirs \ {d} : Stream(e)' = Stream(e)
      /\ \A e \in Dirs : Live(e)' = Live(e)
  BY <1>6, <1>7 DEF Stream, Live, ends
<1> HIDE DEF left
<1>9. BuffersOK' /\ EndsOK' /\ NoPacketWaits'
  BY <1>1, <1>4, <1>6, <1>7 DEF LinkInv, BuffersOK, EndsOK, NoPacketWaits, ends, Receiver
<1>10. Emptied'
  BY <1>1, <1>4, <1>6, <1>7 DEF LinkInv, Emptied, ends, Dirs, Live, Receiving
<1>11. StreamsClean' /\ WholeFrames'
  <2>1. StreamsClean'
    BY <1>4, <1>8 DEF LinkInv, StreamsClean
  <2>2. Alive => \A e \in Dirs : Feed[Stream(e)'].rest = <<>>
    BY <1>4, <1>8 DEF LinkInv, WholeFrames, Stream
  <2>3. QED
    BY <1>6, <2>1, <2>2 DEF WholeFrames, Stream, Alive, ends
<1>12. ASSUME NEW e \in Dirs PROVE Took(e)
  <2>1. CASE e = d
    BY <1>4, <1>7, <1>8, <2>1, QueueIsFed DEF Took
  <2>2. CASE e # d
    <3>1. Queue(e)' = Queue(e) /\ out'[e] = <<>>
      BY <1>7, <1>8, <2>2, QueueIsFed
    <3>2. <<>> \o Queue(e) = Queue(e)
      BY <1>1, StreamTypes, ConcatEmptySeq
    <3>3. QED
      BY <3>1, <3>2 DEF Took
  <2>3. QED
    BY <2>1, <2>2
<1>13. QED
  BY <1>9, <1>10, <1>11, <1>12 DEF LinkInv

\* The bytes a sender has not written yet are lost: the queue's end, no more.
LEMMA SenderGone ==
    ASSUME BuffersOK, StreamsClean, NEW d \in Dirs, Live(d)' = Live(d),
           rcv'[d] = rcv[d], net'[d] = net[d], snd'[d] = <<>>
    PROVE  /\ Live(d)' => Stream(d)' \in Clean
           /\ \E r \in Seq(Bytes) : Queue(d) = Queue(d)' \o r
<1> DEFINE a == rcv[d] \o net[d]
           b == snd[d]
<1>1. a \in Bytes /\ b \in Bytes /\ Stream(d) = a \o b
  BY StreamTypes DEF Stream
<1>2. Stream(d)' = a
  <2>1. Stream(d)' = a \o <<>>
    BY DEF Stream
  <2>2. a \o <<>> = a
    BY <1>1, BytesConcat
  <2>3. QED
    BY <2>1, <2>2
<1> HIDE DEF a, b
<1>3. CASE Live(d)
  <2>1. a \o b \in Clean
    BY <1>1, <1>3 DEF StreamsClean
  <2>2. /\ a \in Clean /\ Feed[a].rest \o b \in Clean
        /\ Feed[a \o b].packets = Feed[a].packets \o Feed[Feed[a].rest \o b].packets
    BY <1>1, <2>1, FeedInParts
  <2>3. Feed[Feed[a].rest \o b].packets \in Seq(Bytes)
    BY <2>2, CleanParts, FeedResult
  <2>4. Queue(d) = Queue(d)' \o Feed[Feed[a].rest \o b].packets
    BY <1>1, <1>2, <1>3, <2>2, QueueIsFed
  <2>5. QED
    BY <1>2, <2>2, <2>3, <2>4
<1>4. CASE ~Live(d)
  <2>1. Queue(d) = <<>> /\ Queue(d)' = <<>>
    BY <1>4, QueueIsFed
  <2>2. <<>> \in Seq(Bytes) /\ <<>> \o <<>> = <<>>
    BY EmptySeq, ConcatEmptySeq
  <2>3. QED
    BY <1>4, <2>1, <2>2
<1>5. QED
  BY <1>3, <1>4

\* A direction that is closed has lost what was in its queue.
LEMMA LostAll ==
    ASSUME BuffersOK, NEW d \in Dirs, ~Live(d)', NEW ps \in Seq(Bytes), NEW q \in Seq(Bytes),
           Queue(d) = ps \o q, out'[d] = ps
    PROVE  Lost(d)
<1>1. Queue(d)' = <<>>
  BY QueueIsFed
<1>2. ps \o <<>> = ps
  BY ConcatEmptySeq
<1>3. QED
  BY <1>1, <1>2 DEF Lost

LEMMA LostEnd ==
    ASSUME BuffersOK, NEW d \in Dirs, out'[d] = <<>>, Queue(d)' \in Seq(Bytes),
           \E r \in Seq(Bytes) : Queue(d) = Queue(d)' \o r
    PROVE  Lost(d)
<1>1. <<>> \o Queue(d)' = Queue(d)'
  BY ConcatEmptySeq
<1>2. QED
  BY <1>1 DEF Lost

LEMMA StreamTypesAfter ==
    ASSUME BuffersOK', NEW d \in Dirs
    PROVE  Queue(d)' \in Seq(Bytes)
<1>1. snd'[d] \in Bytes /\ net'[d] \in Bytes /\ rcv'[d] \in Bytes
  BY DEF BuffersOK
<1>2. Stream(d)' \in Bytes
  <2>1. rcv'[d] \o net'[d] \in Bytes
    BY <1>1, BytesConcat
  <2>2. QED
    BY <1>1, <2>1, BytesConcat DEF Stream
<1>3. QED
  BY <1>2, QueueIsFed, FeedResult, EmptySeq

(* The client's disconnect(), from a handler (with packets ps of its last     *)
(* read) or not.                                                           *)
LEMMA ClientGone ==
    ASSUME LinkInv, ClientDisconnect, UNCHANGED <<end, sSock, broken>>, polling' \subseteq polling,
           NEW ps \in Seq(Bytes), NEW q \in Seq(Bytes), Queue("down") = ps \o q,
           out' = [Nothing EXCEPT !["down"] = ps]
    PROVE  LinkInv' /\ \A e \in Dirs : Lost(e)
<1>1. /\ BuffersOK /\ Emptied /\ StreamsClean /\ "up" \in Dirs /\ "down" \in Dirs
      /\ <<>> \in Bytes /\ <<>> \in Seq(Bytes) /\ Len(<<>>) = 0 /\ 0 <= PipeBytes
      /\ ~HasFrame(<<>>)
  BY EmptySeq, FrameAssumption DEF LinkInv, Dirs, Bytes, HasFrame
<1>2. /\ cOpen' = FALSE /\ snd' = [snd EXCEPT !["up"] = <<>>]
      /\ rcv' = [rcv EXCEPT !["down"] = <<>>] /\ net' = [net EXCEPT !["down"] = <<>>]
  BY DEF ClientDisconnect
<1>3. BuffersOK'
  BY <1>1, <1>2 DEF BuffersOK, Nothing
<1>4. /\ snd'["up"] = <<>> /\ snd'["down"] = snd["down"]
      /\ rcv'["up"] = rcv["up"] /\ rcv'["down"] = <<>>
      /\ net'["up"] = net["up"] /\ net'["down"] = <<>>
      /\ out'["up"] = <<>> /\ out'["down"] = ps
  BY <1>1, <1>2 DEF BuffersOK, Nothing, Dirs
<1>5. EndsOK' /\ NoPacketWaits' /\ Emptied'
  BY <1>1, <1>2, <1>4 DEF LinkInv, EndsOK, NoPacketWaits, Emptied, Dirs
<1>6. ~Live("down")' /\ Live("up")' = Live("up") /\ ~Alive'
  BY <1>2 DEF Live, Alive
<1>7. /\ Live("up")' => Stream("up")' \in Clean
      /\ \E r \in Seq(Bytes) : Queue("up") = Queue("up")' \o r
  BY <1>1, <1>4, <1>6, SenderGone
<1>8. StreamsClean' /\ WholeFrames'
  BY <1>6, <1>7 DEF StreamsClean, WholeFrames, Dirs
<1>9. Lost("up")
  BY <1>1, <1>3, <1>4, <1>7, StreamTypesAfter, LostEnd
<1>10. Lost("down")
  BY <1>1, <1>4, <1>6, LostAll
<1>11. QED
  BY <1>3, <1>5, <1>8, <1>9, <1>10 DEF LinkInv, Dirs

LEMMA ClientLeaves ==
    ASSUME LinkInv, ReceiveAndDisconnect \/ ClientCloses
    PROVE  LinkInv' /\ \A e \in Dirs : Lost(e)
<1>1. "down" \in Dirs /\ BuffersOK /\ Queue("down") \in Seq(Bytes)
  BY StreamTypes DEF Dirs, LinkInv
<1>2. CASE ClientCloses
  <2>1. ClientDisconnect /\ UNCHANGED <<end, sSock, broken>> /\ polling' \subseteq polling
    BY <1>2 DEF ClientCloses
  <2>2. out' = [Nothing EXCEPT !["down"] = <<>>]
    BY <1>2 DEF ClientCloses, Nothing
  <2>3. <<>> \in Seq(Bytes) /\ Queue("down") = <<>> \o Queue("down")
    BY <1>1, EmptySeq, ConcatEmptySeq
  <2>4. QED
    BY <1>1, <2>1, <2>2, <2>3, ClientGone
<1>3. CASE ReceiveAndDisconnect
  <2>1. /\ ClientDisconnect /\ UNCHANGED <<end, sSock, broken>> /\ polling' \subseteq polling
        /\ cOpen /\ net["down"] # <<>> /\ Len(net["down"]) \in Nat
    BY <1>1, <1>3 DEF ReceiveAndDisconnect, BuffersOK, Bytes
  <2>2. PICK n \in 1 .. Smaller(ChunkBytes, Len(net["down"])) :
            out' = [Nothing EXCEPT !["down"] = Fed(rcv["down"] \o SubSeq(net["down"], 1, n)).packets]
    BY <1>3 DEF ReceiveAndDisconnect
  <2>3. n \in 1 .. Len(net["down"])
    BY <2>1, <2>2, FrameAssumption DEF Smaller
  <2> DEFINE fed  == Fed(rcv["down"] \o SubSeq(net["down"], 1, n))
             back == SubSeq(net["down"], n + 1, Len(net["down"]))
             left == (fed.rest \o back) \o snd["down"]
  <2>4. Receiving("down")
    BY <2>1 DEF Receiving
  <2>5. /\ fed.packets \in Seq(Bytes) /\ left \in Clean
        /\ Queue("down") = fed.packets \o Feed[left].packets
    BY <1>1, <2>1, <2>3, <2>4, ReadingOn
  <2>6. out' = [Nothing EXCEPT !["down"] = fed.packets]
    BY <2>2
  <2> HIDE DEF fed, left
  <2>7. Feed[left].packets \in Seq(Bytes)
    BY <2>5, CleanParts, FeedResult
  <2>8. QED
    BY <2>1, <2>5, <2>6, <2>7, ClientGone
<1>4. QED
  BY <1>2, <1>3

LEMMA ServerLeaves ==
    ASSUME LinkInv, ServerCloses
    PROVE  LinkInv' /\ \A e \in Dirs : Lost(e)
<1>1. /\ BuffersOK /\ Emptied /\ StreamsClean /\ "up" \in Dirs /\ "down" \in Dirs
      /\ <<>> \in Bytes /\ <<>> \in Seq(Bytes) /\ Len(<<>>) = 0 /\ 0 <= PipeBytes
      /\ ~HasFrame(<<>>)
  BY EmptySeq, FrameAssumption DEF LinkInv, Dirs, Bytes, HasFrame
<1>2. /\ sSock = "open" /\ sSock' = "closed" /\ snd' = [snd EXCEPT !["down"] = <<>>]
      /\ rcv' = [rcv EXCEPT !["up"] = <<>>] /\ net' = [net EXCEPT !["up"] = <<>>]
      /\ polling' \subseteq polling /\ out' = Nothing /\ UNCHANGED <<end, cOpen, broken>>
  BY DEF ServerCloses, ServerClose
<1>3. BuffersOK'
  BY <1>1, <1>2 DEF BuffersOK, Nothing
<1>4. /\ snd'["down"] = <<>> /\ snd'["up"] = snd["up"]
      /\ rcv'["down"] = rcv["down"] /\ rcv'["up"] = <<>>
      /\ net'["down"] = net["down"] /\ net'["up"] = <<>>
      /\ out'["up"] = <<>> /\ out'["down"] = <<>>
  BY <1>1, <1>2 DEF BuffersOK, Nothing, Dirs
<1>5. EndsOK' /\ NoPacketWaits' /\ Emptied'
  BY <1>1, <1>2, <1>4 DEF LinkInv, EndsOK, NoPacketWaits, Emptied, Dirs
<1>6. ~Live("up")' /\ Live("down")' = Live("down") /\ ~Alive'
  BY <1>2 DEF Live, Alive
<1>7. /\ Live("down")' => Stream("down")' \in Clean
      /\ \E r \in Seq(Bytes) : Queue("down") = Queue("down")' \o r
  BY <1>1, <1>4, <1>6, SenderGone
<1>8. StreamsClean' /\ WholeFrames'
  BY <1>6, <1>7 DEF StreamsClean, WholeFrames, Dirs
<1>9. Lost("down")
  BY <1>1, <1>3, <1>4, <1>7, StreamTypesAfter, LostEnd
<1>10. Lost("up")
  <2>1. Queue("up") \in Seq(Bytes) /\ Queue("up") = <<>> \o Queue("up")
    BY <1>1, StreamTypes, ConcatEmptySeq
  <2>2. QED
    BY <1>1, <1>4, <1>6, <2>1, LostAll
<1>11. QED
  BY <1>3, <1>5, <1>8, <1>9, <1>10 DEF LinkInv, Dirs

LEMMA BreakStep ==
    ASSUME LinkInv, Break
    PROVE  LinkInv' /\ \A e \in Dirs : Lost(e)
<1>1. /\ BuffersOK /\ Emptied /\ <<>> \in Bytes /\ <<>> \in Seq(Bytes)
      /\ Len(<<>>) = 0 /\ 0 <= PipeBytes
  BY EmptySeq, FrameAssumption DEF LinkInv, Bytes
<1>2. /\ broken' = TRUE /\ net' = Nothing /\ out' = Nothing
      /\ sSock' = IF sSock = "backlog" THEN "closed" ELSE sSock
      /\ UNCHANGED <<end, snd, rcv, cOpen, polling>>
  BY DEF Break
<1>3. BuffersOK'
  BY <1>1, <1>2 DEF BuffersOK, Nothing
<1>4. EndsOK' /\ NoPacketWaits' /\ Emptied'
  BY <1>1, <1>2 DEF LinkInv, EndsOK, NoPacketWaits, Emptied, Nothing, Dirs
<1>5. ~Alive' /\ \A e \in Dirs : ~Live(e)' /\ out'[e] = <<>>
  BY <1>2 DEF Live, Alive, Nothing
<1>6. StreamsClean' /\ WholeFrames'
  BY <1>5 DEF StreamsClean, WholeFrames
<1>7. ASSUME NEW e \in Dirs PROVE Lost(e)
  <2>1. Queue(e) \in Seq(Bytes) /\ Queue(e) = <<>> \o Queue(e)
    BY <1>1, StreamTypes, ConcatEmptySeq
  <2>2. QED
    BY <1>1, <1>5, <2>1, LostAll
<1>8. QED
  BY <1>3, <1>4, <1>6, <1>7 DEF LinkInv

LEMMA LinkStepKeepsInv == LinkInv /\ [LinkNext]_linkVars => LinkInv'
<1> SUFFICES ASSUME LinkInv, [LinkNext]_linkVars PROVE LinkInv'
  OBVIOUS
<1>1. CASE UNCHANGED linkVars
  BY <1>1 DEF LinkInv, linkVars, BuffersOK, EndsOK, Emptied, StreamsClean, WholeFrames,
              NoPacketWaits, Alive, Live, Stream
<1>2. CASE LinkNext
  <2>1. CASE \E p \in BrowserPackets : RelayForwards(p)
    BY <2>1, RelayFrames, SendStep
  <2>2. QED
    BY <1>2, <2>1, ConnectStep, AcceptStep, SendStep, ReceiveStep, ClientLeaves, WriteOnStep,
       ServerLeaves, BreakStep DEF LinkNext
<1>3. QED
  BY <1>1, <1>2

(***************************************************************************)
(* The results.                                                            *)
(***************************************************************************)

(* While a connection is there, the send buffer, the kernel and the receive   *)
(* buffer hold whole frames, no packet that is complete is kept from its      *)
(* handler, and what an end that is gone held is empty.                      *)
THEOREM LinkInvariant == LinkSpec => []LinkInv
<1>1. QED
  BY LinkInitHolds, LinkStepKeepsInv, PTL DEF LinkSpec

(* The buffers hold bytes, whatever the lengths in them say.                 *)
THEOREM LinkTypeCorrect == LinkSpec => []LinkTypeOK
<1>1. LinkInv => LinkTypeOK
  BY DEF LinkInv, BuffersOK, EndsOK, LinkTypeOK
<1>2. QED
  BY <1>1, LinkInvariant, PTL

(* feed() leaves no packet that is complete in a receive buffer: none waits   *)
(* for bytes of the next one.                                              *)
THEOREM NothingWaits == LinkSpec => []NoPacketWaits
<1>1. LinkInv => NoPacketWaits
  BY DEF LinkInv
<1>2. QED
  BY <1>1, LinkInvariant, PTL

(* No byte is lost or duplicated while both ends are there: sendBuffer, the   *)
(* kernel and recvBuffer together hold whole frames.                         *)
THEOREM FramesStayWhole == LinkSpec => []WholeFrames
<1>1. LinkInv => WholeFrames
  BY DEF LinkInv
<1>2. QED
  BY <1>1, LinkInvariant, PTL

(* A sequence of packets is what left its front and what remains.            *)
LEMMA FrontLeaves ==
    ASSUME NEW a \in Seq(Bytes), NEW b \in Seq(Bytes)
    PROVE  /\ IsPrefix(a, a \o b)
           /\ b = SubSeq(a \o b, Len(a) + 1, Len(a \o b))
<1>1. Len(a) \in Nat /\ Len(a \o b) = Len(a) + Len(b) /\ Len(b) \in Nat
  BY ConcatProperties
<1>2. SubSeq(a, 1, Len(a)) = a
  BY SubSeqFull
<1>3. SubSeq(a \o b, 1, Len(a)) = SubSeq(a, 1, Len(a))
  <2>1. CASE Len(a) = 0
    BY <2>1, SubSeqEmpty
  <2>2. CASE Len(a) # 0
    <3>1. 1 \in 1 .. Len(a) /\ Len(a) \in 1 .. Len(a)
      BY <1>1, <2>2
    <3>2. QED
      BY <3>1, SubSeqOfConcat1
  <2>3. QED
    BY <2>1, <2>2
<1>4. SubSeq(a \o b, Len(a) + 1, Len(a \o b)) = SubSeq(a, Len(a) + 1, Len(a)) \o b
  <2>1. Len(a) \in 0 .. Len(a)
    BY <1>1
  <2>2. QED
    BY <2>1, SuffixOfConcat
<1>5. SubSeq(a, Len(a) + 1, Len(a)) = <<>> /\ <<>> \o b = b
  BY <1>1, SubSeqEmpty, ConcatEmptySeq
<1>6. Len(a) <= Len(a \o b)
  BY <1>1
<1>7. QED
  BY <1>2, <1>3, <1>4, <1>5, <1>6 DEF IsPrefix

(* However TCP cuts the bytes, takes part of a write or breaks, and over any   *)
(* number of connections, NetStreamServer and NetStreamClient, or the relay,  *)
(* are two queues of whole packets: each comes out unchanged, once, in its    *)
(* turn, and never in a later connection.                                   *)
THEOREM LinkIsPacketFifo == LinkSpec => IsPacketFifo
<1>1. LinkInit => Fifo!FifoInit
  <2> SUFFICES ASSUME LinkInit PROVE Fifo!FifoInit
    OBVIOUS
  <2>1. \A d \in Dirs : Queue(d) = <<>>
    BY QueueIsFed DEF LinkInit, Live, Dirs
  <2>2. out = Nothing
    BY DEF LinkInit
  <2>3. QED
    BY <2>1, <2>2 DEF Fifo!FifoInit, Fifo!Nothing, Nothing
<1>2. LinkInv /\ LinkInv' /\ [LinkNext]_linkVars => [Fifo!FifoNext]_(Fifo!fifoVars)
  <2> SUFFICES ASSUME LinkInv, LinkInv', [LinkNext]_linkVars
               PROVE  [Fifo!FifoNext]_(Fifo!fifoVars)
    OBVIOUS
  <2>1. /\ \A d \in Dirs : Queue(d) \in Seq(Bytes) /\ Queue(d)' \in Seq(Bytes)
        /\ \A d \in Dirs : out'[d] \in Seq(Bytes)
    BY StreamTypes, StreamTypesAfter DEF LinkInv, BuffersOK
  <2>2. CASE \A d \in Dirs : Took(d)
    <3>1. ASSUME NEW d \in Dirs
          PROVE  /\ Fifo!IsPrefix(out'[d], Queue(d))
                 /\ Queue(d)' = SubSeq(Queue(d), Len(out'[d]) + 1, Len(Queue(d)))
      <4>1. Queue(d) = out'[d] \o Queue(d)'
        BY <2>2 DEF Took
      <4>2. /\ IsPrefix(out'[d], Queue(d))
            /\ Queue(d)' = SubSeq(Queue(d), Len(out'[d]) + 1, Len(Queue(d)))
        BY <2>1, <4>1, FrontLeaves
      <4>3. QED
        BY <4>2 DEF IsPrefix, Fifo!IsPrefix
    <3>2. Fifo!HandOut
      BY <3>1 DEF Fifo!HandOut
    <3>3. QED
      BY <3>2 DEF Fifo!FifoNext
  <2>3. CASE \A d \in Dirs : Lost(d)
    <3>1. ASSUME NEW d \in Dirs
          PROVE  Fifo!IsPrefix(out'[d] \o Queue(d)', Queue(d))
      <4>1. PICK r \in Seq(Bytes) : Queue(d) = (out'[d] \o Queue(d)') \o r
        BY <2>3 DEF Lost
      <4>2. out'[d] \o Queue(d)' \in Seq(Bytes)
        BY <2>1, ConcatProperties
      <4>3. IsPrefix(out'[d] \o Queue(d)', Queue(d))
        BY <4>1, <4>2, FrontLeaves
      <4>4. QED
        BY <4>3 DEF IsPrefix, Fifo!IsPrefix
    <3>2. Fifo!HandOutAndClose
      BY <3>1 DEF Fifo!HandOutAndClose
    <3>3. QED
      BY <3>2 DEF Fifo!FifoNext
  <2>4. CASE \/ \E p \in Payloads : ClientSend(p) \/ ServerSend(p)
             \/ \E p \in BrowserPackets : RelayForwards(p)
    <3>1. PICK p \in Payloads :
            ClientSend(p) \/ ServerSend(p) \/ (p \in BrowserPackets /\ RelayForwards(p))
      BY <2>4, RelayFrames
    <3>2. CASE \A d \in Dirs : Took(d)
      BY <2>2, <3>2
    <3>3. CASE Fits(p) /\ \E d \in Dirs : /\ Queue(d)' = Append(Queue(d), p)
                                          /\ \A e \in Dirs \ {d} : Queue(e)' = Queue(e)
      <4>1. PICK d \in Dirs : /\ Queue(d)' = Append(Queue(d), p)
                              /\ \A e \in Dirs \ {d} : Queue(e)' = Queue(e)
        BY <3>3
      <4>2. out' = Nothing
        BY <3>1, SendStep
      <4>3. [e \in Dirs |-> Queue(e)'] =
              [[e \in Dirs |-> Queue(e)] EXCEPT ![d] = Append(@, p)]
        BY <4>1
      <4>4. Fifo!Send(d)
        BY <3>3, <4>2, <4>3 DEF Fifo!Send, Fifo!Nothing, Nothing
      <4>5. QED
        BY <4>4 DEF Fifo!FifoNext
    <3>4. QED
      BY <3>1, <3>2, <3>3, SendStep
  <2>5. CASE UNCHANGED linkVars
    <3>1. \A d \in Dirs : Queue(d)' = Queue(d)
      BY <2>5 DEF linkVars, Queue
    <3>2. QED
      BY <2>5, <3>1 DEF linkVars, Fifo!fifoVars
  <2>6. CASE Connect \/ Accept \/ (\E d \in Dirs : Receive(d)) \/ ClientDone \/ ServerDone \/ RelayWrites
    BY <2>2, <2>6, ConnectStep, AcceptStep, ReceiveStep, WriteOnStep
  <2>7. CASE ReceiveAndDisconnect \/ ClientCloses \/ ServerCloses \/ Break
    BY <2>3, <2>7, ClientLeaves, ServerLeaves, BreakStep
  <2>8. QED
    BY <2>4, <2>5, <2>6, <2>7 DEF LinkNext
<1>3. QED
  BY <1>1, <1>2, LinkInvariant, PTL DEF LinkSpec, IsPacketFifo, Fifo!FifoSpec
=============================================================================
