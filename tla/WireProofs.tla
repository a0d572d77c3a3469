----------------------------- MODULE WireProofs -----------------------------
(***************************************************************************)
(* The octets of the wire tests, for every message, address and simulated  *)
(* server: what the encoders, the frame decoder and the tag reader of      *)
(* codec.py compute, that an answer of peer.py goes back where its request *)
(* came from, that a message with a fixed number of parts is read as it    *)
(* was meant, and that a ReadProperty or a Who-Is gives the client what    *)
(* the simulated server serves.                                            *)
(***************************************************************************)
EXTENDS Wire, SequenceTheorems, FiniteSetTheorems, WellFoundedInduction, TLAPS

-----------------------------------------------------------------------------
(* Loops.  An induction is stated with the set of the places for which a   *)
(* loop has been followed so far.                                          *)

\* Three sequences one after the other, grouped either way.
LEMMA Regrouped ==
    ASSUME NEW S, NEW s \in Seq(S), NEW t \in Seq(S), NEW u \in Seq(S)
    PROVE  s \o (t \o u) = (s \o t) \o u
  BY ConcatAssociative

\* Octets one after the other, grouped either way.
LEMMA RegroupedOctets ==
    ASSUME NEW s \in Octets, NEW t \in Octets, NEW u \in Octets
    PROVE  s \o (t \o u) = (s \o t) \o u
  BY Regrouped DEF Octets

\* Two sequences one after the other.
LEMMA OneThenOther ==
    ASSUME NEW A, NEW B, NEW s \in Seq(A), NEW t \in Seq(B)
    PROVE  /\ Len(s \o t) = Len(s) + Len(t)
           /\ \A i \in 1..Len(s) : (s \o t)[i] = s[i]
           /\ \A k \in 1..Len(t) : (s \o t)[Len(s) + k] = t[k]
  OBVIOUS

\* A set that holds 0 and with each number the next one holds them all.
LEMMA UpTo ==
    ASSUME NEW n \in Nat, NEW S, 0 \in S,
           \A i \in 0..n : i < n /\ i \in S => i + 1 \in S
    PROVE  \A i \in 0..n : i \in S
  <1> DEFINE T == {i \in 0..n : i \notin S}
             R == OpToRel(<, Nat)
  <1> SUFFICES ASSUME T # {} PROVE FALSE
    OBVIOUS
  <1>1. IsWellFoundedOn(R, Nat)
    BY NatLessThanWellFounded
  <1>2. T \subseteq Nat
    OBVIOUS
  <1> HIDE DEF R
  <1>3. PICK i \in T : \A j \in T : ~(<<j, i>> \in R)
    BY <1>1, <1>2, WFMin
  <1>4. \A j \in T : ~(j < i)
    BY <1>2, <1>3 DEF R, OpToRel
  <1>5. i - 1 \in 0..n /\ i - 1 < n /\ (i - 1) + 1 = i /\ i - 1 < i
    OBVIOUS
  <1>6. i - 1 \in S
    BY <1>4, <1>5
  <1>7. QED
    BY <1>5, <1>6

\* f is what a loop has made by each of its first n rounds.
Follows(f, n, v, g) == f[0] = v /\ \A i \in 1..n : f[i] = g[i][f[i-1]]

\* A loop that starts with v and makes of the result so far the next one, by a
\* function of the round and that result, has a result in every round.
LEMMA LoopExists ==
    ASSUME NEW n \in Nat, NEW V, NEW v \in V, NEW g \in [Nat -> [V -> V]]
    PROVE  \E f \in [0..n -> V] : Follows(f, n, v, g)
  <1> DEFINE S == {k \in 0..n : \E f \in [0..n -> V] : Follows(f, k, v, g)}
  <1>1. 0 \in S
    <2>1. Follows([i \in 0..n |-> v], 0, v, g) /\ [i \in 0..n |-> v] \in [0..n -> V]
      BY DEF Follows
    <2>2. \E f \in [0..n -> V] : Follows(f, 0, v, g)
      BY <2>1, Zenon
    <2>3. QED
      BY <2>2
  <1>2. ASSUME NEW k \in 0..n, k < n, k \in S PROVE k + 1 \in S
    <2>1. PICK f \in [0..n -> V] : Follows(f, k, v, g)
      BY <1>2
    <2> DEFINE h == [i \in 0..n |-> IF i = k + 1 THEN g[k+1][f[k]] ELSE f[i]]
    <2>2. g[k+1][f[k]] \in V
      BY <1>2
    <2>3. h \in [0..n -> V]
      BY <2>2
    <2>4. h[0] = v
      BY <2>1, <1>2 DEF Follows
    <2>5. ASSUME NEW i \in 1..k+1 PROVE h[i] = g[i][h[i-1]]
      <3>1. i \in 0..n /\ i - 1 \in 0..n /\ i - 1 # k + 1
        BY <1>2
      <3>2. h[i-1] = f[i-1]
        BY <3>1
      <3>3. CASE i = k + 1
        BY <3>1, <3>2, <3>3
      <3>4. CASE i # k + 1
        BY <3>1, <3>2, <3>4, <2>1 DEF Follows
      <3>5. QED
        BY <3>3, <3>4
    <2>6. Follows(h, k + 1, v, g)
      BY <2>4, <2>5 DEF Follows
    <2> HIDE DEF h
    <2>7. QED
      BY <1>2, <2>3, <2>6
  <1>3. \A k \in 0..n : k \in S
    <2> HIDE DEF S
    <2>1. QED
      BY <1>1, <1>2, UpTo
  <1>4. n \in S
    BY <1>3
  <1>5. QED
    BY <1>4

-----------------------------------------------------------------------------
(* Numbers in octets                                                       *)

\* An octet is a natural number below 256.
LEMMA OctetIs == \A x : x \in Octet <=> x \in Nat /\ x < 256
  BY DEF Octet

\* The octets of a sequence, and that a sequence of them is one.
LEMMA OctetsAre ==
    /\ \A s \in Octets : Len(s) \in Nat /\ \A i \in 1..Len(s) : s[i] \in Nat /\ s[i] < 256
    /\ \A n \in Nat : \A s \in [1..n -> Octet] : s \in Octets /\ Len(s) = n
    /\ << >> \in Octets
    /\ Octets \subseteq Seq(Nat)
  <1>1. Octet \subseteq Nat
    BY OctetIs
  <1>2. QED
    BY <1>1, OctetIs DEF Octets

\* int.to_bytes: the octets of a number.
LEMMA ToBytesOctets ==
    ASSUME NEW v \in Int, NEW n \in 1..4
    PROVE  ToBytes(v, n) \in Octets /\ Len(ToBytes(v, n)) = n
  <1>1. ASSUME NEW i \in 1..n PROVE (v \div 256^(n - i)) % 256 \in Octet
    <2> DEFINE power == 256^(n - i)
    <2>1. n - i = 0 \/ n - i = 1 \/ n - i = 2 \/ n - i = 3
      OBVIOUS
    <2>2. power \in Nat \ {0}
      <3>1. n - i = 0 => power = 1
        OBVIOUS
      <3>2. n - i = 1 => power = 256
        OBVIOUS
      <3>3. n - i = 2 => power = 65536
        OBVIOUS
      <3>4. n - i = 3 => power = 16777216
        OBVIOUS
      <3>5. QED
        BY <2>1, <3>1, <3>2, <3>3, <3>4
    <2> HIDE DEF power
    <2> DEFINE x == v \div power
    <2>3. x \in Int
      BY <2>2
    <2> HIDE DEF x
    <2>4. x % 256 \in Octet
      BY <2>3, OctetIs
    <2>5. QED
      BY <2>4 DEF x, power
  <1>2. QED
    BY <1>1, OctetsAre DEF ToBytes

\* f is int.from_bytes' loop over the octets, from a sign.
IsSum(octets, sign, f) ==
    f = [i \in 0..Len(octets) |-> IF i = 0 THEN sign ELSE 256 * f[i - 1] + octets[i]]

\* The sums after each octet, the last of which is what the loop returns.
SumsUp(octets, sign, f) ==
    /\ f \in [0..Len(octets) -> Int]
    /\ f[0] = sign
    /\ \A i \in 1..Len(octets) : f[i] = 256 * f[i - 1] + octets[i]
    /\ Accumulated(octets, sign) = f[Len(octets)]

\* int.from_bytes adds the octets up, each with 256 times the sum before it.
LEMMA AccumulatedLoop ==
    ASSUME NEW octets \in Seq(Nat), NEW sign \in Int
    PROVE  \E f : SumsUp(octets, sign, f)
  <1> DEFINE n == Len(octets)
             g == [i \in Nat |-> [v \in Int |-> IF i \in 1..n THEN 256 * v + octets[i] ELSE v]]
  <1>0. n \in Nat /\ \A i \in 1..n : octets[i] \in Int
    OBVIOUS
  <1>1. g \in [Nat -> [Int -> Int]]
    BY <1>0
  <1>2. PICK h \in [0..n -> Int] : Follows(h, n, sign, g)
    <2> HIDE DEF g, n
    <2>1. QED
      BY <1>0, <1>1, LoopExists, Zenon
  <1>3. IsSum(octets, sign, h)
    <2>1. ASSUME NEW i \in 1..n PROVE h[i] = 256 * h[i-1] + octets[i]
      <3>1. i \in Nat /\ i - 1 \in 0..n
        BY <1>0
      <3>2. h[i-1] \in Int
        BY <1>2, <3>1
      <3>3. h[i] = g[i][h[i-1]]
        BY <1>2 DEF Follows
      <3>4. QED
        BY <1>0, <3>1, <3>2, <3>3
    <2>2. h = [i \in 0..n |-> h[i]]
      BY <1>2
    <2>3. h[0] = sign
      BY <1>2 DEF Follows
    <2> HIDE DEF g
    <2>4. \A i \in 0..n : h[i] = IF i = 0 THEN sign ELSE 256 * h[i-1] + octets[i]
      BY <1>0, <2>1, <2>3
    <2>5. QED
      BY <2>2, <2>4 DEF IsSum
  <1> DEFINE f == CHOOSE f : IsSum(octets, sign, f)
  <1>4. IsSum(octets, sign, f)
    BY <1>3, Zenon
  <1>5. Accumulated(octets, sign) = f[Len(octets)]
    BY Zenon DEF Accumulated, IsSum
  <1> HIDE DEF f
  <1>6. f[0] = sign /\ \A i \in 1..n : f[i] = 256 * f[i - 1] + octets[i]
    BY <1>0, <1>4, SMTT(30) DEF IsSum
  <1>7. \A i \in 0..n : f[i] \in Int
    <2> DEFINE S == {i \in 0..n : f[i] \in Int}
    <2>1. 0 \in S
      BY <1>0, <1>6
    <2>2. ASSUME NEW i \in 0..n, i < n, i \in S PROVE i + 1 \in S
      <3>1. i + 1 \in 1..n /\ (i + 1) - 1 = i /\ i + 1 \in 0..n
        BY <1>0, <2>2
      <3>2. f[i + 1] = 256 * f[i] + octets[i + 1]
        BY <1>6, <3>1, ZenonT(60)
      <3>3. f[i] \in Int /\ octets[i + 1] \in Int
        BY <1>0, <2>2, <3>1
      <3>4. 256 * f[i] + octets[i + 1] \in Int
        BY <3>3
      <3>5. QED
        BY <3>1, <3>2, <3>4
    <2>3. \A i \in 0..n : i \in S
      <3> HIDE DEF S, n
      <3>1. QED
        BY <1>0, <2>1, <2>2, UpTo
    <2>4. QED
      BY <2>3
  <1>8. f \in [0..n -> Int]
    BY <1>4, <1>7 DEF IsSum
  <1>9. SumsUp(octets, sign, f)
    BY <1>5, <1>6, <1>8, Zenon DEF SumsUp
  <1>10. QED
    BY <1>9, Zenon

\* A number read from octets is a natural number.
LEMMA FromBytesNat ==
    ASSUME NEW octets \in Seq(Nat)
    PROVE  FromBytes(octets) \in Nat
  <1> DEFINE n == Len(octets)
  <1>0. n \in Nat /\ \A i \in 1..n : octets[i] \in Nat
    OBVIOUS
  <1>1. 0 \in Int
    OBVIOUS
  <1>2. PICK f : SumsUp(octets, 0, f)
    BY <1>1, AccumulatedLoop, Zenon
  <1>3. /\ f \in [0..n -> Int] /\ f[0] = 0
        /\ \A i \in 1..n : f[i] = 256 * f[i - 1] + octets[i]
        /\ Accumulated(octets, 0) = f[n]
    BY <1>2, Zenon DEF SumsUp
  <1> DEFINE S == {i \in 0..n : f[i] >= 0}
  <1>4. 0 \in S
    BY <1>0, <1>3
  <1>5. ASSUME NEW i \in 0..n, i < n, i \in S PROVE i + 1 \in S
    <2>1. i + 1 \in 1..n /\ (i + 1) - 1 = i /\ f[i] >= 0 /\ f[i] \in Int
      BY <1>0, <1>3, <1>5
    <2>2. f[i+1] = 256 * f[i] + octets[i+1] /\ octets[i+1] \in Nat
      BY <1>0, <1>3, <2>1
    <2>3. QED
      BY <1>0, <2>1, <2>2
  <1>6. \A i \in 0..n : i \in S
    <2> HIDE DEF S, n
    <2>1. QED
      BY <1>0, <1>4, <1>5, UpTo
  <1>7. QED
    BY <1>0, <1>3, <1>6 DEF FromBytes

-----------------------------------------------------------------------------
(* Sequences put together                                                  *)

\* f is the loop of FlattenSeq: the first i sequences, one after the other.
IsFlatten(seqs, f) ==
    f = [i \in 1..Len(seqs) |-> IF i = 1 THEN seqs[i] ELSE f[i-1] \o seqs[i]]

\* FlattenSeq's loop: after each round the sequences so far, which are octets.
LEMMA FlattenLoop ==
    ASSUME NEW seqs \in Seq(Octets), Len(seqs) # 0
    PROVE  \E f : /\ FlattenSeq(seqs) = f[Len(seqs)]
                 /\ \A i \in 1..Len(seqs) :
                      f[i] \in Octets /\ f[i] = IF i = 1 THEN seqs[i] ELSE f[i-1] \o seqs[i]
  <1>0. /\ Len(seqs) \in Nat /\ Len(seqs) # 0
        /\ \A i \in 1..Len(seqs) : seqs[i] \in Octets
        /\ \A s, t \in Octets : s \o t \in Octets
    BY DEF Octets
  <1> DEFINE n == Len(seqs) - 1
             g == [i \in Nat |-> [s \in Octets |-> IF i \in 1..n THEN s \o seqs[i+1] ELSE s]]
             first == seqs[1]
  <1>1. n \in Nat /\ n + 1 = Len(seqs) /\ first \in Octets
    BY <1>0
  <1>2. g \in [Nat -> [Octets -> Octets]]
    <2>1. \A i \in Nat : i \in 1..n => seqs[i+1] \in Octets
      BY <1>0, <1>1
    <2>2. QED
      BY <1>0, <2>1
  <1>3. PICK h \in [0..n -> Octets] : Follows(h, n, first, g)
    <2> HIDE DEF g, n, first
    <2>1. QED
      BY <1>1, <1>2, LoopExists, Zenon
  <1> DEFINE F == [i \in 1..Len(seqs) |-> h[i-1]]
  <1>4. ASSUME NEW i \in 1..Len(seqs)
        PROVE  F[i] = IF i = 1 THEN seqs[i] ELSE F[i-1] \o seqs[i]
    <2>1. CASE i = 1
      BY <1>0, <1>3, <2>1 DEF Follows
    <2>2. CASE i # 1
      <3>1. i - 1 \in 1..n /\ i - 1 \in Nat /\ (i - 1) - 1 \in 0..n /\ (i - 1) + 1 = i
        BY <1>1, <2>2
      <3>2. h[i-1] = g[i-1][h[(i-1)-1]]
        BY <1>3, <3>1 DEF Follows
      <3>3. h[(i-1)-1] \in Octets
        BY <3>1
      <3>4. g[i-1][h[(i-1)-1]] = h[(i-1)-1] \o seqs[(i-1)+1]
        BY <3>1, <3>3
      <3>5. F[i] = h[i-1] /\ F[i-1] = h[(i-1)-1]
        BY <1>1, <3>1
      <3>6. QED
        BY <2>2, <3>1, <3>2, <3>4, <3>5
    <2>3. QED
      BY <2>1, <2>2
  <1>5. F = [i \in 1..Len(seqs) |-> F[i]]
    OBVIOUS
  <1> HIDE DEF F
  <1>6. IsFlatten(seqs, F)
    BY <1>4, <1>5 DEF IsFlatten
  <1> DEFINE f == CHOOSE f : IsFlatten(seqs, f)
  <1>7. IsFlatten(seqs, f)
    BY <1>6, Zenon
  <1>8. FlattenSeq(seqs) = f[Len(seqs)]
    BY <1>0, Zenon DEF FlattenSeq, IsFlatten
  <1> HIDE DEF f
  <1>9. \A i \in 1..Len(seqs) : f[i] = IF i = 1 THEN seqs[i] ELSE f[i-1] \o seqs[i]
    BY <1>7 DEF IsFlatten
  <1> DEFINE S == {i \in 0..n : f[i+1] \in Octets}
  <1>10. 0 \in S
    BY <1>1, <1>9
  <1>11. ASSUME NEW i \in 0..n, i < n, i \in S PROVE i + 1 \in S
    <2>1. i + 2 \in 1..Len(seqs) /\ i + 2 # 1 /\ (i + 2) - 1 = i + 1 /\ (i + 1) + 1 = i + 2
      BY <1>1, <1>11
    <2>2. f[i+2] = f[i+1] \o seqs[i+2]
      BY <1>9, <2>1
    <2>3. f[i+1] \in Octets
      BY <1>11
    <2>4. f[i+2] \in Octets
      BY <1>0, <2>1, <2>2, <2>3
    <2>5. QED
      BY <2>1, <2>4, <1>11
  <1>12. \A i \in 0..n : i \in S
    <2> HIDE DEF S, n
    <2>1. QED
      BY <1>1, <1>10, <1>11, UpTo
  <1>13. ASSUME NEW i \in 1..Len(seqs) PROVE f[i] \in Octets
    <2>1. i - 1 \in 0..n /\ (i - 1) + 1 = i
      BY <1>1
    <2>2. QED
      BY <1>12, <2>1
  <1>14. QED
    BY <1>8, <1>9, <1>13, Zenon

\* b"".join: sequences of octets, one after the other, are octets.
LEMMA FlattenOctets ==
    ASSUME NEW seqs \in Seq(Octets)
    PROVE  FlattenSeq(seqs) \in Octets
  <1>1. CASE Len(seqs) = 0
    <2>1. seqs = << >>
      BY <1>1
    <2>2. FlattenSeq(seqs) = seqs
      BY <1>1 DEF FlattenSeq
    <2>3. QED
      BY <2>1, <2>2, OctetsAre
  <1>2. CASE Len(seqs) # 0
    <2>1. Len(seqs) \in 1..Len(seqs)
      BY <1>2
    <2>2. QED
      BY <1>2, <2>1, FlattenLoop, Zenon
  <1>3. QED
    BY <1>1, <1>2

\* Two sequences of octets, one after the other.
LEMMA Joined ==
    ASSUME NEW a \in Octets, NEW b \in Octets
    PROVE  /\ a \o b \in Octets
           /\ Len(a \o b) = Len(a) + Len(b)
           /\ \A i \in 1..Len(a) : (a \o b)[i] = a[i]
           /\ \A i \in 1..Len(b) : (a \o b)[Len(a) + i] = b[i]
  BY DEF Octets

\* One octet is a sequence of octets.
LEMMA OneOctet ==
    ASSUME NEW x \in Octet
    PROVE  <<x>> \in Octets /\ Len(<<x>>) = 1 /\ <<x>>[1] = x
  BY DEF Octets

\* What a given parameter is.
LEMMA FirstGiven ==
    ASSUME NEW S, NEW x \in Seq(S), Given(x)
    PROVE  x[1] \in S
  BY DEF Given, None

\* An optional parameter puts its octets or none.
LEMMA GivenOrNot ==
    ASSUME NEW x, NEW octets, Given(x) => octets \in Octets
    PROVE  Optional(x, octets) \in Octets
  BY OctetsAre, Zenon DEF Optional

-----------------------------------------------------------------------------
(* What the encoders of a request and of its answer make is octets          *)

\* A number in as few octets as it needs, and no more than four.
LEMMA UnsignedOctets ==
    ASSUME NEW v \in Nat
    PROVE  unsigned_octets(v) \in Octets /\ Len(unsigned_octets(v)) \in 1..4
  <1> DEFINE T == {n \in 1..3 : v < 256^n} \cup {4}
  <1>1. T \subseteq {1, 2, 3, 4} /\ 4 \in T
    OBVIOUS
  <1> HIDE DEF T
  <1>2. \E n \in T : \A m \in T : n <= m
    <2>1. CASE 1 \in T
      BY <1>1, <2>1
    <2>2. CASE 1 \notin T /\ 2 \in T
      BY <1>1, <2>2
    <2>3. CASE 1 \notin T /\ 2 \notin T /\ 3 \in T
      BY <1>1, <2>3
    <2>4. CASE 1 \notin T /\ 2 \notin T /\ 3 \notin T
      BY <1>1, <2>4
    <2>5. QED
      BY <2>1, <2>2, <2>3, <2>4
  <1> DEFINE least == Min(T)
  <1>3. least \in T
    BY <1>2, Zenon DEF Min
  <1>4. unsigned_octets(v) = ToBytes(v, least)
    BY Zenon DEF unsigned_octets, T
  <1> HIDE DEF least
  <1>5. least \in 1..4
    BY <1>1, <1>3
  <1>6. QED
    BY <1>4, <1>5, ToBytesOctets

\* The first octet of a tag.
LEMMA TagOctet ==
    ASSUME NEW tag \in Nat, tag <= 14, NEW lvt \in 0..7
    PROVE  Context(tag, lvt) \in Octets /\ Application(tag, lvt) \in Octets
  <1>1. 16 * tag + 8 + lvt \in Octet /\ 16 * tag + lvt \in Octet
    BY OctetIs
  <1>2. QED
    BY <1>1, OneOctet DEF Context, Application

\* A context-tagged number is octets.
LEMMA UnsignedTags ==
    ASSUME NEW tag \in Nat, tag <= 14, NEW v \in Nat
    PROVE  context_unsigned(tag, v) \in Octets
  <1>1. unsigned_octets(v) \in Octets /\ Len(unsigned_octets(v)) \in 0..7
    BY UnsignedOctets
  <1>2. Context(tag, Len(unsigned_octets(v))) \in Octets
    BY <1>1, TagOctet
  <1>3. QED
    BY <1>1, <1>2, Joined DEF context_unsigned

\* An application-tagged number is octets.
LEMMA ApplicationNumbers ==
    ASSUME NEW v \in Nat
    PROVE  application_unsigned(v) \in Octets /\ application_enumerated(v) \in Octets
  <1>1. unsigned_octets(v) \in Octets /\ Len(unsigned_octets(v)) \in 0..7
    BY UnsignedOctets
  <1>2. \A lvt \in 0..7 : Application(2, lvt) \in Octets /\ Application(9, lvt) \in Octets
    BY TagOctet
  <1>3. QED
    BY <1>1, <1>2, Joined DEF application_unsigned, application_enumerated

\* A tagged object identifier is octets.
LEMMA ObjectTags ==
    ASSUME NEW object, object[1] \in Int, object[2] \in Int
    PROVE  /\ \A tag \in 0..14 : context_object_id(tag, object) \in Octets
           /\ application_object_id(object) \in Octets
  <1>1. object[1] * (MAX_INSTANCE + 1) + object[2] \in Int
    BY DEF MAX_INSTANCE
  <1>2. object_id(object) \in Octets
    BY <1>1, ToBytesOctets DEF object_id
  <1>3. ASSUME NEW tag \in 0..14 PROVE context_object_id(tag, object) \in Octets
    <2>1. Context(tag, 4) \in Octets
      BY TagOctet
    <2>2. QED
      BY <1>2, <2>1, Joined DEF context_object_id
  <1>4. Application(12, 4) \in Octets
    BY TagOctet
  <1>5. QED
    BY <1>2, <1>3, <1>4, Joined DEF application_object_id

\* Octets between an opening and a closing tag are octets.
LEMMA EnclosedOctets ==
    ASSUME NEW tag \in Nat, tag <= 14, NEW octets \in Octets
    PROVE  Enclosed(tag, octets) \in Octets
  <1>1. opening(tag) \in Octets /\ closing(tag) \in Octets
    BY TagOctet DEF opening, closing
  <1>2. opening(tag) \o octets \in Octets
    BY <1>1, Joined
  <1>3. QED
    BY <1>1, <1>2, Joined DEF Enclosed

\* A property reference is octets.
LEMMA ReferenceOctets ==
    ASSUME NEW object, object[1] \in Int, object[2] \in Int, NEW property \in Nat,
           NEW array_index, Given(array_index) => array_index[1] \in Nat
    PROVE  Reference(object, property, array_index) \in Octets
  <1>1. context_object_id(0, object) \in Octets /\ context_unsigned(1, property) \in Octets
    BY ObjectTags, UnsignedTags
  <1>2. Optional(array_index, context_unsigned(2, array_index[1])) \in Octets
    BY UnsignedTags, GivenOrNot
  <1>3. context_object_id(0, object) \o context_unsigned(1, property) \in Octets
    BY <1>1, Joined
  <1>4. QED
    BY <1>2, <1>3, Joined DEF Reference

\* The headers of the APDUs.
LEMMA HeaderOctets ==
    ASSUME NEW a \in Octet, NEW b \in Octet
    PROVE  /\ <<a, b>> \in Octets
           /\ \A c \in Octet : <<a, b, c>> \in Octets
           /\ \A c, d \in Octet : <<a, b, c, d>> \in Octets
  BY DEF Octets

\* A confirmed request and a ComplexACK are octets.
LEMMA ConfirmedOctets ==
    ASSUME NEW id \in Octet, NEW choice \in Octet, NEW parameters \in Octets
    PROVE  /\ confirmed_request(id, choice, parameters) \in Octets
           /\ complex_ack(id, choice, parameters) \in Octets
  <1>1. 0 \in Octet /\ 5 \in Octet /\ 16 * PDU_COMPLEX_ACK \in Octet
    BY OctetIs DEF PDU_COMPLEX_ACK
  <1>2. <<0, 5, id, choice>> \in Octets /\ <<16 * PDU_COMPLEX_ACK, id, choice>> \in Octets
    BY <1>1, HeaderOctets
  <1>3. QED
    BY <1>2, Joined DEF confirmed_request, complex_ack

\* A ReadPropertyMultiple of a list of specifications.
LEMMA SpecificationOctets ==
    ASSUME NEW spec \in Specifications
    PROVE  read_access_specification(spec) \in Octets
  <1> DEFINE each == [i \in 1..Len(spec.references) |-> PropertyReference(spec.references[i])]
  <1>0. spec.references \in Seq(PropertyReferences)
    BY DEF Specifications
  <1>1. ASSUME NEW i \in 1..Len(spec.references)
        PROVE  PropertyReference(spec.references[i]) \in Octets
    <2> DEFINE r == spec.references[i]
    <2>0. r \in PropertyReferences
      BY <1>0
    <2> HIDE DEF r
    <2>1. r.property \in Nat /\ r.array_index \in Seq(Nat)
      BY <2>0 DEF PropertyReferences
    <2>2. Given(r.array_index) => r.array_index[1] \in Nat
      BY <2>1, FirstGiven
    <2>3. Optional(r.array_index, context_unsigned(1, r.array_index[1])) \in Octets
      BY <2>2, UnsignedTags, GivenOrNot, SMTT(30)
    <2>4. context_unsigned(0, r.property) \in Octets
      BY <2>1, UnsignedTags
    <2>5. PropertyReference(r) \in Octets
      BY <2>3, <2>4, Joined DEF PropertyReference
    <2>6. QED
      BY <2>5 DEF r
  <1>2. each \in Seq(Octets)
    BY <1>0, <1>1
  <1>3. FlattenSeq(each) \in Octets
    BY <1>2, FlattenOctets
  <1> HIDE DEF each
  <1>4. Enclosed(1, FlattenSeq(each)) \in Octets
    BY <1>3, EnclosedOctets
  <1>5. spec.object[1] \in Int /\ spec.object[2] \in Int
    BY DEF Specifications
  <1>6. context_object_id(0, spec.object) \in Octets
    BY <1>5, ObjectTags
  <1>7. QED
    BY <1>4, <1>6, Joined DEF read_access_specification, each

\* The requests the simulated server answers.
LEMMA RequestOctets ==
    ASSUME NEW m \in Messages, m.kind \in Requests
    PROVE  Encoded(m) \in Octets
  <1> DEFINE p == m.p
  <1>0. /\ SERVICE_READ_PROPERTY \in Octet /\ SERVICE_READ_PROPERTY_MULTIPLE \in Octet
        /\ 16 * PDU_UNCONFIRMED_REQUEST \in Octet /\ SERVICE_WHO_IS \in Octet
    BY OctetIs DEF SERVICE_READ_PROPERTY, SERVICE_READ_PROPERTY_MULTIPLE,
                   PDU_UNCONFIRMED_REQUEST, SERVICE_WHO_IS
  <1>1. CASE m.kind = "read"
    <2>1. m.id \in Octet /\ p \in [object : Nat \X Nat, property : Nat, array_index : Seq(Nat)]
      BY <1>1, MessagesAssumption
    <2>2. Encoded(m) = read_property_request(m.id, p.object, p.property, p.array_index)
      BY <1>1 DEF Encoded
    <2> HIDE DEF p
    <2>3. p.object[1] \in Int /\ p.object[2] \in Int /\ p.property \in Nat /\ p.array_index \in Seq(Nat)
      BY <2>1
    <2>4. Given(p.array_index) => p.array_index[1] \in Nat
      BY <2>3, FirstGiven
    <2>5. Reference(p.object, p.property, p.array_index) \in Octets
      BY <2>3, <2>4, ReferenceOctets
    <2>6. QED
      BY <1>0, <2>1, <2>2, <2>5, ConfirmedOctets DEF read_property_request
  <1>2. CASE m.kind = "read multiple"
    <2> DEFINE specs == p.specs
               each == [i \in 1..Len(specs) |-> read_access_specification(specs[i])]
    <2>1. /\ m.id \in Octet
          /\ specs \in Seq(Specifications)
      BY <1>2, MessagesAssumption
    <2>2. Encoded(m) = read_property_multiple_request(m.id, specs)
      BY <1>2 DEF Encoded
    <2> HIDE DEF specs
    <2>3. \A i \in 1..Len(specs) : read_access_specification(specs[i]) \in Octets
      BY <2>1, SpecificationOctets
    <2>4. each \in Seq(Octets)
      BY <2>1, <2>3
    <2>5. FlattenSeq(each) \in Octets
      BY <2>4, FlattenOctets
    <2>6. QED
      BY <1>0, <2>1, <2>2, <2>5, ConfirmedOctets DEF read_property_multiple_request
  <1>3. CASE m.kind = "who-is"
    <2> DEFINE limits == p.limits
               range == context_unsigned(0, limits[1][1]) \o context_unsigned(1, limits[1][2])
    <2>1. limits \in Seq(Nat \X Nat)
      BY <1>3, MessagesAssumption
    <2>2. Encoded(m) = who_is(limits)
      BY <1>3 DEF Encoded
    <2> HIDE DEF limits
    <2>3. Given(limits) => limits[1] \in Nat \X Nat
      BY <2>1, FirstGiven
    <2>4. Given(limits) => limits[1][1] \in Nat /\ limits[1][2] \in Nat
      BY <2>3
    <2>5. Given(limits) => range \in Octets
      BY <2>4, UnsignedTags, Joined
    <2>6. Optional(limits, range) \in Octets
      <3> HIDE DEF range
      <3>1. QED
        BY <2>5, GivenOrNot
    <2>7. <<16 * PDU_UNCONFIRMED_REQUEST, SERVICE_WHO_IS>> \in Octets
      BY <1>0, HeaderOctets
    <2>8. QED
      BY <2>2, <2>6, <2>7, Joined DEF who_is
  <1>4. QED
    BY <1>1, <1>2, <1>3 DEF Requests

-----------------------------------------------------------------------------
(* The tag reader                                                          *)

\* The smaller of two numbers.
LEMMA Smaller ==
    ASSUME NEW a \in Int, NEW b \in Int
    PROVE  Min({a, b}) = IF a <= b THEN a ELSE b
  <1> DEFINE Least(x) == x \in {a, b} /\ \A y \in {a, b} : x <= y
             m == IF a <= b THEN a ELSE b
  <1>1. Least(m) /\ \A x : Least(x) => x = m
    OBVIOUS
  <1>2. Min({a, b}) = CHOOSE x \in {a, b} : \A y \in {a, b} : x <= y
    BY Zenon DEF Min
  <1>3. QED
    BY <1>1, <1>2

\* A part of a sequence, which stops where the sequence does.
LEMMA SliceOf ==
    ASSUME NEW S, NEW data \in Seq(S), NEW from \in Nat, from >= 1, NEW to \in Int
    PROVE  /\ Slice(data, from, to) \in Seq(S)
           /\ to <= Len(data) /\ from <= to + 1 => Len(Slice(data, from, to)) = to + 1 - from
           /\ \A i \in 1..Len(Slice(data, from, to)) :
                /\ from + i - 1 \in 1..Len(data)
                /\ Slice(data, from, to)[i] = data[from + i - 1]
  <1> DEFINE end == IF to <= Len(data) THEN to ELSE Len(data)
  <1>0. Len(data) \in Nat /\ \A i \in 1..Len(data) : data[i] \in S
    OBVIOUS
  <1>1. end \in Int /\ end <= Len(data)
    BY <1>0
  <1>2. Slice(data, from, to) = SubSeq(data, from, end)
    BY <1>0, Smaller DEF Slice
  <1>3. \A i \in from..end : data[i] \in S
    BY <1>0, <1>1
  <1>4. to <= Len(data) => end = to
    OBVIOUS
  <1> HIDE DEF end
  <1>5. /\ SubSeq(data, from, end) \in Seq(S)
        /\ Len(SubSeq(data, from, end)) = IF from <= end THEN end - from + 1 ELSE 0
        /\ \A i \in 1..end - from + 1 : SubSeq(data, from, end)[i] = data[from + i - 1]
    BY <1>1, <1>3, SubSeqProperties
  <1>6. QED
    BY <1>0, <1>1, <1>2, <1>4, <1>5

\* A part of a datagram.
LEMMA SliceOctets ==
    ASSUME NEW data \in Octets, NEW from \in Nat, from >= 1, NEW to \in Int
    PROVE  /\ Slice(data, from, to) \in Octets
           /\ to <= Len(data) /\ from <= to + 1 => Len(Slice(data, from, to)) = to + 1 - from
           /\ \A i \in 1..Len(Slice(data, from, to)) : Slice(data, from, to)[i] = data[from + i - 1]
  BY SliceOf DEF Octets

\* What read_tag made of the place of a tag.
LEMMA ReadTag ==
    ASSUME NEW data \in Octets, NEW position \in 1..Len(data),
           read_tag(data, position) # Raised
    PROVE  /\ read_tag(data, position).kind # "raise"
           /\ read_tag(data, position).number \in Nat
           /\ read_tag(data, position).body \in Seq(Nat)
           /\ read_tag(data, position).start = position
           /\ read_tag(data, position).next \in Nat
           /\ read_tag(data, position).next > position
  <1> DEFINE first    == data[position]
             extended == first \div 16 = 15
             context  == Bit(first, 8)
             after    == position + (IF extended THEN 2 ELSE 1)
             number   == IF extended THEN data[position + 1] ELSE first \div 16
             kind     == IF context /\ first % 8 = 6 THEN "open"
                         ELSE IF context /\ first % 8 = 7 THEN "close" ELSE "value"
             lengths  == IF kind = "value" /\ first % 8 = 5 THEN 1 ELSE 0
             wide     == IF lengths = 0 \/ after > Len(data) THEN 0
                         ELSE IF data[after] = LongMarker THEN 2
                         ELSE IF data[after] = 255 THEN 4 ELSE 0
             start    == after + lengths + wide
             length   == IF kind # "value" THEN 0
                         ELSE IF wide > 0 THEN FromBytes(SubSeq(data, after + 1, after + wide))
                         ELSE IF lengths = 1 THEN data[after] ELSE first % 8
             inHeader == [number |-> number, context |-> FALSE, kind |-> "value",
                          body |-> <<length>>, start |-> position, next |-> start]
             follows  == [number |-> number, context |-> context, kind |-> kind,
                          body |-> Slice(data, start, start + length - 1),
                          start |-> position, next |-> start + length]
  <1>1. read_tag(data, position) =
          IF position > Len(data) \/ after + lengths + wide > Len(data) + 1 THEN Raised
          ELSE IF ValueInHeader(number, context) THEN inHeader ELSE follows
    BY Zenon DEF read_tag
  <1>2. /\ Len(data) \in Nat /\ position \in Nat
        /\ \A i \in 1..Len(data) : data[i] \in Nat /\ data[i] < 256
    BY OctetsAre
  <1>3. first \in Nat /\ first \div 16 \in Nat /\ first % 8 \in Nat
    BY <1>2
  <1>4. after \in {position + 1, position + 2} /\ (extended => after = position + 2)
    OBVIOUS
  <1>5. kind \in {"open", "close", "value"}
    OBVIOUS
  <1>6. lengths \in {0, 1} /\ wide \in {0, 2, 4} /\ (wide # 0 => lengths = 1)
    OBVIOUS
  <1>7. after + lengths + wide <= Len(data) + 1
    <2> HIDE DEF after, lengths, wide, inHeader, follows
    <2>1. QED
      BY <1>1, <1>2, <1>4, <1>6
  <1>8. number \in Nat
    <2> HIDE DEF extended, after, lengths, wide
    <2>1. CASE extended
      <3>1. position + 1 \in 1..Len(data)
        BY <1>2, <1>4, <1>6, <1>7, <2>1
      <3> HIDE DEF first
      <3>2. QED
        BY <1>2, <2>1, <3>1
    <2>2. CASE ~extended
      BY <1>3, <2>2
    <2>3. QED
      BY <2>1, <2>2
  <1>9. length \in Nat
    <2> DEFINE octets == SubSeq(data, after + 1, after + wide)
    <2>1. octets \in Seq(Nat)
      <3> HIDE DEF after, lengths, wide
      <3>1. after + 1 \in Int /\ after + wide \in Int
        BY <1>2, <1>4, <1>6
      <3>2. \A i \in after + 1 .. after + wide : data[i] \in Nat
        BY <1>2, <1>4, <1>6, <1>7
      <3>3. QED
        BY <3>1, <3>2, SubSeqProperties
    <2>2. FromBytes(octets) \in Nat
      <3> HIDE DEF octets
      <3>1. QED
        BY <2>1, FromBytesNat
    <2>3. lengths = 1 => data[after] \in Nat
      <3> HIDE DEF after, lengths, wide
      <3>1. QED
        BY <1>2, <1>4, <1>6, <1>7
    <2> HIDE DEF first, after, kind, lengths, wide, octets
    <2>4. QED
      BY <1>3, <2>2, <2>3 DEF octets
  <1>10. start \in Nat /\ start > position
    <2> HIDE DEF after, lengths, wide
    <2>1. QED
      BY <1>2, <1>4, <1>6
  <1> HIDE DEF first, extended, context, after, number, kind, lengths, wide, start, length
  <1>11. Slice(data, start, start + length - 1) \in Seq(Nat)
    BY <1>2, <1>9, <1>10, SliceOctets, OctetsAre
  <1>12. read_tag(data, position) = inHeader \/ read_tag(data, position) = follows
    BY <1>1, Zenon
  <1>13. /\ inHeader.kind # "raise" /\ inHeader.number \in Nat /\ inHeader.body \in Seq(Nat)
         /\ inHeader.start = position /\ inHeader.next \in Nat /\ inHeader.next > position
    BY <1>8, <1>9, <1>10
  <1>14. /\ follows.kind # "raise" /\ follows.number \in Nat /\ follows.body \in Seq(Nat)
         /\ follows.start = position /\ follows.next \in Nat /\ follows.next > position
    BY <1>2, <1>5, <1>8, <1>9, <1>10, <1>11
  <1> HIDE DEF inHeader, follows
  <1>15. QED
    BY <1>12, <1>13, <1>14

\* The places of a datagram, and one round of the tag reader's loop.
Place == Nat \ {0}
WalkStep(data, f, p) ==
    IF p > Len(data) THEN <<>>
    ELSE IF read_tag(data, p).kind = "raise" THEN <<read_tag(data, p)>>
    ELSE <<read_tag(data, p)>> \o f[read_tag(data, p).next]
IsWalk(data, f) == f = [p \in Place |-> WalkStep(data, f, p)]
AllTags(data) == {read_tag(data, p) : p \in 1..Len(data)}

\* A round looks at what comes after its place only.
LEMMA WalkLooksAhead ==
    ASSUME NEW data \in Octets, NEW p \in Place, NEW f, NEW h,
           \A q \in Place : q > p => h[q] = f[q]
    PROVE  WalkStep(data, h, p) = WalkStep(data, f, p)
  <1>0. Len(data) \in Nat /\ p \in Nat /\ p >= 1
    BY OctetsAre DEF Place
  <1>1. CASE p > Len(data) \/ read_tag(data, p).kind = "raise"
    BY <1>1, Zenon DEF WalkStep
  <1>2. CASE ~(p > Len(data) \/ read_tag(data, p).kind = "raise")
    <2>1. p \in 1..Len(data)
      BY <1>0, <1>2
    <2>2. read_tag(data, p) # Raised
      BY <1>2 DEF Raised
    <2>3. read_tag(data, p).next \in Nat /\ read_tag(data, p).next > p
      BY <2>1, <2>2, ReadTag
    <2>4. read_tag(data, p).next \in Place
      BY <1>0, <2>3 DEF Place
    <2>5. h[read_tag(data, p).next] = f[read_tag(data, p).next]
      BY <2>3, <2>4
    <2>6. QED
      BY <1>2, <2>5, Zenon DEF WalkStep
  <1>3. QED
    BY <1>1, <1>2

\* A round makes tags of tags.
LEMMA WalkMakesTags ==
    ASSUME NEW data \in Octets, NEW p \in Place, NEW f,
           \A q \in Place : q > p => f[q] \in Seq(AllTags(data))
    PROVE  WalkStep(data, f, p) \in Seq(AllTags(data))
  <1>0. Len(data) \in Nat /\ p \in Nat /\ p >= 1
    BY OctetsAre DEF Place
  <1>1. CASE p > Len(data)
    <2>1. WalkStep(data, f, p) = << >>
      BY <1>1, Zenon DEF WalkStep
    <2>2. QED
      BY <2>1
  <1>2. CASE ~(p > Len(data))
    <2> DEFINE tag == read_tag(data, p)
    <2>1. p \in 1..Len(data)
      BY <1>0, <1>2
    <2>2. tag \in AllTags(data)
      BY <2>1, Zenon DEF AllTags
    <2>3. CASE tag.kind = "raise"
      <3>1. WalkStep(data, f, p) = <<tag>>
        BY <1>2, <2>3, Zenon DEF WalkStep
      <3> HIDE DEF tag
      <3>2. QED
        BY <2>2, <3>1
    <2>4. CASE ~(tag.kind = "raise")
      <3>1. tag # Raised
        BY <2>4 DEF Raised
      <3>2. tag.next \in Nat /\ tag.next > p
        BY <2>1, <3>1, ReadTag
      <3>3. tag.next \in Place
        BY <1>0, <3>2 DEF Place
      <3>4. f[tag.next] \in Seq(AllTags(data))
        BY <3>2, <3>3
      <3>5. WalkStep(data, f, p) = <<tag>> \o f[tag.next]
        BY <1>2, <2>4, Zenon DEF WalkStep
      <3> HIDE DEF tag
      <3>6. QED
        BY <2>2, <3>4, <3>5
    <2>5. QED
      BY <2>3, <2>4
  <1>3. QED
    BY <1>1, <1>2

\* The tag reader's loop is well defined: backwards from the end of the data.
LEMMA WalkExists ==
    ASSUME NEW data \in Octets
    PROVE  \E f : IsWalk(data, f)
  <1> DEFINE n == Len(data)
             V == Seq(AllTags(data))
             Walked(f, k) == \A p \in Place : p > n - k => f[p] = WalkStep(data, f, p)
             S == {k \in 0..n : \E f \in [Place -> V] : Walked(f, k)}
  <1>0. n \in Nat
    BY OctetsAre
  <1>1. 0 \in S
    <2> DEFINE f == [p \in Place |-> << >>]
    <2>1. << >> \in V
      OBVIOUS
    <2>2. f \in [Place -> V]
      BY <2>1
    <2>3. ASSUME NEW p \in Place, p > n - 0 PROVE f[p] = WalkStep(data, f, p)
      <3>1. p > Len(data)
        BY <1>0, <2>3 DEF Place
      <3>2. QED
        BY <3>1 DEF WalkStep
    <2>4. Walked(f, 0)
      BY <2>3
    <2> HIDE DEF f, Walked, V
    <2>5. QED
      BY <1>0, <2>2, <2>4
  <1>2. ASSUME NEW k \in 0..n, k < n, k \in S PROVE k + 1 \in S
    <2>1. PICK f \in [Place -> V] : Walked(f, k)
      BY <1>2
    <2> DEFINE at == n - k
               h == [p \in Place |-> IF p = at THEN WalkStep(data, f, at) ELSE f[p]]
    <2>2. at \in Place /\ at \in Nat
      BY <1>0, <1>2 DEF Place
    <2>3. WalkStep(data, f, at) \in V
      BY <2>1, <2>2, WalkMakesTags
    <2>4. h \in [Place -> V]
      BY <2>2, <2>3
    <2>5. ASSUME NEW p \in Place, p > n - (k + 1) PROVE h[p] = WalkStep(data, h, p)
      <3>1. p >= at /\ \A q \in Place : q > p => q # at
        BY <1>0, <1>2, <2>2, <2>5 DEF Place
      <3>2. \A q \in Place : q > p => h[q] = f[q]
        BY <3>1
      <3>3. WalkStep(data, h, p) = WalkStep(data, f, p)
        <4> HIDE DEF h
        <4>1. QED
          BY <3>2, WalkLooksAhead
      <3>4. CASE p = at
        BY <2>2, <3>3, <3>4
      <3>5. CASE p # at
        <4>1. p > n - k
          BY <1>0, <1>2, <2>2, <3>1, <3>5 DEF Place
        <4>2. f[p] = WalkStep(data, f, p)
          BY <2>1, <4>1
        <4>3. QED
          BY <3>3, <3>5, <4>2
      <3>6. QED
        BY <3>4, <3>5
    <2>6. Walked(h, k + 1)
      BY <2>5
    <2> HIDE DEF h, Walked, V
    <2>7. QED
      BY <1>0, <1>2, <2>4, <2>6
  <1>3. \A k \in 0..n : k \in S
    <2> HIDE DEF S, n
    <2>1. QED
      BY <1>0, <1>1, <1>2, UpTo
  <1>4. PICK f \in [Place -> V] : Walked(f, n)
    <2> HIDE DEF Walked, V
    <2>1. n \in S
      BY <1>0, <1>3
    <2>2. QED
      BY <2>1
  <1>5. \A p \in Place : f[p] = WalkStep(data, f, p)
    BY <1>0, <1>4 DEF Place
  <1>6. f = [p \in Place |-> f[p]]
    OBVIOUS
  <1>7. IsWalk(data, f)
    BY <1>5, <1>6 DEF IsWalk
  <1>8. QED
    BY <1>7, Zenon

\* The tags from a place on: the tag there, and the tags from where it ends on.
LEMMA TagsFrom ==
    ASSUME NEW data \in Octets, NEW p \in Place
    PROVE  /\ Tags(data, p) \in Seq(AllTags(data))
           /\ Tags(data, p) = IF p > Len(data) THEN <<>>
                              ELSE IF read_tag(data, p).kind = "raise" THEN <<read_tag(data, p)>>
                              ELSE <<read_tag(data, p)>> \o Tags(data, read_tag(data, p).next)
  <1> DEFINE f == CHOOSE f : IsWalk(data, f)
             n == Len(data)
             V == Seq(AllTags(data))
  <1>0. n \in Nat
    BY OctetsAre
  <1>1. IsWalk(data, f)
    BY WalkExists, Zenon
  <1>2. \A from : Tags(data, from) = f[from]
    BY Zenon DEF Tags, IsWalk, WalkStep, Place
  <1> HIDE DEF f
  <1>3. \A q \in Place : f[q] = WalkStep(data, f, q)
    BY <1>1 DEF IsWalk
  <1> DEFINE S == {k \in 0..n : \A q \in Place : q > n - k => f[q] \in V}
  <1>4. 0 \in S
    <2>1. ASSUME NEW q \in Place, q > n - 0 PROVE f[q] \in V
      <3>1. q > Len(data)
        BY <1>0, <2>1 DEF Place
      <3>2. f[q] = << >>
        BY <1>3, <3>1 DEF WalkStep
      <3>3. QED
        BY <3>2
    <2>2. QED
      BY <1>0, <2>1
  <1>5. ASSUME NEW k \in 0..n, k < n, k \in S PROVE k + 1 \in S
    <2>1. \A q \in Place : q > n - k => f[q] \in V
      BY <1>5
    <2>2. ASSUME NEW q \in Place, q > n - (k + 1) PROVE f[q] \in V
      <3>1. \A r \in Place : r > q => r > n - k
        BY <1>0, <1>5, <2>2 DEF Place
      <3>2. \A r \in Place : r > q => f[r] \in V
        BY <2>1, <3>1
      <3>3. QED
        BY <1>3, <3>2, WalkMakesTags
    <2> HIDE DEF V
    <2>3. QED
      BY <1>0, <1>5, <2>2
  <1>6. \A k \in 0..n : k \in S
    <2> HIDE DEF S, n
    <2>1. QED
      BY <1>0, <1>4, <1>5, UpTo
  <1>7. n \in S
    BY <1>0, <1>6
  <1>8. f[p] \in V
    BY <1>0, <1>7 DEF Place
  <1>9. QED
    BY <1>2, <1>3, <1>8, Zenon DEF WalkStep

-----------------------------------------------------------------------------
(* The requests a server reads                                             *)

\* Object identifiers and the ReadAccessSpecifications read so far: every
\* object of the order, and the current one, has its members.
Objects == Nat \X Nat
SpecificationsSoFar ==
    {s \in [current : Seq(Objects), order : Seq(Objects),
            members : UNION {[D -> Seq(Nat)] : D \in SUBSET Objects}] :
       /\ Given(s.current) => s.current[1] \in DOMAIN s.members
       /\ \A i \in 1..Len(s.order) : s.order[i] \in DOMAIN s.members}

\* An object identifier is read as two numbers.
LEMMA AsObjectIs ==
    ASSUME NEW octets \in Seq(Nat)
    PROVE  AsObject(octets) \in Objects
  <1> DEFINE raw == FromBytes(octets)
  <1>1. raw \in Nat
    BY FromBytesNat
  <1> HIDE DEF raw
  <1>2. raw \div (MAX_INSTANCE + 1) \in Nat /\ raw % (MAX_INSTANCE + 1) \in Nat
    BY <1>1 DEF MAX_INSTANCE
  <1>3. AsObject(octets) = <<raw \div (MAX_INSTANCE + 1), raw % (MAX_INSTANCE + 1)>>
    BY Zenon DEF AsObject, raw
  <1>4. QED
    BY <1>2, <1>3 DEF Objects

\* A tag that is a value has its octets.
LEMMA TagBody ==
    ASSUME NEW data \in Octets, NEW tag \in AllTags(data), tag.kind # "raise"
    PROVE  tag.body \in Seq(Nat) /\ tag.start \in Nat /\ tag.next \in Nat /\ tag.next > tag.start
  <1>1. PICK p \in 1..Len(data) : tag = read_tag(data, p)
    BY Zenon DEF AllTags
  <1>2. read_tag(data, p) # Raised
    BY <1>1 DEF Raised
  <1>3. QED
    BY <1>1, <1>2, ReadTag, OctetsAre

\* What read_access_specifications has collected so far, from its parts.
LEMMA SpecificationsBuilt ==
    ASSUME NEW D \in SUBSET Objects, NEW current \in Seq(Objects), NEW order \in Seq(Objects),
           NEW members \in [D -> Seq(Nat)], Given(current) => current[1] \in D,
           \A i \in 1..Len(order) : order[i] \in D
    PROVE  [current |-> current, order |-> order, members |-> members] \in SpecificationsSoFar
  <1>1. DOMAIN members = D
    OBVIOUS
  <1>2. QED
    BY <1>1 DEF SpecificationsSoFar

\* One round of read_access_specifications.
LEMMA SpecificationStepTyped ==
    ASSUME NEW data \in Octets, NEW tag \in AllTags(data), NEW s \in SpecificationsSoFar
    PROVE  SpecificationStep(s, tag) \in SpecificationsSoFar
  <1>0. PICK D \in SUBSET Objects : s.members \in [D -> Seq(Nat)]
    BY DEF SpecificationsSoFar
  <1>1. /\ s.current \in Seq(Objects) /\ s.order \in Seq(Objects)
        /\ s = [current |-> s.current, order |-> s.order, members |-> s.members]
        /\ Given(s.current) => s.current[1] \in D
        /\ \A i \in 1..Len(s.order) : s.order[i] \in D
    BY <1>0 DEF SpecificationsSoFar
  <1>2. CASE IsValue(tag, 0) /\ ~Given(s.current) /\ Len(tag.body) = 4
    <2> DEFINE object == AsObject(tag.body)
               order == IF Contains(s.order, object) THEN s.order ELSE Append(s.order, object)
               members == [o \in DOMAIN s.members \cup {object} |->
                              IF o = object THEN <<>> ELSE s.members[o]]
    <2>1. tag.kind # "raise"
      BY <1>2 DEF IsValue
    <2>2. object \in Objects
      BY <2>1, TagBody, AsObjectIs
    <2>3. SpecificationStep(s, tag) = [current |-> <<object>>, order |-> order, members |-> members]
      BY <1>2, Zenon DEF SpecificationStep, Some
    <2> HIDE DEF object
    <2>4. order \in Seq(Objects) /\ \A i \in 1..Len(order) : order[i] \in D \cup {object}
      BY <1>1, <2>2
    <2>5. members \in [D \cup {object} -> Seq(Nat)] /\ D \cup {object} \in SUBSET Objects
      BY <1>0, <2>2
    <2> HIDE DEF order, members
    <2>6. <<object>> \in Seq(Objects) /\ <<object>>[1] \in D \cup {object}
      BY <2>2
    <2> DEFINE E == D \cup {object}
               current == <<object>>
    <2> HIDE DEF E, current
    <2>7. /\ E \in SUBSET Objects /\ current \in Seq(Objects) /\ current[1] \in E
          /\ members \in [E -> Seq(Nat)] /\ \A i \in 1..Len(order) : order[i] \in E
      BY <2>4, <2>5, <2>6 DEF E, current
    <2>8. [current |-> current, order |-> order, members |-> members] \in SpecificationsSoFar
      BY <2>4, <2>7, SpecificationsBuilt
    <2>9. QED
      BY <2>3, <2>8 DEF current
  <1>3. CASE ~(IsValue(tag, 0) /\ ~Given(s.current) /\ Len(tag.body) = 4)
             /\ IsValue(tag, 0) /\ Given(s.current)
    <2> DEFINE at == s.current[1]
               added == Append(s.members[at], FromBytes(tag.body))
               members == [s.members EXCEPT ![at] = added]
    <2>1. tag.kind # "raise"
      BY <1>3 DEF IsValue
    <2>2. FromBytes(tag.body) \in Nat
      BY <2>1, TagBody, FromBytesNat
    <2>3. at \in D
      BY <1>1, <1>3
    <2>4. added \in Seq(Nat)
      BY <1>0, <2>2, <2>3
    <2>5. SpecificationStep(s, tag) = [s EXCEPT !.members[s.current[1]] = Append(@, FromBytes(tag.body))]
      BY <1>3, Zenon DEF SpecificationStep
    <2>6. SpecificationStep(s, tag) = [current |-> s.current, order |-> s.order, members |-> members]
      BY <1>1, <2>5
    <2> HIDE DEF added, at
    <2>7. members \in [D -> Seq(Nat)] /\ DOMAIN members = D
      BY <1>0, <2>3, <2>4
    <2> HIDE DEF members
    <2>8. QED
      BY <1>1, <2>6, <2>7 DEF SpecificationsSoFar
  <1>4. CASE /\ ~(IsValue(tag, 0) /\ ~Given(s.current) /\ Len(tag.body) = 4)
             /\ ~(IsValue(tag, 0) /\ Given(s.current))
             /\ tag.kind = "close" /\ tag.number = 1
    <2>1. SpecificationStep(s, tag) = [s EXCEPT !.current = None]
      BY <1>4, Zenon DEF SpecificationStep
    <2>2. SpecificationStep(s, tag) = [current |-> None, order |-> s.order, members |-> s.members]
      BY <1>1, <2>1
    <2>3. None \in Seq(Objects) /\ ~Given(None) /\ DOMAIN s.members = D
      BY <1>0 DEF None, Given
    <2>4. QED
      BY <1>0, <1>1, <2>2, <2>3 DEF SpecificationsSoFar
  <1>5. CASE /\ ~(IsValue(tag, 0) /\ ~Given(s.current) /\ Len(tag.body) = 4)
             /\ ~(IsValue(tag, 0) /\ Given(s.current))
             /\ ~(tag.kind = "close" /\ tag.number = 1)
    BY <1>5, Zenon DEF SpecificationStep
  <1>6. QED
    BY <1>2, <1>3, <1>4, <1>5, Zenon

\* f is the loop of read_access_specifications.
IsReading(tags, f) ==
    f = [i \in 0..Len(tags) |->
           IF i = 0 THEN [current |-> None, order |-> <<>>, members |-> <<>>]
           ELSE SpecificationStep(f[i - 1], tags[i])]

\* Nothing is read at first, and each tag is one step.
NothingRead == [current |-> None, order |-> <<>>, members |-> <<>>]
ReadBy(tags, f) ==
    /\ SpecificationsRead(tags) = f[Len(tags)] /\ f[0] = NothingRead
    /\ \A i \in 1..Len(tags) : f[i] = SpecificationStep(f[i - 1], tags[i])
\* Reading any tags gives objects with their members, in every round.
LEMMA SpecificationsLoop ==
    ASSUME NEW data \in Octets, NEW tags \in Seq(AllTags(data))
    PROVE  \E f : ReadBy(tags, f) /\ \A i \in 0..Len(tags) : f[i] \in SpecificationsSoFar
  <1> DEFINE n == Len(tags)
             V == SpecificationsSoFar
             none == [current |-> None, order |-> <<>>, members |-> <<>>]
             g == [i \in Nat |-> [s \in V |->
                     IF i \in 1..n THEN SpecificationStep(s, tags[i]) ELSE s]]
  <1>0. n \in Nat /\ \A i \in 1..n : tags[i] \in AllTags(data)
    OBVIOUS
  <1>1. none \in V
    <2>1. << >> \in [{} -> Seq(Nat)] /\ {} \in SUBSET Objects
      OBVIOUS
    <2>2. None \in Seq(Objects) /\ ~Given(None) /\ << >> \in Seq(Objects)
      BY DEF None, Given
    <2>3. \A i \in 1..Len(<< >>) : << >>[i] \in {}
      OBVIOUS
    <2>4. \A members \in [{} -> Seq(Nat)] :
            [current |-> None, order |-> << >>, members |-> members] \in SpecificationsSoFar
      BY <2>1, <2>2, <2>3, SpecificationsBuilt, Zenon
    <2>5. QED
      BY <2>1, <2>4, Zenon
  <1>2. \A i \in 1..n : \A s \in V : SpecificationStep(s, tags[i]) \in V
    BY <1>0, SpecificationStepTyped
  <1> HIDE DEF V, none
  <1>3. g \in [Nat -> [V -> V]]
    BY <1>0, <1>2
  <1>4. PICK h \in [0..n -> V] : Follows(h, n, none, g)
    <2> HIDE DEF g, n
    <2>1. QED
      BY <1>0, <1>1, <1>3, LoopExists, Zenon
  <1>5. IsReading(tags, h)
    <2>1. ASSUME NEW i \in 1..n PROVE h[i] = SpecificationStep(h[i-1], tags[i])
      <3>1. h[i-1] \in V /\ i \in Nat
        BY <1>0
      <3>2. h[i] = g[i][h[i-1]]
        BY <1>4 DEF Follows
      <3>3. QED
        BY <1>0, <3>1, <3>2
    <2>2. h = [i \in 0..n |-> h[i]]
      BY <1>4
    <2>3. h[0] = none
      BY <1>4 DEF Follows
    <2> HIDE DEF g
    <2>4. \A i \in 0..n : h[i] = IF i = 0 THEN none ELSE SpecificationStep(h[i-1], tags[i])
      BY <1>0, <2>1, <2>3
    <2>5. QED
      BY <2>2, <2>4 DEF IsReading, none
  <1> DEFINE f == CHOOSE f : IsReading(tags, f)
  <1>6. IsReading(tags, f)
    BY <1>5, Zenon
  <1>7. SpecificationsRead(tags) = f[n]
    BY Zenon DEF SpecificationsRead, IsReading
  <1> HIDE DEF f
  <1>8. \A i \in 0..n : f[i] = IF i = 0 THEN none ELSE SpecificationStep(f[i-1], tags[i])
    BY <1>6 DEF IsReading, none
  <1> DEFINE S == {i \in 0..n : f[i] \in V}
  <1>9. 0 \in S
    BY <1>0, <1>1, <1>8
  <1>10. ASSUME NEW i \in 0..n, i < n, i \in S PROVE i + 1 \in S
    <2>1. i + 1 \in 1..n /\ i + 1 \in 0..n /\ (i + 1) - 1 = i /\ i + 1 # 0 /\ f[i] \in V
      BY <1>0, <1>10
    <2>2. f[i+1] = SpecificationStep(f[i], tags[i+1])
      BY <1>8, <2>1
    <2>3. QED
      BY <1>2, <2>1, <2>2
  <1>11. \A i \in 0..n : i \in S
    <2> HIDE DEF S, n
    <2>1. QED
      BY <1>0, <1>9, <1>10, UpTo
  <1>12. \A i \in 0..n : f[i] \in V
    BY <1>11, Zenon
  <1>13. ReadBy(tags, f)
    <2>1. 0 \in 0..n /\ \A i \in 1..n : i \in 0..n /\ i # 0
      BY <1>0
    <2>2. f[0] = none /\ \A i \in 1..n : f[i] = SpecificationStep(f[i - 1], tags[i])
      BY <1>8, <2>1, Zenon
    <2>3. QED
      BY <1>7, <2>2, Zenon DEF ReadBy, NothingRead, none
  <1>14. QED
    BY <1>12, <1>13, Zenon DEF V

\* So does reading them all.
LEMMA SpecificationsReadTyped ==
    ASSUME NEW data \in Octets, NEW tags \in Seq(AllTags(data))
    PROVE  SpecificationsRead(tags) \in SpecificationsSoFar
  <1>1. PICK f : ReadBy(tags, f) /\ \A i \in 0..Len(tags) : f[i] \in SpecificationsSoFar
    BY SpecificationsLoop, Zenon
  <1>2. Len(tags) \in 0..Len(tags)
    OBVIOUS
  <1>3. QED
    BY <1>1, <1>2, Zenon DEF ReadBy

\* What a server reads of a ReadPropertyMultiple.
LEMMA SpecificationsTyped ==
    ASSUME NEW octets \in Octets
    PROVE  read_access_specifications(octets) \in Seq([object : Objects, properties : Seq(Nat)])
  <1> DEFINE read == SpecificationsRead(Tags(octets, 1))
             spec(i) == [object |-> read.order[i], properties |-> read.members[read.order[i]]]
  <1>1. 1 \in Place
    BY DEF Place
  <1>2. read \in SpecificationsSoFar
    BY <1>1, TagsFrom, SpecificationsReadTyped
  <1>3. read_access_specifications(octets) = [i \in 1..Len(read.order) |-> spec(i)]
    BY Zenon DEF read_access_specifications
  <1> HIDE DEF read
  <1>4. read.order \in Seq(Objects) /\ \A i \in 1..Len(read.order) : read.order[i] \in DOMAIN read.members
    BY <1>2 DEF SpecificationsSoFar
  <1>5. PICK D \in SUBSET Objects : read.members \in [D -> Seq(Nat)]
    BY <1>2 DEF SpecificationsSoFar
  <1>6. ASSUME NEW i \in 1..Len(read.order)
        PROVE  spec(i) \in [object : Objects, properties : Seq(Nat)]
    BY <1>4, <1>5
  <1> HIDE DEF spec
  <1>7. QED
    BY <1>3, <1>4, <1>6

-----------------------------------------------------------------------------
(* Octets within a datagram: what read_tag makes of a tag does not depend   *)
(* on where the tag is.                                                     *)

\* Sequences of octets with the same octets are the same.
LEMMA SameOctets ==
    ASSUME NEW s \in Octets, NEW t \in Octets, Len(s) = Len(t), \A i \in 1..Len(s) : s[i] = t[i]
    PROVE  s = t
  <1>1. s \in Seq(Octet) /\ t \in Seq(Octet)
    BY DEF Octets
  <1>2. QED
    BY <1>1, SeqEqual

\* A part of a datagram that lies within it.
LEMMA PartOf ==
    ASSUME NEW data \in Octets, NEW from \in Nat, from >= 1, NEW to \in Int, to <= Len(data), from <= to + 1
    PROVE  /\ SubSeq(data, from, to) \in Octets /\ Len(SubSeq(data, from, to)) = to + 1 - from
           /\ \A i \in 1..(to + 1 - from) : SubSeq(data, from, to)[i] = data[from + i - 1]
  <1>1. data \in Seq(Octet) /\ Len(data) \in Nat
    BY DEF Octets
  <1>2. \A i \in from..to : data[i] \in Octet
    BY <1>1
  <1>3. /\ SubSeq(data, from, to) \in Seq(Octet)
        /\ Len(SubSeq(data, from, to)) = IF from <= to THEN to - from + 1 ELSE 0
        /\ \A i \in 1..to - from + 1 : SubSeq(data, from, to)[i] = data[from + i - 1]
    BY <1>2, SubSeqProperties
  <1>4. to - from + 1 = to + 1 - from /\ (IF from <= to THEN to - from + 1 ELSE 0) = to + 1 - from
    OBVIOUS
  <1>5. QED
    BY <1>3, <1>4, Zenon DEF Octets

\* The data has a part after at octets, and the two halves of one.
Holds(data, at, part) ==
    at + Len(part) <= Len(data) /\ \A i \in 1..Len(part) : data[at + i] = part[i]
\* Data that holds a sequence of two parts holds each of them at its place.
LEMMA HoldsBoth ==
    ASSUME NEW data \in Octets, NEW at \in Nat, NEW a \in Octets, NEW b \in Octets, Holds(data, at, a \o b)
    PROVE  Holds(data, at, a) /\ Holds(data, at + Len(a), b)
  <1> DEFINE ab == a \o b
             m == Len(a)
             n == Len(b)
             k == Len(data)
  <1>1. /\ Len(ab) = m + n
        /\ \A i \in 1..m : ab[i] = a[i]
        /\ \A i \in 1..n : ab[m + i] = b[i]
    BY Joined, Zenon
  <1>2. m \in Nat /\ n \in Nat /\ k \in Nat
    BY OctetsAre
  <1>3. at + Len(ab) <= k /\ \A i \in 1..Len(ab) : data[at + i] = ab[i]
    BY Zenon DEF Holds
  <1> HIDE DEF ab, m, n, k
  <1>4. at + m <= k /\ (at + m) + n <= k
    BY <1>1, <1>2, <1>3
  <1>5. \A i \in 1..m : data[at + i] = a[i]
    <2>1. TAKE i \in 1..m
    <2>2. i \in 1..Len(ab)
      BY <1>1, <1>2
    <2>3. QED
      BY <1>1, <1>3, <2>2
  <1>6. \A i \in 1..n : data[(at + m) + i] = b[i]
    <2>1. TAKE i \in 1..n
    <2>2. m + i \in 1..Len(ab) /\ (at + m) + i = at + (m + i)
      BY <1>1, <1>2
    <2>3. data[at + (m + i)] = ab[m + i]
      BY <1>3, <2>2
    <2>4. ab[m + i] = b[i]
      BY <1>1
    <2>5. QED
      BY <2>2, <2>3, <2>4
  <1>7. QED
    BY <1>4, <1>5, <1>6, Zenon DEF Holds, m, n, k

\* What follows a header is where the header ends.
LEMMA HoldsAfter ==
    ASSUME NEW a \in Octets, NEW b \in Octets
    PROVE  /\ a \o b \in Octets /\ Len(a \o b) = Len(a) + Len(b)
           /\ \A i \in 1..Len(a) : (a \o b)[i] = a[i]
           /\ Holds(a \o b, 0, a) /\ Holds(a \o b, Len(a), b) /\ Len(a) \in Nat /\ Len(b) \in Nat
  <1> DEFINE ab == a \o b
             m == Len(a)
             n == Len(b)
  <1>1. /\ ab \in Octets /\ Len(ab) = m + n
        /\ \A i \in 1..m : ab[i] = a[i]
        /\ \A i \in 1..n : ab[m + i] = b[i]
    BY Joined, Zenon
  <1>2. m \in Nat /\ n \in Nat
    BY OctetsAre
  <1> HIDE DEF ab, m, n
  <1>3. 0 + m <= Len(ab) /\ m + n <= Len(ab) /\ \A i \in 1..m : 0 + i = i
    BY <1>1, <1>2
  <1>4. QED
    BY <1>1, <1>2, <1>3, Zenon DEF Holds, ab, m, n

\* After the end there are no tags.
LEMMA TagsEnd ==
    ASSUME NEW data \in Octets
    PROVE  Tags(data, Len(data) + 1) = <<>>
  <1>1. Len(data) \in Nat
    BY OctetsAre
  <1>2. Len(data) + 1 \in Place /\ Len(data) + 1 > Len(data)
    BY <1>1 DEF Place
  <1>3. Tags(data, Len(data) + 1) = IF Len(data) + 1 > Len(data) THEN <<>>
          ELSE IF read_tag(data, Len(data) + 1).kind = "raise" THEN <<read_tag(data, Len(data) + 1)>>
          ELSE <<read_tag(data, Len(data) + 1)>> \o Tags(data, read_tag(data, Len(data) + 1).next)
    BY <1>2, TagsFrom
  <1>4. QED
    BY <1>2, <1>3, Zenon

\* A tag found at octets further on.
Moved(tag, at) ==
    [number |-> tag.number, context |-> tag.context, kind |-> tag.kind, body |-> tag.body,
     start |-> at + tag.start, next |-> at + tag.next]

\* A part of a sequence of octets that another one holds.
LEMMA PartMoved ==
    ASSUME NEW data \in Octets, NEW v \in Octets, NEW at \in Nat, Holds(data, at, v),
           NEW from \in Nat, from >= 1, NEW to \in Int, to <= Len(v), from <= to + 1
    PROVE  /\ SubSeq(data, at + from, at + to) = SubSeq(v, from, to)
           /\ Slice(data, at + from, at + to) = Slice(v, from, to)
           /\ Slice(v, from, to) = SubSeq(v, from, to)
  <1> DEFINE n == Len(v)
             m == Len(data)
             s == SubSeq(v, from, to)
             t == SubSeq(data, at + from, at + to)
             k == to + 1 - from
  <1>1. n \in Nat /\ m \in Nat /\ at + n <= m /\ \A i \in 1..n : data[at + i] = v[i]
    BY OctetsAre, Zenon DEF Holds
  <1>2. to <= n
    OBVIOUS
  <1> HIDE DEF n, m
  <1>3. /\ at + from \in Nat /\ at + from >= 1 /\ at + to \in Int /\ at + to <= m
        /\ at + from <= (at + to) + 1 /\ (at + to) + 1 - (at + from) = k
    BY <1>1, <1>2
  <1>4. s \in Octets /\ Len(s) = k /\ \A i \in 1..k : s[i] = v[from + i - 1]
    BY <1>2, PartOf, Zenon DEF n
  <1>5. t \in Octets /\ Len(t) = k /\ \A i \in 1..k : t[i] = data[(at + from) + i - 1]
    <2> DEFINE a == at + from
               b == at + to
    <2>1. a \in Nat /\ a >= 1 /\ b \in Int /\ b <= Len(data) /\ a <= b + 1 /\ b + 1 - a = k
      BY <1>3, Zenon DEF m
    <2> HIDE DEF a, b
    <2>2. /\ SubSeq(data, a, b) \in Octets /\ Len(SubSeq(data, a, b)) = k
          /\ \A i \in 1..k : SubSeq(data, a, b)[i] = data[a + i - 1]
      BY <2>1, PartOf
    <2>3. QED
      BY <2>2, Zenon DEF a, b
  <1>6. k \in Nat
    BY <1>2
  <1>7. \A i \in 1..k : t[i] = s[i]
    <2>1. TAKE i \in 1..k
    <2>2. from + i - 1 \in 1..n /\ (at + from) + i - 1 = at + (from + i - 1)
      BY <1>1, <1>2, <1>6
    <2>3. data[(at + from) + i - 1] = v[from + i - 1]
      BY <1>1, <2>2
    <2>4. QED
      BY <1>4, <1>5, <2>3
  <1>8. t = s
    <2> HIDE DEF s, t, k
    <2>1. QED
      BY <1>4, <1>5, <1>7, SameOctets
  <1>9. Min({to, n}) = to /\ Min({at + to, m}) = at + to
    <2>1. n \in Int /\ m \in Int
      BY <1>1
    <2>2. /\ Min({to, n}) = IF to <= n THEN to ELSE n
          /\ Min({at + to, m}) = IF at + to <= m THEN at + to ELSE m
      BY <1>3, <2>1, Smaller, Zenon
    <2>3. QED
      BY <1>2, <1>3, <2>2, Zenon
  <1>10. QED
    BY <1>8, <1>9, Zenon DEF Slice, n, m

\* The part data has at a place.
LEMMA PartHeld ==
    ASSUME NEW data \in Octets, NEW v \in Octets, NEW at \in Nat, Holds(data, at, v)
    PROVE  SubSeq(data, at + 1, at + Len(v)) = v
  <1> DEFINE n == Len(v)
             part == SubSeq(v, 1, n)
  <1>1. n \in Nat /\ n \in Int /\ n <= n /\ 1 \in Nat /\ 1 >= 1 /\ 1 <= n + 1
    BY OctetsAre
  <1>2. SubSeq(data, at + 1, at + n) = part
    <2> HIDE DEF part
    <2>1. n <= Len(v)
      BY <1>1
    <2> HIDE DEF n
    <2>2. QED
      BY <1>1, <2>1, PartMoved, ZenonT(60) DEF part
  <1>3. part = v
    BY DEF Octets
  <1>4. QED
    BY <1>2, <1>3, Zenon

SameHeader(t, s, at) ==
    /\ t.kind = s.kind /\ t.number = s.number /\ t.context = s.context
    /\ t.start = at + s.start /\ t.next = at + s.next
HeaderHeld(t, s, at, n) ==
    /\ SameHeader(t, s, at)
    /\ s.kind # "value" => s.next <= n + 1
    /\ s.next <= n + 1 => t = Moved(s, at)
\* A tag whose header is within a part of a datagram has the header the part alone has; if
\* its body is there too, it is the tag of that part.
LEMMA ReadTagHeld ==
    ASSUME NEW data \in Octets, NEW v \in Octets, NEW at \in Nat, Holds(data, at, v),
           NEW p \in 1..Len(v), read_tag(v, p) # Raised
    PROVE  HeaderHeld(read_tag(data, at + p), read_tag(v, p), at, Len(v))
  <1> DEFINE extended(first) == first \div 16 = 15
             context(first) == Bit(first, 8)
             after(first, q) == q + (IF extended(first) THEN 2 ELSE 1)
             number(d, q) == IF extended(d[q]) THEN d[q + 1] ELSE d[q] \div 16
             kind(first) == IF context(first) /\ first % 8 = 6 THEN "open"
                            ELSE IF context(first) /\ first % 8 = 7 THEN "close" ELSE "value"
             lengths(first) == IF kind(first) = "value" /\ first % 8 = 5 THEN 1 ELSE 0
             wide(d, q) == IF lengths(d[q]) = 0 \/ after(d[q], q) > Len(d) THEN 0
                           ELSE IF d[after(d[q], q)] = LongMarker THEN 2
                           ELSE IF d[after(d[q], q)] = 255 THEN 4 ELSE 0
             start(d, q) == after(d[q], q) + lengths(d[q]) + wide(d, q)
             length(d, q) == IF kind(d[q]) # "value" THEN 0
                             ELSE IF wide(d, q) > 0
                             THEN FromBytes(SubSeq(d, after(d[q], q) + 1, after(d[q], q) + wide(d, q)))
                             ELSE IF lengths(d[q]) = 1 THEN d[after(d[q], q)] ELSE d[q] % 8
             inHeader(d, q) == [number |-> number(d, q), context |-> FALSE, kind |-> "value",
                                body |-> <<length(d, q)>>, start |-> q, next |-> start(d, q)]
             follows(d, q) == [number |-> number(d, q), context |-> context(d[q]), kind |-> kind(d[q]),
                               body |-> Slice(d, start(d, q), start(d, q) + length(d, q) - 1),
                               start |-> q, next |-> start(d, q) + length(d, q)]
             short(d, q) == q > Len(d) \/ start(d, q) > Len(d) + 1
             n == Len(v)
             m == Len(data)
             r == at + p
             f == v[p]
  <1>1. ASSUME NEW d, NEW q
        PROVE  read_tag(d, q) = IF short(d, q) THEN Raised
                 ELSE IF ValueInHeader(number(d, q), context(d[q])) THEN inHeader(d, q) ELSE follows(d, q)
    BY Zenon DEF read_tag
  <1>2. /\ n \in Nat /\ m \in Nat /\ p \in 1..n
        /\ at + n <= m /\ \A i \in 1..n : data[at + i] = v[i] /\ v[i] \in Nat
    BY OctetsAre, Zenon DEF Holds
  <1>3. ~short(v, p)
    BY <1>1, Zenon
  <1> HIDE DEF short
  <1>4. start(v, p) <= n + 1
    <2>1. ~(start(v, p) > n + 1)
      BY <1>3, Zenon DEF short
    <2>2. start(v, p) \in Int
      <3>1. after(f, p) \in Int /\ lengths(f) \in Int /\ wide(v, p) \in Int
        <4> HIDE DEF extended, kind
        <4>1. QED
          BY <1>2
      <3> HIDE DEF after, lengths, wide
      <3>2. QED
        BY <3>1
    <2> HIDE DEF start
    <2>3. QED
      BY <1>2, <2>1, <2>2
  <1>5. data[r] = f /\ f \in Nat
    BY <1>2, Zenon
  <1> HIDE DEF n, m, f
  <1> DEFINE a == after(f, p)
             l == lengths(f)
             w == wide(v, p)
  <1>6. a \in {p + 1, p + 2} /\ (extended(f) => a = p + 2) /\ after(f, r) = at + a
    <2> HIDE DEF extended
    <2>1. QED
      BY <1>2
  <1>7. l \in {0, 1} /\ w \in {0, 2, 4} /\ (w # 0 => l = 1)
    BY <1>5 DEF f
  <1>8. start(v, p) = a + l + w
    BY Zenon DEF f
  <1>9. l = 1 => data[at + a] = v[a] /\ a <= n /\ at + a <= m
    <2> HIDE DEF a, l, w, start
    <2>1. l = 1 => a \in 1..n
      BY <1>2, <1>4, <1>6, <1>7, <1>8
    <2>2. QED
      BY <1>2, <2>1
  <1>10. wide(data, r) = w
    <2> DEFINE marked(d, at1) == IF d[at1] = LongMarker THEN 2 ELSE IF d[at1] = 255 THEN 4 ELSE 0
    <2>1. /\ wide(data, r) = IF l = 0 \/ at + a > m THEN 0 ELSE marked(data, at + a)
          /\ w = IF l = 0 \/ a > n THEN 0 ELSE marked(v, a)
      <3> HIDE DEF after, lengths
      <3>1. after(data[r], r) = at + a /\ lengths(data[r]) = l /\ after(v[p], p) = a /\ lengths(v[p]) = l
        BY <1>5, <1>6, Zenon DEF f
      <3> HIDE DEF a, l
      <3>2. QED
        BY <3>1, ZenonT(60) DEF n, m
    <2>2. l = 1 => marked(data, at + a) = marked(v, a)
      BY <1>9, ZenonT(60)
    <2> HIDE DEF marked, a, l, w, wide
    <2>3. l = 1 => ~(at + a > m) /\ ~(a > n)
      BY <1>2, <1>6, <1>9
    <2>4. QED
      BY <1>7, <2>1, <2>2, <2>3
  <1>11. start(data, r) = at + (a + l + w)
    <2>1. start(data, r) = (at + a) + l + w
      <3> HIDE DEF after, lengths, wide
      <3>1. after(data[r], r) = at + a /\ lengths(data[r]) = l
        BY <1>5, <1>6, Zenon
      <3> HIDE DEF a, l, w
      <3>2. QED
        BY <1>10, <3>1, Zenon
    <2> HIDE DEF a, l, w, start
    <2>2. QED
      BY <1>2, <1>6, <1>7, <2>1
  <1>12. number(data, r) = number(v, p)
    <2> HIDE DEF a, l, w
    <2>1. CASE extended(f)
      <3> HIDE DEF extended
      <3>1. p + 1 \in 1..n /\ r + 1 = at + (p + 1)
        BY <1>2, <1>4, <1>6, <1>7, <1>8, <2>1
      <3>2. data[r + 1] = v[p + 1]
        BY <1>2, <3>1
      <3>3. number(data, r) = data[r + 1] /\ number(v, p) = v[p + 1]
        BY <1>5, <2>1, Zenon DEF f
      <3>4. QED
        BY <3>2, <3>3
    <2>2. CASE ~extended(f)
      BY <1>5, <2>2, Zenon DEF f
    <2>3. QED
      BY <2>1, <2>2
  <1>13. length(data, r) = length(v, p)
    <2> DEFINE sized(d, at1, bytes) == IF kind(f) # "value" THEN 0
                 ELSE IF w > 0 THEN FromBytes(bytes) ELSE IF l = 1 THEN d[at1] ELSE f % 8
               bytes1 == SubSeq(v, a + 1, a + w)
               bytes2 == SubSeq(data, (at + a) + 1, (at + a) + w)
    <2>1. length(data, r) = sized(data, at + a, bytes2) /\ length(v, p) = sized(v, a, bytes1)
      <3> HIDE DEF after, lengths, wide, kind
      <3>1. after(data[r], r) = at + a /\ lengths(data[r]) = l /\ kind(data[r]) = kind(f)
        BY <1>5, <1>6, Zenon
      <3>2. after(v[p], p) = a /\ lengths(v[p]) = l /\ kind(v[p]) = kind(f)
        BY Zenon DEF f
      <3> HIDE DEF a, l, w
      <3>3. QED
        BY <1>5, <1>10, <3>1, <3>2, Zenon DEF f, w
    <2>2. w > 0 => bytes2 = bytes1
      <3> HIDE DEF a, l, w, start
      <3>1. SUFFICES ASSUME w > 0 PROVE bytes2 = bytes1
        OBVIOUS
      <3> DEFINE from == a + 1
                 to == a + w
      <3>2. /\ from \in Nat /\ from >= 1 /\ to \in Int /\ to <= n /\ from <= to + 1
            /\ (at + a) + 1 = at + from /\ (at + a) + w = at + to
        BY <1>2, <1>4, <1>6, <1>7, <1>8, <3>1
      <3> HIDE DEF from, to
      <3>3. SubSeq(data, at + from, at + to) = SubSeq(v, from, to)
        BY <3>2, PartMoved, ZenonT(60) DEF n
      <3>4. QED
        BY <3>2, <3>3, Zenon DEF from, to
    <2> HIDE DEF bytes1, bytes2, kind, a, w, l
    <2>3. sized(data, at + a, bytes2) = sized(v, a, bytes1)
      BY <1>9, <2>2, Zenon
    <2> HIDE DEF sized, length
    <2>4. QED
      BY <2>1, <2>3, Zenon
  <1> DEFINE s == a + l + w
             k == length(v, p)
  <1>14. read_tag(v, p) = IF ValueInHeader(number(v, p), context(f)) THEN inHeader(v, p) ELSE follows(v, p)
    BY <1>1, <1>3, Zenon DEF f
  <1>15. s \in Nat /\ s >= 1 /\ s <= n + 1
    <2> HIDE DEF a, l, w, start
    <2>1. QED
      BY <1>2, <1>4, <1>6, <1>7, <1>8
  <1>16. read_tag(data, r) =
           IF ValueInHeader(number(v, p), context(f))
           THEN [number |-> number(v, p), context |-> FALSE, kind |-> "value",
                 body |-> <<k>>, start |-> r, next |-> at + s]
           ELSE [number |-> number(v, p), context |-> context(f), kind |-> kind(f),
                 body |-> Slice(data, at + s, (at + s) + k - 1), start |-> r, next |-> (at + s) + k]
    <2>1. ~short(data, r)
      <3>1. r <= m /\ at + s <= m + 1
        <4> HIDE DEF s
        <4>1. QED
          BY <1>2, <1>15
      <3>2. ~(r > Len(data)) /\ ~(start(data, r) > Len(data) + 1)
        <4>1. start(data, r) = at + s
          BY <1>11, Zenon
        <4> HIDE DEF start, s
        <4>2. r \in Int /\ at + s \in Int /\ m \in Int /\ m = Len(data)
          BY <1>2, <1>15 DEF m
        <4>3. QED
          BY <3>1, <4>1, <4>2
      <3>3. QED
        BY <3>2, Zenon DEF short
    <2>2. start(data, r) = at + s
      BY <1>11, Zenon
    <2>3. inHeader(data, r) = [number |-> number(v, p), context |-> FALSE, kind |-> "value",
                               body |-> <<k>>, start |-> r, next |-> at + s]
      <3> HIDE DEF number, length, start
      <3>1. QED
        BY <1>12, <1>13, <2>2, Zenon DEF k
    <2>4. follows(data, r) =
            [number |-> number(v, p), context |-> context(f), kind |-> kind(f),
             body |-> Slice(data, at + s, (at + s) + k - 1), start |-> r, next |-> (at + s) + k]
      <3> HIDE DEF number, length, start, kind, context
      <3>1. QED
        BY <1>5, <1>12, <1>13, <2>2, ZenonT(60) DEF k
    <2> HIDE DEF inHeader, follows, number, context
    <2>5. read_tag(data, r) = IF ValueInHeader(number(v, p), context(f)) THEN inHeader(data, r)
                              ELSE follows(data, r)
      BY <1>1, <1>5, <1>12, <2>1, Zenon
    <2> HIDE DEF s, k, start, length, kind
    <2>6. CASE ValueInHeader(number(v, p), context(f))
      BY <2>3, <2>5, <2>6, Zenon
    <2>7. CASE ~ValueInHeader(number(v, p), context(f))
      BY <2>4, <2>5, <2>7, Zenon
    <2>8. QED
      BY <2>6, <2>7, Zenon
  <1>17. start(v, p) = s
    BY <1>8, Zenon
  <1>18. r = at + p
    OBVIOUS
  <1> HIDE DEF extended, context, after, number, kind, lengths, wide, start, length, a, l, w, s, k, r
  <1>19. CASE ValueInHeader(number(v, p), context(f))
    <2>1. read_tag(v, p) = [number |-> number(v, p), context |-> FALSE, kind |-> "value",
                            body |-> <<k>>, start |-> p, next |-> s]
      BY <1>14, <1>17, <1>19, Zenon DEF k
    <2>2. read_tag(data, at + p) = [number |-> number(v, p), context |-> FALSE, kind |-> "value",
                                    body |-> <<k>>, start |-> at + p, next |-> at + s]
      BY <1>16, <1>18, <1>19, Zenon
    <2>3. read_tag(data, at + p) = Moved(read_tag(v, p), at)
      BY <2>1, <2>2 DEF Moved
    <2>4. read_tag(v, p).kind = "value"
      BY <2>1
    <2>5. SameHeader(read_tag(data, at + p), read_tag(v, p), at)
      <3> DEFINE tag == read_tag(v, p)
                 held == read_tag(data, at + p)
      <3>1. /\ tag.number = number(v, p) /\ tag.kind = "value" /\ tag.start = p /\ tag.next = s
            /\ held.number = number(v, p) /\ held.kind = "value" /\ held.start = at + p /\ held.next = at + s
        BY <2>1, <2>2
      <3>2. held = Moved(tag, at)
        BY <2>3, Zenon
      <3> HIDE DEF tag, held
      <3>3. held.context = tag.context
        BY <3>2 DEF Moved
      <3>4. SameHeader(held, tag, at)
        BY <3>1, <3>3, Zenon DEF SameHeader
      <3>5. QED
        BY <3>4, Zenon DEF tag, held
    <2>6. QED
      BY <2>3, <2>4, <2>5, Zenon DEF HeaderHeld
  <1>20. CASE ~ValueInHeader(number(v, p), context(f))
    <2>1. read_tag(v, p) = [number |-> number(v, p), context |-> context(f), kind |-> kind(f),
                            body |-> Slice(v, s, s + k - 1), start |-> p, next |-> s + k]
      BY <1>14, <1>17, <1>20, Zenon DEF f, k
    <2>2. k \in Nat
      <3>1. /\ n \in Nat /\ a \in Nat /\ l \in {0, 1} /\ w \in {0, 2, 4} /\ (w # 0 => l = 1)
            /\ a + l + w <= n + 1
        BY <1>2, <1>6, <1>7, <1>15 DEF s
      <3> DEFINE octets == SubSeq(v, a + 1, a + w)
      <3>2. FromBytes(octets) \in Nat
        <4>1. octets \in Seq(Nat)
          <5>1. \A i \in a + 1 .. a + w : v[i] \in Nat
            BY <1>2, <3>1
          <5>2. a + 1 \in Int /\ a + w \in Int
            BY <3>1
          <5>3. QED
            BY <5>1, <5>2, SubSeqProperties
        <4> HIDE DEF octets
        <4>2. QED
          BY <4>1, FromBytesNat
      <3>3. l = 1 => v[a] \in Nat
        BY <1>2, <3>1, <1>6
      <3>4. f % 8 \in Nat
        BY <1>5
      <3>5. k = IF kind(f) # "value" THEN 0
                ELSE IF w > 0 THEN FromBytes(octets) ELSE IF l = 1 THEN v[a] ELSE f % 8
        BY Zenon DEF k, length, w, a, l, f
      <3> HIDE DEF octets
      <3>6. QED
        BY <3>2, <3>3, <3>4, <3>5
    <2> DEFINE to == s + k - 1
    <2>3. kind(f) # "value" => k = 0
      <3>1. k = IF kind(f) # "value" THEN 0
                ELSE IF w > 0 THEN FromBytes(SubSeq(v, a + 1, a + w)) ELSE IF l = 1 THEN v[a] ELSE f % 8
        BY Zenon DEF k, length, w, a, l, f
      <3>2. QED
        BY <3>1, Zenon
    <2>4. s \in Nat /\ s >= 1 /\ (at + s) + k - 1 = at + to /\ (at + s) + k = at + (s + k)
      BY <1>2, <1>15, <2>2
    <2>5. read_tag(v, p) = [number |-> number(v, p), context |-> context(f), kind |-> kind(f),
                            body |-> Slice(v, s, to), start |-> p, next |-> s + k]
      BY <2>1, Zenon DEF to
    <2> HIDE DEF to
    <2>6. read_tag(data, at + p) =
            [number |-> number(v, p), context |-> context(f), kind |-> kind(f),
             body |-> Slice(data, at + s, at + to), start |-> at + p, next |-> at + (s + k)]
      BY <1>16, <1>18, <1>20, <2>4, Zenon
    <2>7. SameHeader(read_tag(data, at + p), read_tag(v, p), at)
      BY <2>5, <2>6 DEF SameHeader
    <2>8. read_tag(v, p).kind # "value" => read_tag(v, p).next <= n + 1
      <3>1. read_tag(v, p).kind = kind(f) /\ read_tag(v, p).next = s + k
        BY <2>5
      <3>2. k = 0 => s + k <= n + 1
        BY <1>15
      <3>3. QED
        BY <2>3, <3>1, <3>2, Zenon
    <2>9. ASSUME read_tag(v, p).next <= n + 1 PROVE read_tag(data, at + p) = Moved(read_tag(v, p), at)
      <3>1. s + k <= n + 1
        <4>1. read_tag(v, p).next = s + k
          BY <2>5
        <4>2. QED
          BY <2>9, <4>1, Zenon
      <3>2. to \in Int /\ to <= n /\ s <= to + 1
        BY <1>2, <1>15, <2>2, <3>1 DEF to
      <3>3. Slice(data, at + s, at + to) = Slice(v, s, to)
        BY <2>4, <3>2, PartMoved, ZenonT(60) DEF n
      <3>4. QED
        BY <2>5, <2>6, <3>3 DEF Moved
    <2>10. QED
      BY <2>7, <2>8, <2>9, Zenon DEF HeaderHeld, n
  <1>21. QED
    BY <1>18, <1>19, <1>20, Zenon

\* A tag within a part of a datagram is the tag of that part.
LEMMA ReadTagMoved ==
    ASSUME NEW data \in Octets, NEW v \in Octets, NEW at \in Nat, Holds(data, at, v),
           NEW p \in 1..Len(v), read_tag(v, p) # Raised, read_tag(v, p).next <= Len(v) + 1
    PROVE  read_tag(data, at + p) = Moved(read_tag(v, p), at)
  BY ReadTagHeld, Zenon DEF HeaderHeld

\* The tags of the octets from a place on are all there, the last one too.
Whole(v, p) ==
    \A i \in 1..Len(Tags(v, p)) : Tags(v, p)[i] # Raised /\ Tags(v, p)[i].next <= Len(v) + 1
MovedTags(tags, at) == [i \in 1..Len(tags) |-> Moved(tags[i], at)]

\* The first of the tags that are all there, and the others.
LEMMA WholeStep ==
    ASSUME NEW v \in Octets, NEW p \in 1..Len(v), Whole(v, p)
    PROVE  /\ read_tag(v, p) # Raised /\ read_tag(v, p).kind # "raise"
           /\ read_tag(v, p).next \in Nat /\ read_tag(v, p).next > p
           /\ read_tag(v, p).next <= Len(v) + 1
           /\ Tags(v, p) = <<read_tag(v, p)>> \o Tags(v, read_tag(v, p).next)
           /\ Whole(v, read_tag(v, p).next)
  <1> DEFINE tag == read_tag(v, p)
             n == Len(v)
             rest == Tags(v, tag.next)
  <1>1. n \in Nat /\ p \in Place /\ ~(p > n) /\ p \in Nat
    BY OctetsAre DEF Place
  <1>2. Tags(v, p) = IF p > n THEN <<>> ELSE IF tag.kind = "raise" THEN <<tag>> ELSE <<tag>> \o rest
    BY <1>1, TagsFrom, Zenon
  <1>3. Tags(v, p) \in Seq(AllTags(v)) /\ tag \in AllTags(v)
    BY <1>1, TagsFrom, Zenon DEF AllTags
  <1>4. tag # Raised
    <2>1. SUFFICES ASSUME tag = Raised PROVE FALSE
      BY Zenon
    <2>2. Tags(v, p) = <<tag>>
      <3>1. tag.kind = "raise"
        BY <2>1 DEF Raised
      <3>2. QED
        BY <1>1, <1>2, <3>1, Zenon
    <2> HIDE DEF tag
    <2>3. 1 \in 1..Len(Tags(v, p)) /\ Tags(v, p)[1] = tag
      BY <2>2
    <2>4. QED
      BY <2>1, <2>3, Zenon DEF Whole
  <1>5. tag.kind # "raise" /\ tag.next \in Nat /\ tag.next > p
    BY <1>4, ReadTag
  <1>6. Tags(v, p) = <<tag>> \o rest
    BY <1>1, <1>2, <1>5, Zenon
  <1>7. rest \in Seq(AllTags(v))
    <2>1. tag.next \in Place
      BY <1>1, <1>5 DEF Place
    <2>2. QED
      BY <2>1, TagsFrom, Zenon
  <1> HIDE DEF tag, rest
  <1>8. /\ Len(Tags(v, p)) = 1 + Len(rest) /\ Len(rest) \in Nat
        /\ Tags(v, p)[1] = tag /\ \A i \in 1..Len(rest) : Tags(v, p)[1 + i] = rest[i]
    BY <1>3, <1>6, <1>7
  <1>9. tag.next <= n + 1
    <2>1. 1 \in 1..Len(Tags(v, p))
      BY <1>8
    <2>2. QED
      BY <1>8, <2>1, Zenon DEF Whole
  <1>10. \A i \in 1..Len(rest) : rest[i] # Raised /\ rest[i].next <= n + 1
    <2>1. TAKE i \in 1..Len(rest)
    <2>2. 1 + i \in 1..Len(Tags(v, p))
      BY <1>8
    <2>3. QED
      BY <1>8, <2>2, Zenon DEF Whole
  <1>11. Whole(v, tag.next)
    BY <1>10, Zenon DEF Whole, rest, n
  <1>12. QED
    BY <1>4, <1>5, <1>6, <1>9, <1>11, Zenon DEF tag, rest, n

\* Octets whose tags are all there are read within a datagram as they are alone,
\* and the tags after them as if they started there.
LEMMA TagsMovedFrom ==
    ASSUME NEW data \in Octets, NEW v \in Octets, NEW at \in Nat, Holds(data, at, v)
    PROVE  \A p \in 1..Len(v) + 1 : Whole(v, p) =>
             Tags(data, at + p) = MovedTags(Tags(v, p), at) \o Tags(data, (at + Len(v)) + 1)
  <1> DEFINE n == Len(v)
             after == (at + n) + 1
             rest == Tags(data, after)
             T == AllTags(data) \cup {Moved(t, at) : t \in AllTags(v)}
             Claim(q) == Tags(data, at + q) = MovedTags(Tags(v, q), at) \o rest
             S == {k \in 0..n : \A q \in 1..n + 1 : q >= n + 1 - k /\ Whole(v, q) => Claim(q)}
  <1>1. n \in Nat /\ Len(data) \in Nat /\ at + n <= Len(data)
    BY OctetsAre, Zenon DEF Holds
  <1>2. after \in Place /\ \A q \in 1..n + 1 : q \in Place /\ at + q \in Place
    BY <1>1 DEF Place
  <1>3. rest \in Seq(T)
    <2>1. rest \in Seq(AllTags(data))
      BY <1>2, TagsFrom, Zenon
    <2> HIDE DEF rest
    <2>2. QED
      BY <2>1
  <1>4. ASSUME NEW q \in 1..n + 1 PROVE MovedTags(Tags(v, q), at) \in Seq(T)
    <2> DEFINE tags == Tags(v, q)
    <2>1. tags \in Seq(AllTags(v))
      BY <1>2, TagsFrom, Zenon
    <2> HIDE DEF tags
    <2>2. \A i \in 1..Len(tags) : Moved(tags[i], at) \in T
      BY <2>1
    <2> HIDE DEF T
    <2>3. [i \in 1..Len(tags) |-> Moved(tags[i], at)] \in Seq(T)
      BY <2>1, <2>2
    <2>4. QED
      BY <2>3, Zenon DEF MovedTags, tags
  <1> HIDE DEF T
  <1>5. 0 \in S
    <2>1. ASSUME NEW q \in 1..n + 1, q >= n + 1 - 0 PROVE Claim(q)
      <3>1. q = n + 1 /\ q > n /\ at + q = after /\ q \in Place
        BY <1>1, <1>2, <2>1
      <3> HIDE DEF after, n
      <3>2. Tags(v, q) = <<>>
        BY <3>1, TagsFrom, Zenon DEF n
      <3>3. MovedTags(Tags(v, q), at) = <<>>
        BY <3>2 DEF MovedTags
      <3> HIDE DEF rest
      <3>4. <<>> \o rest = rest
        BY <1>3
      <3>5. QED
        BY <3>1, <3>3, <3>4, Zenon DEF rest
    <2> HIDE DEF Claim
    <2>2. QED
      BY <1>1, <2>1
  <1>6. ASSUME NEW k \in 0..n, k < n, k \in S PROVE k + 1 \in S
    <2>1. \A q \in 1..n + 1 : q >= n + 1 - k /\ Whole(v, q) => Claim(q)
      BY <1>6
    <2>2. ASSUME NEW q \in 1..n + 1, q >= n + 1 - (k + 1), Whole(v, q), ~(q >= n + 1 - k) PROVE Claim(q)
      <3>1. q \in 1..n
        BY <1>1, <1>6, <2>2
      <3> DEFINE tag == read_tag(v, q)
                 next == tag.next
                 others == Tags(v, next)
                 moved == MovedTags(others, at)
      <3>2. /\ tag # Raised /\ tag.kind # "raise" /\ next \in Nat /\ next > q /\ next <= n + 1
            /\ Tags(v, q) = <<tag>> \o others /\ Whole(v, next)
        BY <2>2, <3>1, WholeStep, Zenon
      <3>3. read_tag(data, at + q) = Moved(tag, at)
        BY <3>1, <3>2, ReadTagMoved, Zenon
      <3> HIDE DEF tag
      <3>4. next \in 1..n + 1 /\ next >= n + 1 - k
        <4> HIDE DEF next
        <4>1. QED
          BY <1>1, <1>6, <2>2, <3>2
      <3>5. Claim(next)
        BY <2>1, <3>2, <3>4, Zenon
      <3>6. /\ Moved(tag, at).kind = tag.kind /\ Moved(tag, at).next = at + next
        BY DEF Moved
      <3>7. Tags(data, at + q) = <<Moved(tag, at)>> \o Tags(data, at + next)
        <4>1. ~(at + q > Len(data))
          BY <1>1, <3>1
        <4>2. at + q \in Place
          BY <1>2, Zenon
        <4>3. Tags(data, at + q) = IF at + q > Len(data) THEN <<>>
                ELSE IF read_tag(data, at + q).kind = "raise" THEN <<read_tag(data, at + q)>>
                ELSE <<read_tag(data, at + q)>> \o Tags(data, read_tag(data, at + q).next)
          BY <4>2, TagsFrom, Zenon
        <4>4. QED
          BY <3>2, <3>3, <3>6, <4>1, <4>3, Zenon
      <3>8. Tags(data, at + q) = <<Moved(tag, at)>> \o (moved \o rest)
        BY <3>5, <3>7, Zenon
      <3>9. moved \in Seq(T)
        BY <1>4, <3>4, Zenon
      <3>10. others \in Seq(AllTags(v)) /\ tag \in AllTags(v)
        <4>1. next \in Place /\ Len(v) \in Nat
          BY <1>1, <3>2, <3>4 DEF Place
        <4>2. others \in Seq(AllTags(v))
          BY <4>1, TagsFrom, Zenon
        <4>3. QED
          BY <3>1, <4>2, Zenon DEF AllTags, tag
      <3> HIDE DEF others, rest
      <3>11. MovedTags(<<tag>> \o others, at) = <<Moved(tag, at)>> \o moved
        <4> DEFINE both == <<tag>> \o others
                   a == MovedTags(both, at)
                   b == <<Moved(tag, at)>> \o moved
        <4>1. /\ both \in Seq(AllTags(v)) /\ Len(both) = 1 + Len(others) /\ Len(others) \in Nat
              /\ both[1] = tag /\ \A i \in 2..Len(both) : both[i] = others[i - 1]
          BY <3>10
        <4>2. /\ Len(moved) = Len(others)
              /\ \A i \in 1..Len(others) : moved[i] = Moved(others[i], at)
          BY <4>1, <3>10 DEF MovedTags
        <4>3. Moved(tag, at) \in T
          BY <3>10 DEF T
        <4> HIDE DEF both, moved
        <4>4. /\ Len(b) = 1 + Len(others) /\ b \in Seq(T)
              /\ b[1] = Moved(tag, at) /\ \A i \in 2..Len(b) : b[i] = moved[i - 1]
          BY <3>9, <4>1, <4>2, <4>3
        <4>5. /\ Len(a) = Len(both) /\ DOMAIN a = 1..Len(both)
              /\ \A i \in 1..Len(both) : a[i] = Moved(both[i], at)
          BY <4>1 DEF MovedTags
        <4>6. \A i \in 1..Len(both) : a[i] = b[i]
          <5>1. TAKE i \in 1..Len(both)
          <5>2. CASE i = 1
            BY <4>1, <4>4, <4>5, <5>2
          <5>3. CASE i # 1
            <6>1. i \in 2..Len(both) /\ i \in 2..Len(b) /\ i - 1 \in 1..Len(others)
              BY <4>1, <4>4, <5>3
            <6>2. both[i] = others[i - 1] /\ b[i] = moved[i - 1] /\ moved[i - 1] = Moved(others[i - 1], at)
              BY <4>1, <4>2, <4>4, <6>1, Zenon
            <6>3. QED
              BY <4>5, <6>2, Zenon
          <5>4. QED
            BY <5>2, <5>3
        <4>7. a \in Seq(T)
          <5>1. \A i \in 1..Len(both) : a[i] \in T
            BY <4>1, <4>4, <4>6
          <5>2. a = [i \in 1..Len(both) |-> Moved(both[i], at)]
            BY Zenon DEF MovedTags
          <5> HIDE DEF a
          <5>3. QED
            BY <4>1, <4>5, <5>1, <5>2
        <4> HIDE DEF a, b
        <4>8. a = b
          BY <4>1, <4>4, <4>5, <4>6, <4>7, SeqEqual
        <4>9. QED
          BY <4>8, Zenon DEF a, b, both
      <3>12. <<Moved(tag, at)>> \o (moved \o rest) = (<<Moved(tag, at)>> \o moved) \o rest
        <4>1. <<Moved(tag, at)>> \in Seq(T)
          BY <3>10 DEF T
        <4> HIDE DEF moved
        <4>2. QED
          BY <1>3, <3>9, <4>1, Regrouped, SMTT(30)
      <3>13. QED
        BY <3>2, <3>8, <3>11, <3>12, Zenon
    <2> HIDE DEF Claim
    <2>3. QED
      BY <1>1, <1>6, <2>1, <2>2
  <1>7. \A k \in 0..n : k \in S
    <2> HIDE DEF S, n
    <2>1. QED
      BY <1>1, <1>5, <1>6, UpTo
  <1>8. ASSUME NEW p \in 1..Len(v) + 1, Whole(v, p) PROVE Claim(p)
    <2> HIDE DEF Claim
    <2>1. n \in S /\ p \in 1..n + 1 /\ p >= n + 1 - n /\ Whole(v, p)
      BY <1>1, <1>7, <1>8
    <2>2. QED
      BY <2>1
  <1>9. QED
    BY <1>8, Zenon

\* All the tags of octets that another sequence holds.
LEMMA TagsMoved ==
    ASSUME NEW data \in Octets, NEW v \in Octets, NEW at \in Nat, Holds(data, at, v), Whole(v, 1)
    PROVE  Tags(data, at + 1) = MovedTags(Tags(v, 1), at) \o Tags(data, (at + Len(v)) + 1)
  <1>1. 1 \in 1..Len(v) + 1
    BY OctetsAre
  <1>2. QED
    BY <1>1, TagsMovedFrom, Zenon

\* Octets whose tags are all there, one after the other: the tags of the first and,
\* further on, those of the second.
LEMMA TagsJoined ==
    ASSUME NEW a \in Octets, NEW b \in Octets, Whole(a, 1), Whole(b, 1)
    PROVE  Tags(a \o b, 1) = MovedTags(Tags(a, 1), 0) \o MovedTags(Tags(b, 1), Len(a))
  <1> DEFINE ab == a \o b
             m == Len(a)
             n == Len(b)
             A == MovedTags(Tags(a, 1), 0)
             B == MovedTags(Tags(b, 1), m)
  <1>1. ab \in Octets /\ Len(ab) = m + n /\ Holds(ab, 0, a) /\ Holds(ab, m, b) /\ m \in Nat /\ n \in Nat
    BY HoldsAfter, Zenon
  <1> HIDE DEF ab
  <1>2. Tags(ab, 0 + 1) = A \o Tags(ab, (0 + m) + 1)
    <2>1. 0 \in Nat
      OBVIOUS
    <2>2. QED
      BY <1>1, <2>1, TagsMoved, Zenon
  <1>3. Tags(ab, m + 1) = B \o Tags(ab, (m + n) + 1)
    BY <1>1, TagsMoved, Zenon
  <1>4. Tags(ab, (m + n) + 1) = <<>>
    BY <1>1, TagsEnd, Zenon
  <1>5. B \o <<>> = B
    <2> DEFINE T == Tags(b, 1)
               S == {Moved(tag, m) : tag \in AllTags(b)}
    <2>1. T \in Seq(AllTags(b))
      <3>1. 1 \in Place
        BY DEF Place
      <3>2. QED
        BY <3>1, TagsFrom, Zenon
    <2> HIDE DEF T
    <2>2. B = [i \in 1..Len(T) |-> Moved(T[i], m)]
      BY Zenon DEF MovedTags, T
    <2>3. \A i \in 1..Len(T) : Moved(T[i], m) \in S
      BY <2>1
    <2> HIDE DEF S, B
    <2>4. B \in Seq(S)
      BY <2>1, <2>2, <2>3
    <2>5. QED
      BY <2>4
  <1>6. 0 + 1 = 1 /\ 0 + m = m
    BY <1>1
  <1> HIDE DEF A, B
  <1>7. QED
    BY <1>2, <1>3, <1>4, <1>5, <1>6, Zenon DEF ab, A, B

-----------------------------------------------------------------------------
(* The elements of a value                                                  *)

\* A value is read as the elements it was put together from.
ElementAt(v, tag, element) ==
    /\ tag # Raised /\ tag.kind = "value" /\ tag.start \in Nat /\ tag.start >= 1 /\ tag.next \in Nat
    /\ tag.start <= tag.next /\ tag.next <= Len(v) + 1
    /\ Slice(v, tag.start, tag.next - 1) = element
Elements(v, seqs, k) ==
    /\ v \in Octets /\ Len(Tags(v, 1)) = k
    /\ \A i \in 1..k : ElementAt(v, Tags(v, 1)[i], seqs[i])

\* The tags of the octets that hold a value are the value's elements further on.
LEMMA ElementMoved ==
    ASSUME NEW data \in Octets, NEW v \in Octets, NEW at \in Nat, Holds(data, at, v),
           NEW tag, NEW element, ElementAt(v, tag, element)
    PROVE  ElementAt(data, Moved(tag, at), element)
  <1> DEFINE s == tag.start
             e == tag.next - 1
             t == Moved(tag, at)
             n == Len(v)
  <1>1. s \in Nat /\ s >= 1 /\ e \in Int /\ s <= e + 1 /\ e <= n /\ n \in Nat /\ e + 1 = tag.next
    BY OctetsAre DEF ElementAt
  <1>2. at + n <= Len(data) /\ Len(data) \in Nat
    BY OctetsAre, Zenon DEF Holds
  <1>3. t.kind = "value" /\ t.start = at + s /\ t.next = at + (e + 1) /\ t.kind # "raise"
    BY <1>1 DEF Moved, ElementAt
  <1>4. t # Raised
    BY <1>3 DEF Raised
  <1> HIDE DEF t, s, e
  <1>5. /\ at + s \in Nat /\ at + s >= 1 /\ at + (e + 1) \in Nat /\ at + s <= at + (e + 1)
        /\ at + (e + 1) <= Len(data) + 1 /\ at + (e + 1) - 1 = at + e
    BY <1>1, <1>2
  <1>6. Slice(data, at + s, at + e) = Slice(v, s, e)
    BY <1>1, PartMoved, ZenonT(60) DEF n
  <1>7. Slice(v, s, e) = element
    BY Zenon DEF ElementAt, s, e
  <1>8. /\ t.start \in Nat /\ t.start >= 1 /\ t.next \in Nat /\ t.start <= t.next
        /\ t.next <= Len(data) + 1
    BY <1>3, <1>5
  <1>9. t.start = at + s /\ t.next - 1 = at + e
    BY <1>1, <1>3
  <1>10. Slice(data, t.start, t.next - 1) = element
    BY <1>6, <1>7, <1>9, Zenon
  <1>11. t.kind = "value"
    BY <1>3
  <1>12. ElementAt(data, t, element)
    BY <1>4, <1>8, <1>10, <1>11, Zenon DEF ElementAt
  <1>13. QED
    BY <1>12, Zenon DEF t

\* A primitive is its one element.
LEMMA PrimitiveElement ==
    ASSUME NEW element \in Octets, Primitive(element)
    PROVE  ElementAt(element, Tags(element, 1)[1], element) /\ Len(Tags(element, 1)) = 1
  <1> DEFINE tags == Tags(element, 1)
             tag == tags[1]
             n == Len(element)
  <1>1. Len(tags) = 1 /\ tag.kind = "value" /\ tag.next = n + 1
    BY Zenon DEF Primitive
  <1>2. n \in Nat
    BY OctetsAre
  <1>3. tags = IF 1 > n THEN <<>> ELSE IF read_tag(element, 1).kind = "raise" THEN <<read_tag(element, 1)>>
               ELSE <<read_tag(element, 1)>> \o Tags(element, read_tag(element, 1).next)
    <2>1. 1 \in Place
      BY DEF Place
    <2>2. QED
      BY <2>1, TagsFrom, Zenon
  <1>4. ~(1 > n)
    BY <1>1, <1>3
  <1> DEFINE r == read_tag(element, 1)
             others == Tags(element, r.next)
  <1>5. tag = r
    <2>1. CASE r.kind = "raise"
      <3>1. tags = <<r>>
        BY <1>3, <1>4, <2>1, Zenon
      <3> HIDE DEF tags, r
      <3>2. QED
        BY <3>1
    <2>2. CASE r.kind # "raise"
      <3>1. tags = <<r>> \o others
        BY <1>3, <1>4, <2>2, Zenon
      <3>2. r \in AllTags(element) /\ 1 \in 1..n
        BY <1>2, <1>4 DEF AllTags
      <3>3. r # Raised
        BY <2>2 DEF Raised
      <3>4. r.next \in Place
        BY <3>2, <3>3, ReadTag DEF Place
      <3>5. others \in Seq(AllTags(element))
        BY <3>4, TagsFrom, Zenon
      <3> HIDE DEF tags, r, others
      <3>6. (<<r>> \o others)[1] = r
        BY <3>2, <3>5
      <3>7. QED
        BY <3>1, <3>6, Zenon
    <2>3. QED
      BY <2>1, <2>2
  <1>6. tag # Raised /\ r # Raised
    BY <1>1, <1>5 DEF Raised
  <1>7. tag.start = 1
    <2>1. 1 \in 1..n
      BY <1>2, <1>4
    <2>2. r.start = 1
      BY <1>6, <2>1, ReadTag, Zenon
    <2>3. QED
      BY <1>5, <2>2
  <1> HIDE DEF tag, tags, r
  <1>8. Slice(element, 1, n) = element
    <2>1. Slice(element, 1, n) = SubSeq(element, 1, n)
      BY <1>2, Smaller DEF Slice
    <2>2. SubSeq(element, 1, n) = element
      BY DEF Octets
    <2>3. QED
      BY <2>1, <2>2
  <1>9. /\ tag.start \in Nat /\ tag.start >= 1 /\ tag.next \in Nat /\ tag.start <= tag.next
        /\ tag.next <= n + 1 /\ tag.next - 1 = n
    BY <1>1, <1>2, <1>7
  <1>10. Slice(element, tag.start, tag.next - 1) = element
    BY <1>7, <1>8, <1>9, Zenon
  <1>11. QED
    BY <1>1, <1>6, <1>9, <1>10, Zenon DEF ElementAt, tag, tags, n

\* Where there are elements no tag is cut short.
LEMMA ElementsWhole ==
    ASSUME NEW v, NEW seqs, NEW k, Elements(v, seqs, k)
    PROVE  Whole(v, 1) /\ \A i \in 1..k : Tags(v, 1)[i].kind = "value"
  BY Zenon DEF Elements, ElementAt, Whole

\* One element more.
LEMMA ElementAdded ==
    ASSUME NEW v, NEW seqs, NEW k \in Nat, Elements(v, seqs, k),
           NEW element \in Octets, Primitive(element), seqs[k + 1] = element
    PROVE  Elements(v \o element, seqs, k + 1)
  <1> DEFINE both == v \o element
             n == Len(v)
             VT == Tags(v, 1)
             ET == Tags(element, 1)
             A == MovedTags(VT, 0)
             B == MovedTags(ET, n)
             tags == Tags(both, 1)
  <1>1. v \in Octets /\ Len(VT) = k /\ \A i \in 1..k : ElementAt(v, VT[i], seqs[i])
    BY Zenon DEF Elements
  <1>2. ElementAt(element, ET[1], element) /\ Len(ET) = 1
    BY PrimitiveElement, Zenon
  <1>3. Whole(v, 1) /\ Whole(element, 1)
    <2>1. 1 \in 1..1 /\ \A i \in 1..1 : i = 1
      OBVIOUS
    <2>2. Whole(element, 1)
      BY <1>2, <2>1, Zenon DEF Whole, ElementAt
    <2>3. QED
      BY <2>2, ElementsWhole, Zenon
  <1>4. tags = A \o B
    BY <1>1, <1>3, TagsJoined, Zenon
  <1>5. both \in Octets /\ Holds(both, 0, v) /\ Holds(both, n, element) /\ n \in Nat /\ 0 \in Nat
    <2>1. both \in Octets /\ Holds(both, 0, v) /\ Holds(both, n, element) /\ n \in Nat
      BY <1>1, HoldsAfter, Zenon
    <2>2. QED
      BY <2>1
  <1> HIDE DEF both
  <1>6. \A i \in 1..k : ElementAt(both, Moved(VT[i], 0), seqs[i])
    BY <1>1, <1>5, ElementMoved, Zenon
  <1>7. ElementAt(both, Moved(ET[1], n), element)
    BY <1>2, <1>5, ElementMoved, Zenon
  <1> DEFINE S == {Moved(VT[i], 0) : i \in 1..k} \cup {Moved(ET[1], n)}
  <1>8. /\ A \in Seq(S) /\ Len(A) = k /\ \A i \in 1..k : A[i] = Moved(VT[i], 0)
        /\ B \in Seq(S) /\ Len(B) = 1 /\ B[1] = Moved(ET[1], n)
    <2>1. A = [i \in 1..k |-> Moved(VT[i], 0)] /\ B = [i \in 1..1 |-> Moved(ET[i], n)]
      BY <1>1, <1>2, Zenon DEF MovedTags
    <2>2. \A i \in 1..k : Moved(VT[i], 0) \in S
      OBVIOUS
    <2>3. \A i \in 1..1 : Moved(ET[i], n) \in S
      OBVIOUS
    <2> HIDE DEF A, B, VT, ET, S
    <2>4. QED
      BY <2>1, <2>2, <2>3
  <1> HIDE DEF A, B, S, tags
  <1>9. /\ Len(tags) = k + 1 /\ \A i \in 1..k : tags[i] = Moved(VT[i], 0)
        /\ tags[k + 1] = Moved(ET[1], n)
    <2> HIDE DEF VT, ET
    <2>1. Len(A \o B) = k + 1 /\ (A \o B)[k + 1] = B[1] /\ \A i \in 1..k : (A \o B)[i] = A[i]
      <3>1. A \in Seq(S) /\ B \in Seq(S) /\ Len(A) = k /\ Len(B) = 1
        BY <1>8
      <3> DEFINE C == A \o B
      <3>2. /\ Len(C) = k + 1
            /\ \A i \in 1..k + 1 : C[i] = IF i <= k THEN A[i] ELSE B[i - k]
        BY <3>1, ConcatProperties
      <3> HIDE DEF C
      <3>3. k + 1 \in 1..k + 1 /\ ~(k + 1 <= k) /\ (k + 1) - k = 1
        OBVIOUS
      <3>4. C[k + 1] = B[1]
        BY <3>2, <3>3, Zenon
      <3>5. \A i \in 1..k : C[i] = A[i]
        BY <3>2
      <3>6. QED
        BY <3>2, <3>4, <3>5, Zenon DEF C
    <2>2. QED
      BY <1>4, <1>8, <2>1, Zenon
  <1>10. ASSUME NEW i \in 1..k + 1 PROVE ElementAt(both, tags[i], seqs[i])
    <2>1. CASE i \in 1..k
      BY <1>6, <1>9, <2>1, Zenon
    <2>2. CASE i \notin 1..k
      <3>1. i = k + 1
        BY <2>2
      <3>2. QED
        BY <1>7, <1>9, <3>1, Zenon
    <2>3. QED
      BY <2>1, <2>2
  <1>11. QED
    BY <1>5, <1>9, <1>10, Zenon DEF Elements, tags, both

\* What primitives are put together to is read as those elements.
LEMMA ElementsRead ==
    ASSUME NEW seqs \in Seq(Octets), \A i \in 1..Len(seqs) : Primitive(seqs[i])
    PROVE  Elements(FlattenSeq(seqs), seqs, Len(seqs))
  <1> DEFINE n == Len(seqs)
  <1>1. n \in Nat /\ \A i \in 1..n : seqs[i] \in Octets
    OBVIOUS
  <1>2. Elements(<<>>, seqs, 0)
    <2>1. <<>> \in Octets /\ Len(<<>>) = 0 /\ 0 + 1 = 1
      BY OctetsAre
    <2>2. Tags(<<>>, Len(<<>>) + 1) = <<>>
      BY <2>1, TagsEnd, Zenon
    <2>3. Tags(<<>>, 1) = <<>>
      BY <2>1, <2>2, Zenon
    <2>4. \A i \in 1..0 : FALSE
      OBVIOUS
    <2>5. QED
      BY <2>1, <2>3, <2>4, Zenon DEF Elements
  <1>3. CASE n = 0
    <2>1. seqs = << >> /\ FlattenSeq(seqs) = seqs
      BY <1>3 DEF FlattenSeq
    <2>2. QED
      BY <1>2, <1>3, <2>1, Zenon
  <1>4. CASE n # 0
    <2>1. PICK f : /\ FlattenSeq(seqs) = f[n]
                   /\ \A i \in 1..n : f[i] \in Octets /\ f[i] = IF i = 1 THEN seqs[i] ELSE f[i-1] \o seqs[i]
      BY <1>4, FlattenLoop, Zenon
    <2> DEFINE S == {k \in 0..n - 1 : Elements(f[k + 1], seqs, k + 1)}
    <2>2. 0 \in S
      <3>1. 1 \in 1..n /\ 0 \in 0..n - 1 /\ 0 + 1 = 1 /\ 0 \in Nat
        BY <1>1, <1>4
      <3>2. <<>> \o seqs[1] = seqs[1] /\ f[1] = seqs[1]
        BY <1>1, <2>1, <3>1 DEF Octets
      <3>3. Elements(<<>> \o seqs[1], seqs, 0 + 1)
        BY <1>1, <1>2, <3>1, ElementAdded, Zenon
      <3>4. Elements(f[0 + 1], seqs, 0 + 1)
        BY <3>1, <3>2, <3>3, Zenon
      <3>5. QED
        BY <3>1, <3>4
    <2>3. ASSUME NEW k \in 0..n - 1, k < n - 1, k \in S PROVE k + 1 \in S
      <3>1. /\ (k + 1) + 1 \in 1..n /\ (k + 1) + 1 # 1 /\ ((k + 1) + 1) - 1 = k + 1
            /\ k + 1 \in Nat /\ k + 1 \in 0..n - 1
        BY <1>1, <2>3
      <3> DEFINE j == (k + 1) + 1
      <3>2. f[j] = f[k + 1] \o seqs[j]
        BY <2>1, <3>1
      <3>3. Elements(f[k + 1], seqs, k + 1)
        BY <2>3
      <3>4. Elements(f[k + 1] \o seqs[j], seqs, j)
        BY <1>1, <3>1, <3>3, ElementAdded, Zenon
      <3>5. QED
        BY <3>1, <3>2, <3>4
    <2>4. \A k \in 0..n - 1 : k \in S
      <3>1. n - 1 \in Nat
        BY <1>1, <1>4
      <3> HIDE DEF S, n
      <3>2. QED
        BY <2>2, <2>3, <3>1, UpTo
    <2>5. n - 1 \in 0..n - 1 /\ (n - 1) + 1 = n
      BY <1>1, <1>4
    <2>6. n - 1 \in S
      BY <2>4, <2>5
    <2>7. Elements(f[n], seqs, n)
      BY <2>5, <2>6
    <2>8. QED
      BY <2>1, <2>7, Zenon
  <1>5. QED
    BY <1>3, <1>4

-----------------------------------------------------------------------------
(* Application tags                                                         *)

Lengths == {0, 1, 2, 3, 4}
KindOf(lvt) == IF lvt = 6 THEN "open" ELSE IF lvt = 7 THEN "close" ELSE "value"
SizeOf(lvt) == IF lvt \in {6, 7} THEN 0 ELSE lvt

\* read_tag on the first octet of a tag whose header is that octet: a context tag or
\* an application tag of up to four octets, an opening tag or a closing tag.
LEMMA ShortTagRead ==
    ASSUME NEW data \in Octets, NEW position \in 1..Len(data), NEW tag \in Nat, tag <= 14,
           NEW class \in {0, 8}, NEW lvt \in Lengths \cup {6, 7},
           class = 0 => tag # 1 /\ lvt \in Lengths,
           data[position] = 16 * tag + class + lvt
    PROVE  read_tag(data, position) =
             [number |-> tag, context |-> class = 8, kind |-> KindOf(lvt),
              body |-> Slice(data, position + 1, position + SizeOf(lvt)),
              start |-> position, next |-> position + 1 + SizeOf(lvt)]
  <1> DEFINE first    == data[position]
             extended == first \div 16 = 15
             context  == Bit(first, 8)
             after    == position + (IF extended THEN 2 ELSE 1)
             number   == IF extended THEN data[position + 1] ELSE first \div 16
             kind     == IF context /\ first % 8 = 6 THEN "open"
                         ELSE IF context /\ first % 8 = 7 THEN "close" ELSE "value"
             lengths  == IF kind = "value" /\ first % 8 = 5 THEN 1 ELSE 0
             wide     == IF lengths = 0 \/ after > Len(data) THEN 0
                         ELSE IF data[after] = LongMarker THEN 2
                         ELSE IF data[after] = 255 THEN 4 ELSE 0
             start    == after + lengths + wide
             length   == IF kind # "value" THEN 0
                         ELSE IF wide > 0 THEN FromBytes(SubSeq(data, after + 1, after + wide))
                         ELSE IF lengths = 1 THEN data[after] ELSE first % 8
             inHeader == [number |-> number, context |-> FALSE, kind |-> "value",
                          body |-> <<length>>, start |-> position, next |-> start]
             follows  == [number |-> number, context |-> context, kind |-> kind,
                          body |-> Slice(data, start, start + length - 1),
                          start |-> position, next |-> start + length]
             size     == SizeOf(lvt)
  <1>1. read_tag(data, position) =
          IF position > Len(data) \/ after + lengths + wide > Len(data) + 1 THEN Raised
          ELSE IF ValueInHeader(number, context) THEN inHeader ELSE follows
    BY Zenon DEF read_tag
  <1>2. Len(data) \in Nat /\ position \in Nat /\ position <= Len(data)
    BY OctetsAre
  <1>3. first = 16 * tag + class + lvt
    OBVIOUS
  <1> HIDE DEF first
  <1>4. lvt = 0 \/ lvt = 1 \/ lvt = 2 \/ lvt = 3 \/ lvt = 4 \/ lvt = 6 \/ lvt = 7
    BY DEF Lengths
  <1>5. first \div 16 = tag /\ first % 8 = lvt /\ (first \div 8) % 2 = IF class = 8 THEN 1 ELSE 0
    <2> DEFINE c == IF class = 8 THEN 1 ELSE 0
    <2>1. c \in {0, 1} /\ class = 8 * c
      OBVIOUS
    <2> HIDE DEF c
    <2>2. first = 16 * tag + (8 * c + lvt) /\ first = 8 * (2 * tag + c) + lvt
      BY <1>3, <1>4, <2>1, SMT
    <2>3. lvt \in Nat /\ lvt < 8 /\ 8 * c + lvt \in Nat /\ 8 * c + lvt < 16
      <3>1. lvt \in Nat /\ lvt < 8
        BY <1>4, SMT
      <3>2. c = 0 \/ c = 1
        BY <2>1
      <3>3. QED
        BY <3>1, <3>2, SMT
    <2>4. first \div 16 = tag
      <3> DEFINE x == 8 * c + lvt
      <3>1. x \in Nat /\ x < 16 /\ first = 16 * tag + x
        BY <2>2, <2>3
      <3> HIDE DEF x
      <3>2. QED
        BY <3>1, SMT
    <2>5. first % 8 = lvt /\ first \div 8 = 2 * tag + c
      <3> DEFINE q == 2 * tag + c
      <3>1. q \in Nat /\ first = 8 * q + lvt
        BY <2>1, <2>2, SMT
      <3> HIDE DEF q
      <3>2. first % 8 = lvt /\ first \div 8 = q
        BY <2>3, <3>1, SMT
      <3>3. QED
        BY <3>2 DEF q
    <2>6. (2 * tag + c) % 2 = c
      BY <2>1, SMT
    <2>7. QED
      BY <2>4, <2>5, <2>6, Zenon DEF c
  <1>6. context = (class = 8)
    BY <1>5 DEF Bit
  <1>7. ~extended
    BY <1>5
  <1> HIDE DEF extended, context
  <1>8. after = position + 1 /\ number = tag
    BY <1>5, <1>7
  <1>9. kind = KindOf(lvt)
    <2>1. lvt \in {6, 7} => class = 8
      BY <1>4 DEF Lengths
    <2>2. QED
      BY <1>4, <1>5, <1>6, <2>1 DEF KindOf
  <1> HIDE DEF after, number, kind
  <1>10. lengths = 0
    BY <1>4, <1>5
  <1> HIDE DEF lengths
  <1>11. wide = 0
    BY <1>10
  <1> HIDE DEF wide
  <1>12. length = size /\ size \in Nat
    BY <1>4, <1>5, <1>9, <1>10, <1>11 DEF KindOf, SizeOf
  <1> HIDE DEF length, size
  <1>13. start = position + 1 /\ start + length - 1 = position + size /\ start + length = position + 1 + size
    BY <1>2, <1>8, <1>10, <1>11, <1>12
  <1>14. ~(position > Len(data) \/ after + lengths + wide > Len(data) + 1)
    BY <1>2, <1>8, <1>10, <1>11
  <1>15. ~ValueInHeader(number, context)
    BY <1>6, <1>8, Zenon DEF ValueInHeader
  <1> HIDE DEF start
  <1>16. read_tag(data, position) = follows
    BY <1>1, <1>14, <1>15, Zenon
  <1>17. QED
    BY <1>6, <1>8, <1>9, <1>13, <1>16, Zenon DEF size

\* One tag from the first octet to the last.
LEMMA OneTag ==
    ASSUME NEW data \in Octets, Len(data) >= 1, read_tag(data, 1).kind = "value",
           read_tag(data, 1).next = Len(data) + 1
    PROVE  Tags(data, 1) = <<read_tag(data, 1)>> /\ Primitive(data)
  <1> DEFINE t == read_tag(data, 1)
             n == Len(data)
  <1>1. n \in Nat /\ 1 \in Place /\ ~(1 > n)
    BY OctetsAre DEF Place
  <1>2. Tags(data, 1) = IF 1 > n THEN <<>> ELSE IF t.kind = "raise" THEN <<t>> ELSE <<t>> \o Tags(data, t.next)
    BY <1>1, TagsFrom, Zenon
  <1>3. Tags(data, n + 1) = <<>>
    BY TagsEnd, Zenon
  <1>4. t.kind # "raise" /\ t.kind = "value" /\ t.next = n + 1
    OBVIOUS
  <1> HIDE DEF t
  <1>5. <<t>> \o <<>> = <<t>>
    OBVIOUS
  <1>6. Tags(data, 1) = <<t>>
    BY <1>1, <1>2, <1>3, <1>4, <1>5, Zenon
  <1>7. Len(<<t>>) = 1 /\ <<t>>[1] = t
    OBVIOUS
  <1>8. Primitive(data)
    BY <1>4, <1>6, <1>7, Zenon DEF Primitive
  <1>9. QED
    BY <1>6, <1>8, Zenon DEF t

ApplicationTag(tag, body) ==
    [number |-> tag, context |-> FALSE, kind |-> "value", body |-> body,
     start |-> 1, next |-> Len(body) + 2]

\* An application tag of up to four octets, other than a BOOLEAN.
LEMMA ShortApplicationTag ==
    ASSUME NEW tag \in Nat, tag <= 14, tag # 1, NEW body \in Octets, Len(body) \in 0..4
    PROVE  LET data == Application(tag, Len(body)) \o body
           IN  /\ data \in Octets /\ Len(data) = Len(body) + 1 /\ data[1] = 16 * tag + Len(body)
               /\ Tags(data, 1) = <<ApplicationTag(tag, body)>> /\ read_tag(data, 1) = ApplicationTag(tag, body)
               /\ Primitive(data)
  <1> DEFINE head == Application(tag, Len(body))
             data == head \o body
             k == Len(body)
             t == read_tag(data, 1)
  <1>1. k \in 0..7 /\ k \in Nat /\ k \in Lengths /\ k \in Lengths \cup {6, 7}
    BY DEF Lengths
  <1>2. head \in Octets /\ Len(head) = 1 /\ head[1] = 16 * tag + k
    <2>1. head \in Octets
      BY <1>1, TagOctet
    <2>2. QED
      BY <2>1 DEF Application
  <1> HIDE DEF head
  <1>3. /\ data \in Octets /\ Len(data) = 1 + k /\ data[1] = 16 * tag + k
        /\ Holds(data, 1, body)
    <2>1. /\ data \in Octets /\ Len(data) = Len(head) + k
          /\ \A i \in 1..Len(head) : data[i] = head[i]
          /\ Holds(data, Len(head), body)
      BY <1>2, HoldsAfter, Zenon
    <2>2. 1 \in 1..Len(head)
      BY <1>2
    <2> HIDE DEF data
    <2>3. QED
      BY <1>2, <2>1, <2>2, Zenon
  <1>4. SubSeq(data, 1 + 1, 1 + k) = body
    <2>1. 1 \in Nat
      OBVIOUS
    <2> HIDE DEF data
    <2>2. QED
      BY <1>3, <2>1, PartHeld, Zenon
  <1>5. t = [number |-> tag, context |-> 0 = 8, kind |-> KindOf(k),
             body |-> Slice(data, 1 + 1, 1 + SizeOf(k)), start |-> 1, next |-> 1 + 1 + SizeOf(k)]
    <2>1. /\ 0 \in {0, 8} /\ (0 = 0 => tag # 1 /\ k \in Lengths) /\ 1 \in 1..Len(data)
          /\ data[1] = 16 * tag + 0 + k
      BY <1>1, <1>3
    <2> HIDE DEF data, k
    <2>2. QED
      BY <1>1, <1>3, <2>1, ShortTagRead, ZenonT(60)
  <1>6. KindOf(k) = "value" /\ SizeOf(k) = k /\ (0 = 8) = FALSE
    <2>1. k # 6 /\ k # 7
      <3> HIDE DEF k
      <3>1. QED
        BY <1>1 DEF Lengths
    <2> HIDE DEF k
    <2>2. KindOf(k) = "value" /\ SizeOf(k) = k
      BY <2>1 DEF KindOf, SizeOf
    <2>3. QED
      BY <2>2
  <1>7. Slice(data, 1 + 1, 1 + k) = body
    <2>1. Slice(data, 1 + 1, 1 + k) = SubSeq(data, 1 + 1, 1 + k)
      <3> HIDE DEF data
      <3>1. QED
        BY <1>1, <1>3, Smaller DEF Slice
    <2>2. QED
      BY <1>4, <2>1, Zenon
  <1>8. t = ApplicationTag(tag, body)
    <2> DEFINE s == Slice(data, 1 + 1, 1 + SizeOf(k))
               next == 1 + 1 + SizeOf(k)
    <2>1. s = body
      BY <1>6, <1>7, Zenon
    <2>2. next = k + 2
      BY <1>1, <1>6
    <2>3. t = [number |-> tag, context |-> 0 = 8, kind |-> KindOf(k), body |-> s, start |-> 1, next |-> next]
      BY <1>5, Zenon
    <2> HIDE DEF s, next, t
    <2>4. t = [number |-> tag, context |-> FALSE, kind |-> "value", body |-> body, start |-> 1, next |-> k + 2]
      BY <1>6, <2>1, <2>2, <2>3, Zenon
    <2>5. QED
      BY <2>4, Zenon DEF ApplicationTag
  <1>9. t.kind = "value" /\ t.next = Len(data) + 1 /\ Len(data) >= 1
    <2>1. t.kind = "value" /\ t.next = k + 2
      BY <1>8 DEF ApplicationTag
    <2> HIDE DEF t, data
    <2>2. QED
      BY <1>1, <1>3, <2>1
  <1>10. Tags(data, 1) = <<t>> /\ Primitive(data)
    BY <1>3, <1>9, OneTag, Zenon
  <1>11. Len(data) = k + 1
    BY <1>1, <1>3
  <1> HIDE DEF t, data
  <1>12. QED
    BY <1>3, <1>8, <1>10, <1>11, Zenon DEF data, head, t

\* An application tag with its length in an octet of its own, shorter than a marker.
LEMMA StringTag ==
    ASSUME NEW tag \in Nat, tag <= 14, tag # 1, NEW body \in Octets, Len(body) >= 5, Len(body) < 254
    PROVE  LET data == <<16 * tag + 5, Len(body)>> \o body IN data \in Octets /\ Primitive(data)
  <1> DEFINE k == Len(body)
             head == <<16 * tag + 5, k>>
             data == head \o body
             t == read_tag(data, 1)
  <1>1. k \in Nat /\ k \in Octet /\ 16 * tag + 5 \in Octet
    <2>1. k \in Nat
      BY OctetsAre
    <2> HIDE DEF k
    <2>2. k < 256 /\ 16 * tag + 5 \in Nat /\ 16 * tag + 5 < 256
      BY <2>1 DEF k
    <2>3. QED
      BY <2>1, <2>2, OctetIs
  <1>2. head \in Octets /\ Len(head) = 2 /\ head[1] = 16 * tag + 5 /\ head[2] = k
    <2>1. head \in Octets
      BY <1>1, HeaderOctets, Zenon
    <2>2. QED
      BY <2>1
  <1> HIDE DEF head
  <1>3. data \in Octets /\ Len(data) = 2 + k /\ data[1] = 16 * tag + 5 /\ data[2] = k
    <2>1. /\ data \in Octets /\ Len(data) = Len(head) + k /\ \A i \in 1..Len(head) : data[i] = head[i]
      BY <1>2, HoldsAfter, Zenon
    <2>2. 1 \in 1..Len(head) /\ 2 \in 1..Len(head)
      BY <1>2
    <2> HIDE DEF data
    <2>3. QED
      BY <1>2, <2>1, <2>2, Zenon
  <1> HIDE DEF data
  <1> DEFINE position == 1
             first    == data[position]
             extended == first \div 16 = 15
             context  == Bit(first, 8)
             after    == position + (IF extended THEN 2 ELSE 1)
             number   == IF extended THEN data[position + 1] ELSE first \div 16
             kind     == IF context /\ first % 8 = 6 THEN "open"
                         ELSE IF context /\ first % 8 = 7 THEN "close" ELSE "value"
             lengths  == IF kind = "value" /\ first % 8 = 5 THEN 1 ELSE 0
             wide     == IF lengths = 0 \/ after > Len(data) THEN 0
                         ELSE IF data[after] = LongMarker THEN 2
                         ELSE IF data[after] = 255 THEN 4 ELSE 0
             start    == after + lengths + wide
             length   == IF kind # "value" THEN 0
                         ELSE IF wide > 0 THEN FromBytes(SubSeq(data, after + 1, after + wide))
                         ELSE IF lengths = 1 THEN data[after] ELSE first % 8
             inHeader == [number |-> number, context |-> FALSE, kind |-> "value",
                          body |-> <<length>>, start |-> position, next |-> start]
             follows  == [number |-> number, context |-> context, kind |-> kind,
                          body |-> Slice(data, start, start + length - 1),
                          start |-> position, next |-> start + length]
  <1>4. t = IF position > Len(data) \/ after + lengths + wide > Len(data) + 1 THEN Raised
            ELSE IF ValueInHeader(number, context) THEN inHeader ELSE follows
    BY Zenon DEF read_tag
  <1>5. first \div 16 = tag /\ first % 8 = 5
    <2>1. first = 16 * tag + 5
      BY <1>3
    <2> HIDE DEF first
    <2>2. first \div 16 = tag
      BY <2>1, SMT
    <2> DEFINE q == 2 * tag
    <2>3. q \in Nat /\ first = 8 * q + 5
      BY <2>1
    <2> HIDE DEF q
    <2>4. first % 8 = 5
      BY <2>3, SMT
    <2>5. QED
      BY <2>2, <2>4
  <1> HIDE DEF first, context
  <1>6. ~extended
    BY <1>5
  <1>7. number = tag /\ kind = "value" /\ ~ValueInHeader(number, context)
    <2>1. number = tag
      BY <1>5, <1>6
    <2>2. kind = "value"
      BY <1>5
    <2> HIDE DEF number, kind
    <2>3. QED
      BY <2>1, <2>2, Zenon DEF ValueInHeader
  <1>8. after = 2
    BY <1>6
  <1> HIDE DEF extended, number, kind, after
  <1>9. lengths = 1
    BY <1>5, <1>7
  <1> HIDE DEF lengths
  <1>10. wide = 0
    BY <1>1, <1>3, <1>8, <1>9 DEF LongMarker
  <1> HIDE DEF wide
  <1>11. length = k /\ start = 3
    BY <1>3, <1>7, <1>8, <1>9, <1>10
  <1>12. ~(position > Len(data) \/ after + lengths + wide > Len(data) + 1)
    BY <1>1, <1>3, <1>8, <1>9, <1>10
  <1>13. t = follows
    BY <1>4, <1>7, <1>12, Zenon
  <1>14. t.kind = "value" /\ t.next = start + length
    BY <1>7, <1>13
  <1> HIDE DEF t, start, length, position
  <1>15. t.next = Len(data) + 1 /\ Len(data) >= 1
    BY <1>1, <1>3, <1>11, <1>14
  <1>16. Primitive(data)
    BY <1>3, <1>14, <1>15, OneTag, Zenon DEF t
  <1>17. QED
    BY <1>3, <1>16, Zenon DEF data, head

\* What the simulated device and server answer of their own: a name, an object
\* identifier and a number are primitives.
LEMMA OwnPrimitives ==
    /\ application_character_string(Peer.name) \in Octets /\ Primitive(application_character_string(Peer.name))
    /\ \A object \in Int \X Int : application_object_id(object) \in Octets /\ Primitive(application_object_id(object))
    /\ \A n \in Nat : application_unsigned(n) \in Octets /\ Primitive(application_unsigned(n))
  <1>1. application_character_string(Peer.name) \in Octets /\ Primitive(application_character_string(Peer.name))
    <2> DEFINE body == <<0>> \o Peer.name
               k == Len(body)
               string == StringHeader(Application(7, 0)[1], body) \o body
    <2>1. Peer.name \in Octets /\ Len(Peer.name) < 253
      BY PeerAssumption, Zenon
    <2>2. body \in Octets /\ k \in Nat /\ k < 254
      <3>1. <<0>> \in Octets /\ Len(<<0>>) = 1
        BY OneOctet, OctetIs
      <3>2. body \in Octets /\ Len(body) = Len(<<0>>) + Len(Peer.name)
        BY <2>1, <3>1, HoldsAfter, Zenon
      <3>3. Len(Peer.name) \in Nat
        BY <2>1, OctetsAre
      <3>4. QED
        BY <2>1, <3>1, <3>2, <3>3
    <2>3. application_character_string(Peer.name) = string
      BY Zenon DEF application_character_string
    <2>4. Application(7, 0)[1] = 112 /\ 7 \in Nat /\ 7 <= 14 /\ 7 # 1
      BY DEF Application
    <2> HIDE DEF body
    <2>5. CASE k < 5
      <3>1. string = <<112 + k>> \o body /\ Application(7, k) = <<16 * 7 + k>>
        BY <2>4, <2>5 DEF StringHeader, Application
      <3>2. 16 * 7 = 112 /\ \A j \in Nat : j < 5 => j \in 0..4
        OBVIOUS
      <3>3. string = Application(7, Len(body)) \o body
        <4> HIDE DEF string
        <4>1. QED
          BY <3>1, <3>2
      <3>4. Len(body) \in 0..4
        BY <2>2, <2>5, <3>2, Zenon
      <3> HIDE DEF string
      <3>5. 7 \in Nat /\ 7 <= 14 /\ 7 # 1
        OBVIOUS
      <3>6. string \in Octets /\ Primitive(string)
        BY <2>2, <3>3, <3>4, <3>5, ShortApplicationTag, Zenon
      <3>7. QED
        BY <2>3, <3>6, Zenon
    <2>6. CASE ~(k < 5)
      <3>1. string = <<112 + 5, k>> \o body /\ 112 + 5 = 16 * 7 + 5
        BY <2>4, <2>6 DEF StringHeader
      <3>2. string = <<16 * 7 + 5, k>> \o body /\ k >= 5
        BY <2>2, <2>6, <3>1
      <3> HIDE DEF string
      <3> DEFINE tag == 7
      <3>3. string \in Octets /\ Primitive(string)
        <4>1. tag \in Nat /\ tag <= 14 /\ tag # 1 /\ string = <<16 * tag + 5, Len(body)>> \o body
          BY <3>2
        <4>2. body \in Octets /\ Len(body) >= 5 /\ Len(body) < 254
          BY <2>2, <3>2
        <4> HIDE DEF tag, body, k
        <4> DEFINE data == <<16 * tag + 5, Len(body)>> \o body
        <4>3. data \in Octets /\ Primitive(data)
          BY <4>1, <4>2, StringTag
        <4>4. QED
          BY <4>1, <4>3, Zenon
      <3>4. QED
        BY <2>3, <3>3
    <2>7. QED
      BY <2>5, <2>6
  <1>2. ASSUME NEW object \in Int \X Int
        PROVE  application_object_id(object) \in Octets /\ Primitive(application_object_id(object))
    <2> DEFINE body == object_id(object)
    <2>1. body \in Octets /\ Len(body) = 4
      <3>1. object[1] * (MAX_INSTANCE + 1) + object[2] \in Int
        BY DEF MAX_INSTANCE
      <3>2. QED
        BY <3>1, ToBytesOctets DEF object_id
    <2>2. application_object_id(object) = Application(12, Len(body)) \o body
      BY <2>1, Zenon DEF application_object_id
    <2> HIDE DEF body
    <2>3. 12 \in Nat /\ 12 <= 14 /\ 12 # 1 /\ Len(body) \in 0..4
      BY <2>1
    <2>4. QED
      BY <2>1, <2>2, <2>3, ShortApplicationTag, Zenon
  <1>3. ASSUME NEW n \in Nat PROVE application_unsigned(n) \in Octets /\ Primitive(application_unsigned(n))
    <2> DEFINE body == unsigned_octets(n)
    <2>1. body \in Octets /\ Len(body) \in 1..4
      BY UnsignedOctets
    <2>2. application_unsigned(n) = Application(2, Len(body)) \o body
      BY Zenon DEF application_unsigned
    <2> HIDE DEF body
    <2>3. 2 \in Nat /\ 2 <= 14 /\ 2 # 1 /\ Len(body) \in 0..4
      BY <2>1
    <2>4. QED
      BY <2>1, <2>2, <2>3, ShortApplicationTag, Zenon
  <1>4. QED
    BY <1>1, <1>2, <1>3, Zenon

-----------------------------------------------------------------------------
(* What the simulated server answers is octets                             *)

\* What a test serves is read as its elements.
LEMMA ServedElements ==
    ASSUME NEW key \in DOMAIN Peer.served
    PROVE  /\ Elements(FlattenSeq(Peer.served[key]), Peer.served[key], Len(Peer.served[key]))
           /\ Peer.served[key] \in Seq(Octets)
           /\ \A i \in 1..Len(Peer.served[key]) : Primitive(Peer.served[key][i])
  <1> DEFINE seqs == Peer.served[key]
  <1>1. seqs \in Seq(Octets) /\ \A element \in ToSet(seqs) : Primitive(element)
    BY PeerAssumption, Zenon
  <1> HIDE DEF seqs
  <1>2. \A i \in 1..Len(seqs) : seqs[i] \in ToSet(seqs)
    BY <1>1 DEF ToSet
  <1>3. \A i \in 1..Len(seqs) : Primitive(seqs[i])
    BY <1>1, <1>2, Zenon
  <1>4. QED
    BY <1>1, <1>3, ElementsRead, Zenon DEF seqs

\* What a test serves.
LEMMA ServedOctets ==
    ASSUME NEW object, NEW property, Given(Value(object, property))
    PROVE  /\ Value(object, property)[1] \in Octets
           /\ Raised \notin ToSet(Tags(Value(object, property)[1], 1))
  <1> DEFINE key == <<object, property>>
             seqs == Peer.served[key]
             value == FlattenSeq(seqs)
             tags == Tags(value, 1)
  <1>1. key \in DOMAIN Peer.served /\ Value(object, property) = <<value>>
    BY Zenon DEF Value, Given, None, Some
  <1> HIDE DEF key
  <1>2. Elements(value, seqs, Len(seqs))
    BY <1>1, ServedElements, Zenon
  <1>3. value \in Octets /\ Whole(value, 1)
    BY <1>2, ElementsWhole, Zenon DEF Elements
  <1>4. tags \in Seq(AllTags(value))
    <2>1. 1 \in Place
      BY DEF Place
    <2>2. QED
      BY <1>3, <2>1, TagsFrom, Zenon
  <1>5. \A i \in 1..Len(tags) : tags[i] # Raised
    BY <1>3, Zenon DEF Whole
  <1> HIDE DEF tags
  <1>6. Raised \notin ToSet(tags)
    BY <1>4, <1>5 DEF ToSet
  <1> HIDE DEF value
  <1>7. Value(object, property)[1] = value
    BY <1>1
  <1>8. QED
    BY <1>3, <1>6, <1>7, Zenon DEF tags

\* An Error PDU is octets.
LEMMA ErrorOctets ==
    ASSUME NEW id \in Octet, NEW class \in Nat, NEW code \in Nat
    PROVE  error_pdu(id, SERVICE_READ_PROPERTY, class, code) \in Octets
  <1>1. 16 * PDU_ERROR \in Octet /\ SERVICE_READ_PROPERTY \in Octet
    BY OctetIs DEF PDU_ERROR, SERVICE_READ_PROPERTY
  <1>2. <<16 * PDU_ERROR, id, SERVICE_READ_PROPERTY>> \in Octets
    BY <1>1, HeaderOctets
  <1>3. application_enumerated(class) \in Octets /\ application_enumerated(code) \in Octets
    BY ApplicationNumbers
  <1>4. <<16 * PDU_ERROR, id, SERVICE_READ_PROPERTY>> \o application_enumerated(class) \in Octets
    BY <1>2, <1>3, Joined
  <1>5. QED
    BY <1>3, <1>4, Joined DEF error_pdu

\* A ReadProperty-ACK is octets.
LEMMA AckOctets ==
    ASSUME NEW id \in Octet, NEW object, object[1] \in Int, object[2] \in Int, NEW property \in Nat,
           NEW array_index, Given(array_index) => array_index[1] \in Nat, NEW value \in Octets
    PROVE  read_property_ack(id, object, property, array_index, value) \in Octets
  <1>1. Reference(object, property, array_index) \in Octets /\ Enclosed(3, value) \in Octets
    BY ReferenceOctets, EnclosedOctets
  <1>2. Reference(object, property, array_index) \o Enclosed(3, value) \in Octets
    BY <1>1, Joined
  <1>3. SERVICE_READ_PROPERTY \in Octet
    BY OctetIs DEF SERVICE_READ_PROPERTY
  <1>4. QED
    BY <1>2, <1>3, ConfirmedOctets DEF read_property_ack

\* A frame whose request is answered has an invoke id, one octet.
LEMMA RequestId ==
    ASSUME NEW f, f.payload \in Octets, IsPdu(f, {PDU_CONFIRMED_REQUEST}), Given(service(f))
    PROVE  invoke_id(f)[1] \in Octet
  <1> DEFINE type == pdu_type(f)[1]
  <1>1. type = 0 /\ Given(pdu_type(f))
    BY DEF IsPdu, PDU_CONFIRMED_REQUEST
  <1>2. /\ ~IsPdu(f, Answers) /\ ~IsPdu(f, {PDU_SIMPLE_ACK, PDU_COMPLEX_ACK, PDU_ERROR})
        /\ ~IsPdu(f, {PDU_UNCONFIRMED_REQUEST})
    <2> HIDE DEF type
    <2>1. /\ type \notin Answers /\ type \notin {PDU_SIMPLE_ACK, PDU_COMPLEX_ACK, PDU_ERROR}
          /\ type \notin {PDU_UNCONFIRMED_REQUEST}
      BY <1>1 DEF Answers, PDU_SIMPLE_ACK, PDU_COMPLEX_ACK, PDU_ERROR, PDU_REJECT, PDU_ABORT,
                  PDU_UNCONFIRMED_REQUEST
    <2>2. QED
      BY <2>1, Zenon DEF IsPdu, type
  <1>3. Len(f.payload) > 3
    BY <1>2, Zenon DEF service, Given
  <1>4. Len(f.payload) \in Nat /\ Len(f.payload) > 2 /\ f.payload[3] \in Octet
    BY <1>3 DEF Octets
  <1>5. invoke_id(f) = <<f.payload[3]>>
    BY <1>2, <1>4, Zenon DEF invoke_id, Some
  <1>6. QED
    BY <1>4, <1>5

\* parse_read_property_request: the parameters of a ReadProperty.
LEMMA ReadRequestTyped ==
    ASSUME NEW apdu \in Octets, Given(parse_read_property_request(apdu))
    PROVE  LET request == parse_read_property_request(apdu)[1]
           IN  /\ request.object \in Objects /\ request.property \in Nat
               /\ Given(request.array_index) => request.array_index[1] \in Nat
  <1> DEFINE tags == Slice(Tags(apdu, 5), 1, 3)
             index == IF Len(tags) > 2 /\ IsValue(tags[3], 2)
                      THEN Some(FromBytes(tags[3].body)) ELSE None
             request == [object |-> AsObject(tags[1].body), property |-> FromBytes(tags[2].body),
                         array_index |-> index]
  <1>1. /\ ~(Len(tags) < 2) /\ Raised \notin ToSet(tags)
        /\ parse_read_property_request(apdu) = <<request>>
    BY Zenon DEF parse_read_property_request, ReadRequest, Given, Some
  <1>2. tags \in Seq(AllTags(apdu))
    <2>1. 5 \in Place
      BY DEF Place
    <2>2. Tags(apdu, 5) \in Seq(AllTags(apdu))
      BY <2>1, TagsFrom
    <2>3. \A T, S : T \in Seq(S) => Slice(T, 1, 3) \in Seq(S)
      BY SliceOf
    <2>4. QED
      BY <2>2, <2>3, Zenon
  <1> HIDE DEF tags
  <1>3. ASSUME NEW i \in 1..Len(tags) PROVE tags[i].body \in Seq(Nat)
    <2>1. tags[i] \in AllTags(apdu) /\ i \in DOMAIN tags
      BY <1>2
    <2>2. tags[i] # Raised
      BY <1>1, <2>1, Zenon DEF ToSet
    <2>3. PICK p \in 1..Len(apdu) : tags[i] = read_tag(apdu, p)
      BY <2>1, Zenon DEF AllTags
    <2>4. QED
      BY <2>2, <2>3, ReadTag
  <1>4. Len(tags) \in Nat /\ 1 \in 1..Len(tags) /\ 2 \in 1..Len(tags)
    BY <1>1, <1>2
  <1>5. AsObject(tags[1].body) \in Objects /\ FromBytes(tags[2].body) \in Nat
    BY <1>3, <1>4, AsObjectIs, FromBytesNat
  <1>6. Given(index) => index[1] \in Nat
    <2>1. CASE Len(tags) > 2 /\ IsValue(tags[3], 2)
      <3>1. 3 \in 1..Len(tags)
        BY <1>4, <2>1
      <3>2. FromBytes(tags[3].body) \in Nat
        BY <1>3, <3>1, FromBytesNat
      <3>3. index = <<FromBytes(tags[3].body)>>
        BY <2>1, Zenon DEF Some
      <3>4. QED
        BY <3>2, <3>3
    <2>2. CASE ~(Len(tags) > 2 /\ IsValue(tags[3], 2))
      BY <2>2, Zenon DEF Given
    <2>3. QED
      BY <2>1, <2>2
  <1> HIDE DEF index
  <1>7. /\ request.object \in Objects /\ request.property \in Nat /\ request.array_index = index
    BY <1>5
  <1>8. parse_read_property_request(apdu)[1] = request
    BY <1>1
  <1> HIDE DEF request
  <1>9. QED
    BY <1>6, <1>7, <1>8, Zenon

\* A PropertyError, and the device's own properties.
LEMMA PropertyErrorOctets ==
    ASSUME NEW f, invoke_id(f)[1] \in Octet, NEW code \in Nat
    PROVE  PropertyError(f, code)[1] \in Octets
  <1>1. ERROR_CLASS_PROPERTY \in Nat
    BY DEF ERROR_CLASS_PROPERTY
  <1>2. error_pdu(invoke_id(f)[1], SERVICE_READ_PROPERTY, ERROR_CLASS_PROPERTY, code) \in Octets
    BY <1>1, ErrorOctets
  <1>3. QED
    BY <1>2 DEF PropertyError, Some

\* The name of the simulated device, as a character string, is octets.
LEMMA NameOctets == application_character_string(Peer.name) \in Octets
  <1> DEFINE body == <<0>> \o Peer.name
             first == Application(7, 0)[1]
  <1>1. Peer.name \in Octets /\ Len(Peer.name) < 255
    <2>1. Peer.name \in Octets /\ Len(Peer.name) < 253
      BY PeerAssumption, Zenon
    <2>2. QED
      BY <2>1, OctetsAre
  <1>2. <<0>> \in Octets /\ Len(<<0>>) = 1
    BY OneOctet, OctetIs
  <1>3. body \in Octets /\ Len(body) = 1 + Len(Peer.name)
    BY <1>1, <1>2, Joined
  <1>4. first = 112
    BY DEF Application
  <1>5. Len(body) \in Nat /\ Len(body) < 256
    BY <1>1, <1>3, OctetsAre
  <1> HIDE DEF body, first
  <1>6. StringHeader(first, body) \in Octets
    <2>1. CASE Len(body) < 5
      <3>1. first + Len(body) \in Octet
        BY <1>4, <1>5, <2>1, OctetIs
      <3>2. QED
        BY <2>1, <3>1, OneOctet DEF StringHeader
    <2>2. CASE ~(Len(body) < 5)
      <3>1. first + 5 \in Octet /\ Len(body) \in Octet
        BY <1>4, <1>5, OctetIs
      <3>2. QED
        BY <2>2, <3>1, HeaderOctets DEF StringHeader
    <2>3. QED
      BY <2>1, <2>2
  <1>7. StringHeader(first, body) \o body \in Octets
    BY <1>3, <1>6, Joined
  <1>8. QED
    BY <1>7, Zenon DEF application_character_string, body, first

\* The answer of a simulated device is octets, when it answers.
LEMMA DeviceReadPropertyOctets ==
    ASSUME NEW f, NEW request, invoke_id(f)[1] \in Octet,
           Given(request) => request[1].property \in Nat, Given(DeviceReadProperty(f, request))
    PROVE  DeviceReadProperty(f, request)[1] \in Octets
  <1> DEFINE id == invoke_id(f)[1]
             device == <<OBJECT_TYPE_DEVICE, Peer.instance>>
             Ack(value) == Some(read_property_ack(id, device, request[1].property, None, value))
             unknown == Some(error_pdu(id, SERVICE_READ_PROPERTY, ERROR_CLASS_OBJECT,
                                       ERROR_CODE_UNKNOWN_OBJECT))
             answer == CASE request[1].property = 77 -> Ack(application_character_string(Peer.name))
                         [] request[1].property = 75 -> Ack(application_object_id(device))
                         [] OTHER -> PropertyError(f, ERROR_CODE_UNKNOWN_PROPERTY)
  <1>1. Given(request) /\ DeviceReadProperty(f, request) \in {unknown, answer}
    BY Zenon DEF DeviceReadProperty, Given
  <1>2. Peer.instance \in Int /\ OBJECT_TYPE_DEVICE \in Int
    <2>1. MAX_INSTANCE \in Int
      BY SMT DEF MAX_INSTANCE
    <2>2. Peer.instance \in 0..MAX_INSTANCE-1
      BY PeerAssumption, Zenon
    <2>3. QED
      BY <2>1, <2>2, SMT DEF OBJECT_TYPE_DEVICE
  <1>3. device[1] \in Int /\ device[2] \in Int
    BY <1>2
  <1>4. /\ ERROR_CLASS_OBJECT \in Nat /\ ERROR_CODE_UNKNOWN_OBJECT \in Nat
        /\ ERROR_CODE_UNKNOWN_PROPERTY \in Nat
    BY DEF ERROR_CLASS_OBJECT, ERROR_CODE_UNKNOWN_OBJECT, ERROR_CODE_UNKNOWN_PROPERTY
  <1>5. unknown[1] \in Octets
    <2>1. error_pdu(id, SERVICE_READ_PROPERTY, ERROR_CLASS_OBJECT, ERROR_CODE_UNKNOWN_OBJECT) \in Octets
      BY <1>4, ErrorOctets
    <2>2. QED
      BY <2>1 DEF Some
  <1>6. ~Given(None)
    BY DEF Given
  <1>7. ASSUME NEW value \in Octets PROVE Ack(value)[1] \in Octets
    <2> HIDE DEF device
    <2>1. read_property_ack(id, device, request[1].property, None, value) \in Octets
      BY <1>1, <1>3, <1>6, AckOctets
    <2>2. QED
      BY <2>1 DEF Some
  <1>8. application_object_id(device) \in Octets
    <2> HIDE DEF device
    <2>1. QED
      BY <1>3, ObjectTags
  <1>9. PropertyError(f, ERROR_CODE_UNKNOWN_PROPERTY)[1] \in Octets
    BY <1>4, PropertyErrorOctets
  <1>10. answer \in {Ack(application_character_string(Peer.name)), Ack(application_object_id(device)),
                     PropertyError(f, ERROR_CODE_UNKNOWN_PROPERTY)}
    <2> HIDE DEF Ack
    <2>1. CASE request[1].property = 77
      BY <2>1
    <2>2. CASE request[1].property # 77 /\ request[1].property = 75
      BY <2>2
    <2>3. CASE request[1].property # 77 /\ request[1].property # 75
      BY <2>3
    <2>4. QED
      BY <2>1, <2>2, <2>3
  <1>11. answer[1] \in Octets
    <2>1. /\ Ack(application_character_string(Peer.name))[1] \in Octets
          /\ Ack(application_object_id(device))[1] \in Octets
      BY <1>7, <1>8, NameOctets
    <2> HIDE DEF answer, Ack
    <2>2. QED
      BY <1>9, <1>10, <2>1, Zenon
  <1> HIDE DEF answer, unknown
  <1>12. QED
    BY <1>1, <1>5, <1>11, Zenon

\* An element of an array, or how many there are.
LEMMA ArrayElementOctets ==
    ASSUME NEW f, NEW request, NEW served \in Octets, invoke_id(f)[1] \in Octet,
           Raised \notin ToSet(Tags(served, 1)), request.object \in Objects, request.property \in Nat,
           request.array_index[1] \in Nat
    PROVE  ArrayElement(f, request, served)[1] \in Octets
  <1> DEFINE tags == Tags(served, 1)
             elements == application_elements(served)
             n == request.array_index[1]
             Ack(value) == Some(read_property_ack(invoke_id(f)[1], request.object, request.property,
                                                  Some(n), value))
             invalid == PropertyError(f, ERROR_CODE_INVALID_ARRAY_INDEX)
  <1>1. elements = [i \in 1..Len(tags) |-> Slice(served, tags[i].start, tags[i].next - 1)]
    BY Zenon DEF application_elements
  <1>2. tags \in Seq(AllTags(served))
    <2>1. 1 \in Place
      BY DEF Place
    <2>2. QED
      BY <2>1, TagsFrom
  <1> HIDE DEF tags, elements
  <1>3. ASSUME NEW i \in 1..Len(tags) PROVE Slice(served, tags[i].start, tags[i].next - 1) \in Octets
    <2>1. tags[i] \in AllTags(served) /\ i \in DOMAIN tags
      BY <1>2
    <2>2. tags[i] # Raised
      BY <2>1, Zenon DEF ToSet, tags
    <2>3. PICK p \in 1..Len(served) : tags[i] = read_tag(served, p)
      BY <2>1, Zenon DEF AllTags
    <2>4. tags[i].start = p /\ tags[i].next \in Nat
      BY <2>2, <2>3, ReadTag
    <2>5. tags[i].start \in Nat /\ tags[i].start >= 1 /\ tags[i].next - 1 \in Int
      BY <2>4, OctetsAre
    <2>6. QED
      BY <2>5, SliceOctets
  <1>4. Len(tags) \in Nat /\ Len(elements) = Len(tags) /\ \A i \in 1..Len(elements) : elements[i] \in Octets
    BY <1>1, <1>2, <1>3
  <1>5. Some(n)[1] \in Nat
    BY DEF Some
  <1>6. ASSUME NEW value \in Octets PROVE Ack(value)[1] \in Octets
    <2>1. request.object[1] \in Int /\ request.object[2] \in Int
      BY DEF Objects
    <2>2. read_property_ack(invoke_id(f)[1], request.object, request.property, Some(n), value) \in Octets
      <3> HIDE DEF n
      <3>1. QED
        BY <1>5, <2>1, AckOctets
    <2>3. QED
      BY <2>2 DEF Some
  <1>7. invalid[1] \in Octets
    BY PropertyErrorOctets DEF ERROR_CODE_INVALID_ARRAY_INDEX
  <1>8. ArrayElement(f, request, served)
          = CASE n = 0 -> Ack(application_unsigned(Len(elements)))
              [] n > 0 /\ n <= Len(elements) -> Ack(elements[n])
              [] OTHER -> invalid
    BY Zenon DEF ArrayElement, elements
  <1> HIDE DEF Ack, invalid, n
  <1>9. n \in Nat
    BY DEF n
  <1>10. CASE n = 0
    <2>1. ArrayElement(f, request, served) = Ack(application_unsigned(Len(elements)))
      BY <1>8, <1>10
    <2>2. application_unsigned(Len(elements)) \in Octets
      BY <1>4, ApplicationNumbers
    <2>3. QED
      BY <1>6, <2>1, <2>2
  <1>11. CASE n > 0 /\ n <= Len(elements)
    <2>1. ArrayElement(f, request, served) = Ack(elements[n])
      BY <1>8, <1>9, <1>11
    <2>2. elements[n] \in Octets
      BY <1>4, <1>9, <1>11
    <2>3. QED
      BY <1>6, <2>1, <2>2
  <1>12. CASE ~(n = 0) /\ ~(n > 0 /\ n <= Len(elements))
    <2>1. ArrayElement(f, request, served) = invalid
      BY <1>8, <1>12
    <2>2. QED
      BY <1>7, <2>1
  <1>13. QED
    BY <1>10, <1>11, <1>12

\* The server's answer to a ReadProperty.
LEMMA ServerReadPropertyOctets ==
    ASSUME NEW f, NEW apdu \in Octets, invoke_id(f)[1] \in Octet,
           Given(ServerReadProperty(f, parse_read_property_request(apdu)))
    PROVE  ServerReadProperty(f, parse_read_property_request(apdu))[1] \in Octets
  <1> DEFINE request == parse_read_property_request(apdu)
             object == request[1].object
             property == request[1].property
             served == Value(object, property)
             refusal == Some(abort_pdu(invoke_id(f)[1], 4))
             unknown == PropertyError(f, ERROR_CODE_UNKNOWN_PROPERTY)
             element == ArrayElement(f, request[1], served[1])
             whole == Some(read_property_ack(invoke_id(f)[1], object, property, None, served[1]))
             answer == ServerReadProperty(f, request)
  <1>1. Given(request) => /\ object \in Objects /\ property \in Nat
                          /\ Given(request[1].array_index) => request[1].array_index[1] \in Nat
    BY ReadRequestTyped, Zenon
  <1>2. \/ answer = DeviceReadProperty(f, request)
        \/ Given(request) /\ answer = refusal
        \/ Given(request) /\ answer = unknown
        \/ Given(request) /\ Given(served) /\ Given(request[1].array_index) /\ answer = element
        \/ Given(request) /\ Given(served) /\ answer = whole
    BY Zenon DEF ServerReadProperty
  <1>3. CASE answer = DeviceReadProperty(f, request)
    <2> HIDE DEF request
    <2>1. DeviceReadProperty(f, request)[1] \in Octets
      BY <1>1, <1>3, DeviceReadPropertyOctets DEF request
    <2>2. QED
      BY <1>3, <2>1 DEF request
  <1>4. refusal[1] \in Octets
    <2>1. 16 * PDU_ABORT + 1 \in Octet /\ 4 \in Octet
      BY OctetIs DEF PDU_ABORT
    <2>2. abort_pdu(invoke_id(f)[1], 4) \in Octets
      BY <2>1, HeaderOctets DEF abort_pdu
    <2>3. QED
      BY <2>2 DEF Some
  <1>5. unknown[1] \in Octets
    BY PropertyErrorOctets DEF ERROR_CODE_UNKNOWN_PROPERTY
  <1>6. CASE Given(request) /\ Given(served) /\ Given(request[1].array_index) /\ answer = element
    <2>1. served[1] \in Octets /\ Raised \notin ToSet(Tags(served[1], 1))
      BY <1>6, ServedOctets
    <2> HIDE DEF request, served
    <2>2. element[1] \in Octets
      BY <1>1, <1>6, <2>1, ArrayElementOctets
    <2>3. QED
      BY <1>6, <2>2 DEF request
  <1>7. CASE Given(request) /\ Given(served) /\ answer = whole
    <2>1. served[1] \in Octets
      BY <1>7, ServedOctets
    <2>2. ~Given(None)
      BY DEF Given
    <2> HIDE DEF request, served
    <2>3. object[1] \in Int /\ object[2] \in Int /\ property \in Nat
      BY <1>1, <1>7 DEF Objects
    <2> HIDE DEF object, property
    <2>4. read_property_ack(invoke_id(f)[1], object, property, None, served[1]) \in Octets
      BY <2>1, <2>2, <2>3, AckOctets
    <2>5. QED
      BY <1>7, <2>4 DEF Some, request
  <1> HIDE DEF request, refusal, unknown, element, whole, served
  <1>8. QED
    BY <1>2, <1>3, <1>4, <1>5, <1>6, <1>7, Zenon DEF request

\* A property's value or its absence in an answer, and an object's.
LEMMA PropertyResultOctets ==
    ASSUME NEW p, p.property \in Nat, Given(p.value) => p.value[1] \in Octets
    PROVE  PropertyResult(p) \in Octets
  <1> DEFINE absent == application_enumerated(ERROR_CLASS_PROPERTY)
                       \o application_enumerated(ERROR_CODE_UNKNOWN_PROPERTY)
  <1>1. context_unsigned(2, p.property) \in Octets
    BY UnsignedTags
  <1>2. absent \in Octets
    <2>1. ERROR_CLASS_PROPERTY \in Nat /\ ERROR_CODE_UNKNOWN_PROPERTY \in Nat
      BY DEF ERROR_CLASS_PROPERTY, ERROR_CODE_UNKNOWN_PROPERTY
    <2>2. QED
      BY <2>1, ApplicationNumbers, Joined
  <1> HIDE DEF absent
  <1>3. Enclosed(5, absent) \in Octets
    BY <1>2, EnclosedOctets
  <1>4. Given(p.value) => Enclosed(4, p.value[1]) \in Octets
    BY EnclosedOctets
  <1>5. (IF Given(p.value) THEN Enclosed(4, p.value[1]) ELSE Enclosed(5, absent)) \in Octets
    BY <1>3, <1>4
  <1>6. PropertyResult(p) = context_unsigned(2, p.property)
                            \o IF Given(p.value) THEN Enclosed(4, p.value[1]) ELSE Enclosed(5, absent)
    BY Zenon DEF PropertyResult, absent
  <1>7. QED
    BY <1>1, <1>5, <1>6, Joined

\* The server's answer to a ReadPropertyMultiple.
LEMMA ServerReadMultipleOctets ==
    ASSUME NEW f, invoke_id(f)[1] \in Octet,
           NEW specs \in Seq([object : Objects, properties : Seq(Nat)])
    PROVE  ServerReadMultiple(f, specs)[1] \in Octets
  <1> DEFINE property(i, k) == [property |-> specs[i].properties[k],
                                value |-> Value(specs[i].object, specs[i].properties[k])]
             properties(i) == [k \in 1..Len(specs[i].properties) |-> property(i, k)]
             r(i) == [object |-> specs[i].object, properties |-> properties(i)]
             results == [i \in 1..Len(specs) |-> r(i)]
             each(i) == [k \in 1..Len(properties(i)) |-> PropertyResult(properties(i)[k])]
             all == [i \in 1..Len(results) |-> ReadAccessResult(results[i])]
  <1>1. ASSUME NEW i \in 1..Len(specs) PROVE ReadAccessResult(r(i)) \in Octets
    <2>0. specs[i] \in [object : Objects, properties : Seq(Nat)]
      <3>1. \A S : \A s \in Seq(S) : \A j \in 1..Len(s) : s[j] \in S
        OBVIOUS
      <3>2. QED
        BY <3>1, Zenon
    <2>1. specs[i].object \in Objects /\ specs[i].properties \in Seq(Nat)
      <3> HIDE DEF property, properties, r, each
      <3>1. QED
        BY <2>0
    <2>2. ASSUME NEW k \in 1..Len(specs[i].properties) PROVE PropertyResult(property(i, k)) \in Octets
      <3>1. specs[i].properties[k] \in Nat
        BY <2>1
      <3>2. Given(Value(specs[i].object, specs[i].properties[k]))
              => Value(specs[i].object, specs[i].properties[k])[1] \in Octets
        BY ServedOctets
      <3>3. property(i, k).property \in Nat
            /\ (Given(property(i, k).value) => property(i, k).value[1] \in Octets)
        BY <3>1, <3>2
      <3> HIDE DEF property
      <3>4. QED
        BY <3>3, PropertyResultOctets
    <2>3. /\ Len(specs[i].properties) \in Nat /\ Len(properties(i)) = Len(specs[i].properties)
          /\ \A k \in 1..Len(properties(i)) : properties(i)[k] = property(i, k)
      <3> HIDE DEF property
      <3>1. QED
        BY <2>1
    <2> HIDE DEF property, properties
    <2>4. each(i) \in Seq(Octets)
      BY <2>2, <2>3
    <2>5. FlattenSeq(each(i)) \in Octets
      BY <2>4, FlattenOctets
    <2>6. Enclosed(1, FlattenSeq(each(i))) \in Octets
      <3> HIDE DEF each
      <3>1. QED
        BY <2>5, EnclosedOctets
    <2>7. context_object_id(0, specs[i].object) \in Octets
      <3>1. specs[i].object[1] \in Int /\ specs[i].object[2] \in Int
        BY <2>1 DEF Objects
      <3>2. QED
        BY <3>1, ObjectTags
    <2>8. ReadAccessResult(r(i)) = context_object_id(0, specs[i].object) \o Enclosed(1, FlattenSeq(each(i)))
      <3>1. r(i).object = specs[i].object /\ r(i).properties = properties(i)
        OBVIOUS
      <3> HIDE DEF r
      <3>2. QED
        BY <3>1 DEF ReadAccessResult
    <2>9. QED
      BY <2>6, <2>7, <2>8, Joined
  <1>2. Len(specs) \in Nat /\ Len(results) = Len(specs) /\ \A i \in 1..Len(specs) : results[i] = r(i)
    <2> HIDE DEF r
    <2>1. QED
      OBVIOUS
  <1>3. ServerReadMultiple(f, specs) = <<read_property_multiple_ack(invoke_id(f)[1], results)>>
    BY Zenon DEF ServerReadMultiple, Some
  <1> HIDE DEF results, r
  <1>4. all \in Seq(Octets)
    BY <1>1, <1>2
  <1>5. FlattenSeq(all) \in Octets
    BY <1>4, FlattenOctets
  <1>6. SERVICE_READ_PROPERTY_MULTIPLE \in Octet
    BY OctetIs DEF SERVICE_READ_PROPERTY_MULTIPLE
  <1> HIDE DEF all
  <1>7. complex_ack(invoke_id(f)[1], SERVICE_READ_PROPERTY_MULTIPLE, FlattenSeq(all)) \in Octets
    BY <1>5, <1>6, ConfirmedOctets
  <1>8. read_property_multiple_ack(invoke_id(f)[1], results) \in Octets
    BY <1>7 DEF read_property_multiple_ack, all
  <1>9. QED
    BY <1>3, <1>8

\* The I-Am of the simulated device.
LEMMA IAmOctets == i_am(Peer.instance, 389) \in Octets
  <1> DEFINE device == <<OBJECT_TYPE_DEVICE, Peer.instance>>
             max == application_unsigned(1476)
             vendor == application_unsigned(389)
             header == <<16 * PDU_UNCONFIRMED_REQUEST, SERVICE_I_AM>>
  <1>1. Peer.instance \in Int /\ OBJECT_TYPE_DEVICE \in Int
    <2>1. MAX_INSTANCE \in Int
      BY SMT DEF MAX_INSTANCE
    <2>2. Peer.instance \in 0..MAX_INSTANCE-1
      BY PeerAssumption, Zenon
    <2>3. QED
      BY <2>1, <2>2, SMT DEF OBJECT_TYPE_DEVICE
  <1>2. device[1] \in Int /\ device[2] \in Int
    BY <1>1
  <1>3. header \in Octets
    <2>1. 16 * PDU_UNCONFIRMED_REQUEST \in Octet /\ SERVICE_I_AM \in Octet
      BY OctetIs DEF PDU_UNCONFIRMED_REQUEST, SERVICE_I_AM
    <2>2. QED
      BY <2>1, HeaderOctets
  <1> HIDE DEF device, header
  <1>4. application_object_id(device) \in Octets
    BY <1>2, ObjectTags
  <1>5. max \in Octets /\ application_enumerated(3) \in Octets /\ vendor \in Octets
    <2>1. 1476 \in Nat /\ 389 \in Nat /\ 3 \in Nat
      BY SMT
    <2>2. QED
      BY <2>1, ApplicationNumbers, SMT
  <1> HIDE DEF max, vendor
  <1>6. header \o application_object_id(device) \in Octets
    BY <1>3, <1>4, Joined
  <1>7. header \o application_object_id(device) \o max \in Octets
    BY <1>5, <1>6, Joined
  <1>8. header \o application_object_id(device) \o max
        \o application_enumerated(3) \in Octets
    BY <1>5, <1>7, Joined
  <1>9. header \o application_object_id(device) \o max \o application_enumerated(3) \o vendor \in Octets
    BY <1>5, <1>8, Joined
  <1>10. QED
    BY <1>9, SMT DEF i_am, header, device, max, vendor

\* Whatever octets a request is, the server's answer, if it gives one, is octets.
LEMMA AnswerOctets ==
    ASSUME NEW f, f.payload \in Octets, Given(ServerAnswer(f))
    PROVE  ServerAnswer(f)[1] \in Octets
  <1> DEFINE confirmed == IsPdu(f, {PDU_CONFIRMED_REQUEST})
             specs == read_access_specifications(SubSeq(f.payload, 5, Len(f.payload)))
             request == parse_read_property_request(f.payload)
  <1>1. \/ /\ confirmed /\ service(f) = Some(SERVICE_READ_PROPERTY_MULTIPLE)
           /\ ServerAnswer(f) = ServerReadMultiple(f, specs)
        \/ /\ confirmed /\ service(f) = Some(SERVICE_READ_PROPERTY)
           /\ ServerAnswer(f) = ServerReadProperty(f, request)
        \/ ServerAnswer(f) = DeviceWhoIs(f)
    BY Zenon DEF ServerAnswer, Given, From
  <1>2. \A choice : Given(Some(choice))
    BY DEF Given, Some, None
  <1>3. CASE confirmed /\ service(f) = Some(SERVICE_READ_PROPERTY_MULTIPLE)
             /\ ServerAnswer(f) = ServerReadMultiple(f, specs)
    <2>1. invoke_id(f)[1] \in Octet
      BY <1>2, <1>3, RequestId
    <2>2. From(f.payload, 5) \in Octets
      BY DEF From, Octets
    <2>3. specs \in Seq([object : Objects, properties : Seq(Nat)])
      BY <2>2, SpecificationsTyped DEF From
    <2> HIDE DEF specs
    <2>4. QED
      BY <1>3, <2>1, <2>3, ServerReadMultipleOctets
  <1>4. CASE confirmed /\ service(f) = Some(SERVICE_READ_PROPERTY)
             /\ ServerAnswer(f) = ServerReadProperty(f, request)
    <2>1. invoke_id(f)[1] \in Octet
      BY <1>2, <1>4, RequestId
    <2>2. Given(ServerReadProperty(f, request))
      BY <1>4, Zenon
    <2>3. ServerReadProperty(f, request)[1] \in Octets
      BY <2>1, <2>2, ServerReadPropertyOctets
    <2>4. QED
      BY <1>4, <2>3, Zenon
  <1>5. CASE ServerAnswer(f) = DeviceWhoIs(f)
    <2>1. DeviceWhoIs(f) = <<i_am(Peer.instance, 389)>>
      BY <1>5, Zenon DEF DeviceWhoIs, Given, Some
    <2>2. QED
      BY <1>5, <2>1, IAmOctets
  <1>6. QED
    BY <1>1, <1>3, <1>4, <1>5, Zenon

-----------------------------------------------------------------------------
(* Addressing: what Frame reads in the header npdu() made                  *)

\* int.from_bytes of two octets, and of the two a number was put in.
LEMMA TwoOctets ==
    /\ \A s \in Octets : Len(s) = 2 => FromBytes(s) = 256 * s[1] + s[2]
    /\ \A v \in Nat : v < 65536 => 256 * ToBytes(v, 2)[1] + ToBytes(v, 2)[2] = v
  <1>1. ASSUME NEW s \in Octets, Len(s) = 2 PROVE FromBytes(s) = 256 * s[1] + s[2]
    <2>1. s \in Seq(Nat) /\ s[1] \in Nat /\ s[2] \in Nat
      <3>1. s \in Seq(Nat) /\ 1 \in 1..Len(s) /\ 2 \in 1..Len(s)
        BY <1>1, OctetsAre
      <3>2. QED
        BY <3>1
    <2>2. 0 \in Int
      OBVIOUS
    <2>3. PICK f : SumsUp(s, 0, f)
      BY <2>1, <2>2, AccumulatedLoop, Zenon
    <2>4. /\ f \in [0..Len(s) -> Int] /\ f[0] = 0
          /\ \A i \in 1..Len(s) : f[i] = 256 * f[i - 1] + s[i]
          /\ Accumulated(s, 0) = f[Len(s)]
      BY <2>3, Zenon DEF SumsUp
    <2>5. f[1] = 256 * f[1 - 1] + s[1] /\ f[2] = 256 * f[2 - 1] + s[2]
      BY <1>1, <2>4
    <2>6. f[1] = s[1] /\ f[2] = 256 * f[1] + s[2]
      BY <2>1, <2>4, <2>5
    <2>7. QED
      BY <1>1, <2>4, <2>6 DEF FromBytes
  <1>2. ASSUME NEW v \in Nat, v < 65536 PROVE 256 * ToBytes(v, 2)[1] + ToBytes(v, 2)[2] = v
    <2>1. ToBytes(v, 2)[1] = (v \div 256^(2 - 1)) % 256 /\ ToBytes(v, 2)[2] = (v \div 256^(2 - 2)) % 256
      BY SMT DEF ToBytes
    <2>2. 256^(2 - 1) = 256 /\ 256^(2 - 2) = 1
      BY SMT
    <2>3. ToBytes(v, 2)[1] = (v \div 256) % 256 /\ ToBytes(v, 2)[2] = v % 256
      BY <2>1, <2>2, SMT
    <2> DEFINE q == v \div 256
               rest == v % 256
    <2>4. q \in Nat /\ q < 256 /\ rest \in Nat /\ v = 256 * q + rest
      BY <1>2, SMT
    <2> HIDE DEF q, rest
    <2>5. q % 256 = q
      BY <2>4, SMT
    <2>6. ToBytes(v, 2)[1] = q /\ ToBytes(v, 2)[2] = rest
      BY <2>3, <2>5, Zenon DEF q, rest
    <2>7. QED
      BY <2>4, <2>6, SMT
  <1>3. QED
    BY <1>1, <1>2

\* An address and its network, as npdu() takes them.
IsAddress(net, address) ==
    /\ net = None \/ (net = <<net[1]>> /\ net[1] \in Nat /\ net[1] < 65536)
    /\ address \in Octets /\ Len(address) <= 255
    /\ ~Given(net) => address = <<>>
Address(net, address) == Optional(net, NetworkAddress(net[1], address))

\* The octets of an address.
LEMMA AddressOctets ==
    ASSUME NEW net, NEW address, IsAddress(net, address)
    PROVE  /\ Address(net, address) \in Octets
           /\ Len(Address(net, address)) = IF Given(net) THEN 3 + Len(address) ELSE 0
           /\ Given(net) => /\ Address(net, address)[1] = ToBytes(net[1], 2)[1]
                            /\ Address(net, address)[2] = ToBytes(net[1], 2)[2]
                            /\ Address(net, address)[3] = Len(address)
                            /\ \A i \in 1..Len(address) : Address(net, address)[3 + i] = address[i]
  <1>1. CASE ~Given(net)
    BY <1>1, OctetsAre DEF Address, Optional
  <1>2. CASE Given(net)
    <2> DEFINE number == ToBytes(net[1], 2)
               length == <<Len(address)>>
    <2>1. Address(net, address) = number \o length \o address
      BY <1>2, Zenon DEF Address, Optional, NetworkAddress
    <2>2. net[1] \in Nat /\ address \in Octets /\ Len(address) \in Nat /\ Len(address) < 256
      BY <1>2, OctetsAre DEF IsAddress, Given
    <2>3. number \in Octets /\ Len(number) = 2
      BY <2>2, ToBytesOctets
    <2>4. length \in Octets /\ Len(length) = 1 /\ length[1] = Len(address)
      BY <2>2, OctetIs, OneOctet
    <2> HIDE DEF number, length
    <2>5. number \o length \in Octets /\ Len(number \o length) = 3
          /\ (number \o length)[1] = number[1] /\ (number \o length)[2] = number[2]
          /\ (number \o length)[2 + 1] = length[1]
      <3>1. /\ number \o length \in Octets /\ Len(number \o length) = Len(number) + Len(length)
            /\ \A i \in 1..Len(number) : (number \o length)[i] = number[i]
            /\ \A i \in 1..Len(length) : (number \o length)[Len(number) + i] = length[i]
        BY <2>3, <2>4, Joined, Zenon
      <3> DEFINE both == number \o length
      <3> HIDE DEF both
      <3>2. both \in Octets /\ Len(both) = 3 /\ both[1] = number[1] /\ both[2] = number[2]
            /\ both[2 + 1] = length[1]
        BY <2>3, <2>4, <3>1 DEF both
      <3>3. QED
        BY <3>2, Zenon DEF both
    <2> DEFINE front == number \o length
    <2> HIDE DEF front
    <2>6. front \in Octets /\ Len(front) = 3 /\ front[1] = number[1] /\ front[2] = number[2]
          /\ front[3] = Len(address)
      BY <2>4, <2>5 DEF front
    <2>7. /\ front \o address \in Octets /\ Len(front \o address) = 3 + Len(address)
          /\ \A i \in 1..3 : (front \o address)[i] = front[i]
          /\ \A i \in 1..Len(address) : (front \o address)[3 + i] = address[i]
      <3>1. /\ front \o address \in Octets /\ Len(front \o address) = Len(front) + Len(address)
            /\ \A i \in 1..Len(front) : (front \o address)[i] = front[i]
            /\ \A i \in 1..Len(address) : (front \o address)[Len(front) + i] = address[i]
        BY <2>2, <2>6, Joined, Zenon
      <3>2. QED
        BY <2>6, <3>1, Zenon
    <2>8. Address(net, address) = front \o address
      BY <2>1, Zenon DEF front
    <2>9. QED
      BY <1>2, <2>6, <2>7, <2>8 DEF number
  <1>3. QED
    BY <1>1, <1>2

\* An address read where one was put, after at octets.
LEMMA AddressRead ==
    ASSUME NEW net, NEW address, IsAddress(net, address), NEW octets \in Octets, NEW at \in Nat,
           at + Len(Address(net, address)) <= Len(octets),
           \A i \in 1..Len(Address(net, address)) : octets[at + i] = Address(net, address)[i]
    PROVE  /\ Given(net) => /\ octets[at + 3] = Len(address)
                            /\ Some(FromBytes(Slice(octets, at + 1, at + 2))) = net
           /\ Slice(octets, at + 4, at + Len(Address(net, address))) = address
  <1> DEFINE a == Address(net, address)
  <1>0. /\ a \in Octets /\ Len(a) = IF Given(net) THEN 3 + Len(address) ELSE 0
        /\ Given(net) => /\ a[1] = ToBytes(net[1], 2)[1] /\ a[2] = ToBytes(net[1], 2)[2]
                         /\ a[3] = Len(address)
                         /\ \A i \in 1..Len(address) : a[3 + i] = address[i]
    BY AddressOctets
  <1>1. at + Len(a) <= Len(octets) /\ \A i \in 1..Len(a) : octets[at + i] = a[i]
    OBVIOUS
  <1> HIDE DEF a
  <1>2. Len(octets) \in Nat /\ Len(address) \in Nat /\ address \in Octets
    BY OctetsAre DEF IsAddress
  <1>3. CASE Given(net)
    <2>1. Len(a) = 3 + Len(address)
      BY <1>0, <1>3
    <2>2. octets[at + 1] = a[1] /\ octets[at + 2] = a[2] /\ octets[at + 3] = a[3]
      BY <1>1, <1>2, <2>1
    <2>3. net = <<net[1]>> /\ net[1] \in Nat /\ net[1] < 65536
      BY <1>3 DEF Given, IsAddress
    <2> DEFINE pair == Slice(octets, at + 1, at + 2)
    <2>4. pair \in Octets /\ Len(pair) = 2 /\ pair[1] = octets[at + 1] /\ pair[2] = octets[at + 2]
      <3>1. at + 1 \in Nat /\ at + 1 >= 1 /\ at + 2 \in Int /\ at + 2 <= Len(octets)
            /\ at + 1 <= (at + 2) + 1
        BY <1>1, <1>2, <2>1
      <3>2. /\ pair \in Octets /\ Len(pair) = (at + 2) + 1 - (at + 1)
            /\ \A i \in 1..Len(pair) : pair[i] = octets[(at + 1) + i - 1]
        BY <3>1, SliceOctets
      <3> HIDE DEF pair
      <3>3. Len(pair) = 2
        BY <3>2
      <3>4. pair[1] = octets[(at + 1) + 1 - 1] /\ pair[2] = octets[(at + 1) + 2 - 1]
        BY <3>2, <3>3
      <3>5. QED
        BY <3>2, <3>3, <3>4
    <2> HIDE DEF pair
    <2>5. FromBytes(pair) = 256 * a[1] + a[2]
      BY <2>2, <2>4, TwoOctets
    <2>6. FromBytes(pair) = net[1]
      BY <1>0, <1>3, <2>3, <2>5, TwoOctets
    <2>7. Some(FromBytes(pair)) = net
      <3> DEFINE number == net[1]
      <3> HIDE DEF number
      <3>1. net = <<number>> /\ FromBytes(pair) = number
        BY <2>3, <2>6 DEF number
      <3>2. QED
        BY <3>1, Zenon DEF Some
    <2> DEFINE part == Slice(octets, at + 4, at + Len(a))
    <2>8. /\ part \in Octets /\ Len(part) = Len(address)
          /\ \A i \in 1..Len(part) : part[i] = octets[(at + 4) + i - 1]
      <3>1. at + 4 \in Nat /\ at + 4 >= 1 /\ at + Len(a) \in Int /\ at + Len(a) <= Len(octets)
            /\ at + 4 <= (at + Len(a)) + 1
        BY <1>1, <1>2, <2>1
      <3>2. /\ part \in Octets /\ Len(part) = (at + Len(a)) + 1 - (at + 4)
            /\ \A i \in 1..Len(part) : part[i] = octets[(at + 4) + i - 1]
        BY <3>1, SliceOctets
      <3>3. (at + Len(a)) + 1 - (at + 4) = Len(address)
        BY <1>2, <2>1
      <3>4. QED
        BY <3>2, <3>3
    <2> HIDE DEF part
    <2>9. \A i \in 1..Len(part) : part[i] = address[i]
      <3>1. TAKE i \in 1..Len(part)
      <3>2. i \in Nat /\ (at + 4) + i - 1 = at + (3 + i) /\ 3 + i \in 1..Len(a) /\ i \in 1..Len(address)
        BY <1>2, <2>1, <2>8
      <3>3. part[i] = octets[at + (3 + i)] /\ octets[at + (3 + i)] = a[3 + i] /\ a[3 + i] = address[i]
        BY <1>0, <1>1, <1>3, <2>8, <3>2
      <3>4. QED
        BY <3>3
    <2>10. part = address
      BY <1>2, <2>8, <2>9, SameOctets
    <2>11. QED
      BY <1>0, <1>3, <2>2, <2>7, <2>10 DEF pair, part, a
  <1>4. CASE ~Given(net)
    <2>1. Len(a) = 0 /\ address = <<>>
      BY <1>0, <1>4 DEF IsAddress
    <2>2. Slice(octets, at + 4, at + Len(a)) = <<>>
      <3>1. Slice(octets, at + 4, at) = SubSeq(octets, at + 4, IF at <= Len(octets) THEN at ELSE Len(octets))
        BY <1>2, Smaller DEF Slice
      <3>2. at <= Len(octets) /\ at + Len(a) = at
        BY <1>1, <1>2, <2>1
      <3>3. SubSeq(octets, at + 4, at) = <<>>
        BY SubSeqEmpty
      <3>4. QED
        BY <3>1, <3>2, <3>3
    <2>3. QED
      BY <1>4, <2>1, <2>2 DEF a
  <1>5. QED
    BY <1>3, <1>4

\* What npdu() can be asked for: a route's addressing and a reply's.
WellAddressed(r) ==
    /\ r.network_message = None /\ r.expecting_reply \in BOOLEAN
    /\ IsAddress(r.dnet, r.dadr) /\ IsAddress(r.snet, r.sadr)
Control(r) ==
    (IF Given(r.network_message) THEN 128 ELSE 0) + (IF Given(r.dnet) THEN 32 ELSE 0)
    + (IF Given(r.snet) THEN 8 ELSE 0) + (IF r.expecting_reply THEN 4 ELSE 0)
\* The header of an NPDU that is no network message.
Pci(r) ==
    <<1, Control(r)>> \o Address(r.dnet, r.dadr) \o Address(r.snet, r.sadr) \o Optional(r.dnet, <<255>>)

\* The control octet says which addresses follow.
LEMMA ControlBits ==
    ASSUME NEW r, WellAddressed(r)
    PROVE  /\ Control(r) \in Octet
           /\ Bit(Control(r), 128) = FALSE
           /\ Bit(Control(r), 32) = Given(r.dnet)
           /\ Bit(Control(r), 8) = Given(r.snet)
           /\ Bit(Control(r), 4) = r.expecting_reply
  <1> DEFINE a == IF Given(r.dnet) THEN 1 ELSE 0
             b == IF Given(r.snet) THEN 1 ELSE 0
             e == IF r.expecting_reply THEN 1 ELSE 0
             c == Control(r)
  <1>1. ~Given(r.network_message)
    BY DEF WellAddressed, Given
  <1>2. c = 32 * a + 8 * b + 4 * e
    BY <1>1 DEF Control
  <1>3. /\ a \in {0, 1} /\ b \in {0, 1} /\ e \in {0, 1}
        /\ (a = 1) <=> Given(r.dnet)
        /\ (b = 1) <=> Given(r.snet)
        /\ (e = 1) <=> r.expecting_reply
    OBVIOUS
  <1> HIDE DEF a, b, e, c
  <1>4. /\ c \in Nat /\ c < 256 /\ (c \div 128) % 2 = 0
        /\ (c \div 32) % 2 = a /\ (c \div 8) % 2 = b /\ (c \div 4) % 2 = e
    BY <1>2, <1>3, SMT
  <1>5. /\ Bit(c, 128) <=> FALSE
        /\ Bit(c, 32) <=> a = 1
        /\ Bit(c, 8) <=> b = 1
        /\ Bit(c, 4) <=> e = 1
    BY <1>4, SMT DEF Bit
  <1>6. c \in Octet
    BY <1>4, OctetIs
  <1>7. \A octet, value : Bit(octet, value) \in BOOLEAN
    BY Zenon DEF Bit
  <1>8. Given(r.dnet) \in BOOLEAN /\ Given(r.snet) \in BOOLEAN /\ r.expecting_reply \in BOOLEAN
    BY Zenon DEF Given, WellAddressed
  <1>9. QED
    BY <1>3, <1>5, <1>6, <1>7, <1>8, Zenon DEF c

\* The octets of the header: version, control, addresses, and a hop count.
LEMMA PciOctets ==
    ASSUME NEW r, WellAddressed(r)
    PROVE  LET d == Address(r.dnet, r.dadr)
               s == Address(r.snet, r.sadr)
               hop == IF Given(r.dnet) THEN 1 ELSE 0
           IN  /\ Pci(r) \in Octets /\ Len(Pci(r)) = 2 + Len(d) + Len(s) + hop
               /\ Pci(r)[1] = 1 /\ Pci(r)[2] = Control(r)
               /\ \A i \in 1..Len(d) : Pci(r)[2 + i] = d[i]
               /\ \A i \in 1..Len(s) : Pci(r)[2 + Len(d) + i] = s[i]
  <1> DEFINE d == Address(r.dnet, r.dadr)
             s == Address(r.snet, r.sadr)
             h == Optional(r.dnet, <<255>>)
             hop == IF Given(r.dnet) THEN 1 ELSE 0
             head == <<1, Control(r)>>
  <1>1. d \in Octets /\ s \in Octets
    BY AddressOctets DEF WellAddressed
  <1>2. h \in Octets /\ Len(h) = hop
    <2>1. 255 \in Octet
      BY OctetIs, SMT
    <2> DEFINE count == 255
    <2>2. h = Optional(r.dnet, <<count>>) /\ count \in Octet
      BY <2>1, SMT
    <2> HIDE DEF count, h
    <2>3. <<count>> \in Octets /\ Len(<<count>>) = 1 /\ <<>> \in Octets /\ Len(<<>>) = 0
      BY <2>2, OneOctet, OctetsAre
    <2>4. QED
      BY <2>2, <2>3 DEF Optional
  <1>3. head \in Octets /\ Len(head) = 2 /\ head[1] = 1 /\ head[2] = Control(r)
    <2>1. 1 \in Octet /\ Control(r) \in Octet
      <3>1. 1 \in Octet
        BY OctetIs
      <3>2. QED
        BY <3>1, ControlBits, Zenon
    <2>2. QED
      BY <2>1, HeaderOctets
  <1>4. Pci(r) = ((head \o d) \o s) \o h
    BY Zenon DEF Pci
  <1> HIDE DEF d, s, h, hop, head
  <1> DEFINE x == head \o d
             y == x \o s
             z == y \o h
  <1>5. /\ x \in Octets /\ Len(x) = Len(head) + Len(d)
        /\ \A i \in 1..Len(head) : x[i] = head[i]
        /\ \A i \in 1..Len(d) : x[Len(head) + i] = d[i]
    BY <1>1, <1>3, Joined, Zenon
  <1> HIDE DEF x
  <1>6. /\ y \in Octets /\ Len(y) = Len(x) + Len(s)
        /\ \A i \in 1..Len(x) : y[i] = x[i]
        /\ \A i \in 1..Len(s) : y[Len(x) + i] = s[i]
    BY <1>1, <1>5, Joined, Zenon
  <1> HIDE DEF y
  <1>7. /\ z \in Octets /\ Len(z) = Len(y) + Len(h) /\ \A i \in 1..Len(y) : z[i] = y[i]
    BY <1>2, <1>6, Joined, Zenon
  <1> HIDE DEF z
  <1>8. Pci(r) = z
    BY <1>4, Zenon DEF x, y, z
  <1>9. Len(d) \in Nat /\ Len(s) \in Nat /\ Len(x) = 2 + Len(d) /\ Len(y) = 2 + Len(d) + Len(s)
    BY <1>1, <1>3, <1>5, <1>6, OctetsAre
  <1>10. Len(z) = 2 + Len(d) + Len(s) + hop
    BY <1>2, <1>7, <1>9
  <1>11. z[1] = 1 /\ z[2] = Control(r)
    BY <1>3, <1>5, <1>6, <1>7, <1>9
  <1>12. \A i \in 1..Len(d) : z[2 + i] = d[i]
    <2>1. TAKE i \in 1..Len(d)
    <2>2. 2 + i \in 1..Len(x) /\ 2 + i \in 1..Len(y)
      BY <1>9
    <2>3. QED
      BY <1>3, <1>5, <1>6, <1>7, <2>2
  <1>13. \A i \in 1..Len(s) : z[2 + Len(d) + i] = s[i]
    <2>1. TAKE i \in 1..Len(s)
    <2>2. Len(x) + i \in 1..Len(y)
      BY <1>9
    <2>3. QED
      BY <1>6, <1>7, <1>9, <2>2
  <1>14. QED
    BY <1>7, <1>8, <1>10, <1>11, <1>12, <1>13, Zenon DEF d, s, hop

\* Frame._decode reads back what npdu() was asked for, whatever follows it.
LEMMA DecodeReads ==
    ASSUME NEW r, WellAddressed(r), NEW octets \in Octets, Len(Pci(r)) <= Len(octets),
           \A i \in 1..Len(Pci(r)) : octets[i] = Pci(r)[i]
    PROVE  /\ octets[1] = 1 /\ Len(octets) >= 2
           /\ DecodeNpdu(octets) = [dnet |-> r.dnet, dadr |-> r.dadr, snet |-> r.snet, sadr |-> r.sadr,
                                    expecting_reply |-> r.expecting_reply, network_message |-> None,
                                    payload |-> SubSeq(octets, Len(Pci(r)) + 1, Len(octets))]
  <1> DEFINE d == Address(r.dnet, r.dadr)
             s == Address(r.snet, r.sadr)
             h == IF Given(r.dnet) THEN 1 ELSE 0
             header == Len(Pci(r))
  <1>1. /\ Pci(r) \in Octets /\ header = 2 + Len(d) + Len(s) + h
        /\ Pci(r)[1] = 1 /\ Pci(r)[2] = Control(r)
        /\ \A i \in 1..Len(d) : Pci(r)[2 + i] = d[i]
        /\ \A i \in 1..Len(s) : Pci(r)[2 + Len(d) + i] = s[i]
    BY PciOctets, Zenon
  <1>2. /\ d \in Octets /\ Len(d) = (IF Given(r.dnet) THEN 3 + Len(r.dadr) ELSE 0)
        /\ s \in Octets /\ Len(s) = (IF Given(r.snet) THEN 3 + Len(r.sadr) ELSE 0)
    BY AddressOctets, Zenon DEF WellAddressed
  <1>3. header <= Len(octets) /\ \A i \in 1..header : octets[i] = Pci(r)[i]
    OBVIOUS
  <1>4. /\ IsAddress(r.dnet, r.dadr) /\ IsAddress(r.snet, r.sadr)
        /\ r.dadr \in Octets /\ r.sadr \in Octets
    BY SMT DEF WellAddressed, IsAddress
  <1> HIDE DEF header
  <1>5. /\ Len(d) \in Nat /\ Len(s) \in Nat /\ h \in Nat /\ Len(octets) \in Nat /\ header \in Nat
        /\ Len(r.dadr) \in Nat /\ Len(r.sadr) \in Nat /\ header >= 2 + Len(d) + Len(s)
    <2> HIDE DEF d, s
    <2>1. Len(d) \in Nat /\ Len(s) \in Nat /\ Len(octets) \in Nat /\ Len(r.dadr) \in Nat /\ Len(r.sadr) \in Nat
      BY <1>2, <1>4, OctetsAre
    <2>2. QED
      BY <1>1, <2>1
  <1>6. octets[1] = 1 /\ octets[2] = Control(r) /\ Len(octets) >= 2
    <2> HIDE DEF d, s, h
    <2>1. 1 \in 1..header /\ 2 \in 1..header
      BY <1>5
    <2>2. QED
      BY <1>1, <1>3, <1>5, <2>1
  <1>7. /\ Given(r.dnet) => /\ octets[2 + 3] = Len(r.dadr)
                            /\ Some(FromBytes(Slice(octets, 2 + 1, 2 + 2))) = r.dnet
        /\ Slice(octets, 2 + 4, 2 + Len(d)) = r.dadr
    <2>1. 2 + Len(d) <= Len(octets)
      <3> HIDE DEF d, s, h
      <3>1. QED
        BY <1>3, <1>5
    <2>2. ASSUME NEW i \in 1..Len(d) PROVE octets[2 + i] = d[i]
      <3> HIDE DEF d, s, h
      <3>1. 2 + i \in 1..header
        BY <1>5
      <3>2. octets[2 + i] = Pci(r)[2 + i] /\ Pci(r)[2 + i] = d[i]
        BY <1>1, <1>3, <3>1, Zenon
      <3>3. QED
        BY <3>2
    <2>3. \A at \in Nat : at = 2 =>
            /\ Given(r.dnet) => /\ octets[at + 3] = Len(r.dadr)
                                /\ Some(FromBytes(Slice(octets, at + 1, at + 2))) = r.dnet
            /\ Slice(octets, at + 4, at + Len(d)) = r.dadr
      <3>1. SUFFICES ASSUME NEW at \in Nat, at = 2
                     PROVE  /\ Given(r.dnet) => /\ octets[at + 3] = Len(r.dadr)
                                /\ Some(FromBytes(Slice(octets, at + 1, at + 2))) = r.dnet
                            /\ Slice(octets, at + 4, at + Len(d)) = r.dadr
        BY Zenon
      <3>2. at + Len(d) <= Len(octets) /\ \A i \in 1..Len(d) : octets[at + i] = d[i]
        BY <2>1, <2>2, <3>1, Zenon
      <3> HIDE <3>1
      <3>3. QED
        BY <1>4, <3>2, AddressRead
    <2>4. 2 \in Nat
      OBVIOUS
    <2>5. QED
      BY <2>3, <2>4, Zenon
  <1>8. /\ Given(r.snet) => /\ octets[(2 + Len(d)) + 3] = Len(r.sadr)
                            /\ Some(FromBytes(Slice(octets, (2 + Len(d)) + 1, (2 + Len(d)) + 2))) = r.snet
        /\ Slice(octets, (2 + Len(d)) + 4, (2 + Len(d)) + Len(s)) = r.sadr
    <2> DEFINE at == 2 + Len(d)
    <2> HIDE DEF d, h
    <2>1. at \in Nat /\ at + Len(s) <= Len(octets)
      <3> HIDE DEF s
      <3>1. QED
        BY <1>3, <1>5
    <2>2. ASSUME NEW i \in 1..Len(s) PROVE octets[at + i] = s[i]
      <3> HIDE DEF s
      <3>1. at + i \in 1..header
        BY <1>5
      <3>2. QED
        BY <1>1, <1>3, <3>1
    <2> HIDE DEF at
    <2>3. /\ Given(r.snet) => /\ octets[at + 3] = Len(r.sadr)
                              /\ Some(FromBytes(Slice(octets, at + 1, at + 2))) = r.snet
          /\ Slice(octets, at + 4, at + Len(s)) = r.sadr
      BY <1>4, <2>1, <2>2, AddressRead
    <2>4. QED
      BY <2>3, Zenon DEF at
  <1> DEFINE control == octets[2]
             dlen == IF Bit(control, 32) THEN 3 + octets[5] ELSE 0
             slen == IF Bit(control, 8) THEN 3 + octets[3 + dlen + 2] ELSE 0
             hop  == 3 + dlen + slen
             type == hop + (IF Bit(control, 32) THEN 1 ELSE 0)
             network == IF Bit(control, 128) THEN Some(octets[type]) ELSE None
             Net(at, length) == IF length = 0 THEN None ELSE Some(FromBytes(Slice(octets, at, at + 1)))
             body == type + Len(network) + (IF Given(network) /\ network[1] >= 128 THEN 2 ELSE 0)
             read == [dnet |-> Net(3, dlen), dadr |-> Slice(octets, 6, 2 + dlen),
                      snet |-> Net(3 + dlen, slen), sadr |-> Slice(octets, 6 + dlen, 2 + dlen + slen),
                      expecting_reply |-> Bit(control, 4), network_message |-> network,
                      payload |-> From(octets, body)]
  <1>9. DecodeNpdu(octets) = read
    BY Zenon DEF DecodeNpdu
  <1>10. /\ Bit(control, 128) = FALSE /\ Bit(control, 32) = Given(r.dnet)
         /\ Bit(control, 8) = Given(r.snet) /\ Bit(control, 4) = r.expecting_reply
    BY <1>6, ControlBits, ZenonT(60)
  <1> HIDE DEF control, d, s, h
  <1>11. dlen = Len(d)
    BY <1>2, <1>7, <1>10
  <1>12. slen = Len(s)
    <2> HIDE DEF dlen
    <2>1. 3 + dlen + 2 = (2 + Len(d)) + 3
      BY <1>5, <1>11
    <2>2. QED
      BY <1>2, <1>8, <1>10, <2>1
  <1>13. type = header + 1
    <2> HIDE DEF dlen, slen
    <2>1. (IF Bit(control, 32) THEN 1 ELSE 0) = h
      BY <1>10 DEF h
    <2>2. QED
      BY <1>1, <1>5, <1>11, <1>12, <2>1
  <1>14. network = None
    BY <1>10, Zenon
  <1>15. body = header + 1
    <2> HIDE DEF type, network
    <2>1. Len(network) = 0 /\ ~Given(network)
      BY <1>14 DEF None, Given
    <2>2. QED
      BY <1>5, <1>13, <2>1
  <1> HIDE DEF dlen, slen, type, network, body
  <1>16. Net(3, dlen) = r.dnet
    <2>1. CASE Given(r.dnet)
      <3>1. dlen # 0
        BY <1>2, <1>5, <1>11, <2>1
      <3>2. 2 + 1 = 3 /\ 2 + 2 = 3 + 1
        OBVIOUS
      <3>3. QED
        BY <1>7, <2>1, <3>1, <3>2
    <2>2. CASE ~Given(r.dnet)
      <3>1. dlen = 0
        BY <1>2, <1>11, <2>2
      <3>2. QED
        BY <2>2, <3>1, Zenon DEF Given
    <2>3. QED
      BY <2>1, <2>2
  <1>17. Net(3 + dlen, slen) = r.snet
    <2>1. CASE Given(r.snet)
      <3>1. slen # 0
        BY <1>2, <1>5, <1>12, <2>1
      <3>2. (2 + Len(d)) + 1 = 3 + dlen /\ (2 + Len(d)) + 2 = (3 + dlen) + 1
        BY <1>5, <1>11
      <3>3. QED
        BY <1>8, <2>1, <3>1, <3>2
    <2>2. CASE ~Given(r.snet)
      <3>1. slen = 0
        BY <1>2, <1>12, <2>2
      <3>2. QED
        BY <2>2, <3>1, Zenon DEF Given
    <2>3. QED
      BY <2>1, <2>2
  <1>18. Slice(octets, 6, 2 + dlen) = r.dadr
    <2>1. 2 + 4 = 6
      OBVIOUS
    <2>2. QED
      BY <1>7, <1>11, <2>1
  <1>19. Slice(octets, 6 + dlen, 2 + dlen + slen) = r.sadr
    <2>1. (2 + Len(d)) + 4 = 6 + dlen /\ (2 + Len(d)) + Len(s) = 2 + dlen + slen
      BY <1>5, <1>11, <1>12
    <2>2. QED
      BY <1>8, <2>1
  <1>20. From(octets, body) = SubSeq(octets, header + 1, Len(octets))
    BY <1>15, Zenon DEF From
  <1> HIDE DEF Net
  <1>21. read = [dnet |-> r.dnet, dadr |-> r.dadr, snet |-> r.snet, sadr |-> r.sadr,
                 expecting_reply |-> r.expecting_reply, network_message |-> None,
                 payload |-> SubSeq(octets, header + 1, Len(octets))]
    BY <1>10, <1>14, <1>16, <1>17, <1>18, <1>19, <1>20, Zenon
  <1> HIDE DEF read
  <1>22. QED
    BY <1>6, <1>9, <1>21, Zenon DEF header

\* npdu() of a message that is no network message: its header, then the payload.
LEMMA NpduIs ==
    ASSUME NEW r, WellAddressed(r), NEW payload \in Octets
    PROVE  npdu(payload, r) = Pci(r) \o payload
  <1>1. Pci(r) \in Octets
    BY PciOctets, Zenon
  <1>2. npdu(payload, r) = (Pci(r) \o r.network_message) \o payload
    BY Zenon DEF npdu, Pci, Control, Address
  <1>3. r.network_message = <<>>
    BY Zenon DEF WellAddressed, None
  <1>4. Pci(r) \o <<>> = Pci(r)
    BY <1>1, ConcatEmptySeq DEF Octets
  <1>5. QED
    BY <1>2, <1>3, <1>4, Zenon

\* What Frame reads in the first size octets of a datagram is the addressing npdu()
\* was asked for and the start of the payload, or, when that is all of it, the whole.
ReadBack(datagram, size, payload, r) ==
    LET f == Frame(Slice(datagram, 1, size))
    IN  /\ datagram \in Octets /\ f.ok = TRUE /\ f.has_npdu = TRUE
        /\ f.dnet = r.dnet /\ f.dadr = r.dadr /\ f.snet = r.snet /\ f.sadr = r.sadr
        /\ f.expecting_reply = r.expecting_reply /\ f.network_message = None
        /\ f.payload \in Octets /\ Holds(payload, 0, f.payload)
        /\ Len(datagram) <= size => f.payload = payload

\* A datagram around an NPDU: BVLC, an originating address of skip octets, NPDU.
LEMMA FrameReads ==
    ASSUME NEW r, WellAddressed(r), NEW payload \in Octets, NEW function \in {4, 9, 10, 11},
           NEW skip \in Nat, skip = IF function = 4 THEN 6 ELSE 0,
           NEW body \in Octets, Len(body) = skip + Len(npdu(payload, r)),
           \A i \in 1..Len(npdu(payload, r)) : body[skip + i] = npdu(payload, r)[i],
           NEW size \in Nat, size >= 19 + Len(r.dadr) + Len(r.sadr)
    PROVE  ReadBack(bvll(function, body), size, payload, r)
  <1> DEFINE n == npdu(payload, r)
             header == Len(Pci(r))
             first == <<129, function>>
             length == ToBytes(4 + Len(body), 2)
             front == first \o length
             whole == bvll(function, body)
             data == Slice(whole, 1, size)
  <1>1. n = Pci(r) \o payload
    BY NpduIs
  <1>2. /\ Pci(r) \in Octets /\ header \in Nat /\ 2 <= header
        /\ header <= 9 + Len(r.dadr) + Len(r.sadr)
        /\ Len(r.dadr) \in Nat /\ Len(r.sadr) \in Nat
    <2> DEFINE d == Address(r.dnet, r.dadr)
               s == Address(r.snet, r.sadr)
               h == IF Given(r.dnet) THEN 1 ELSE 0
    <2>1. Pci(r) \in Octets /\ header = 2 + Len(d) + Len(s) + h
      BY PciOctets, Zenon
    <2>2. IsAddress(r.dnet, r.dadr) /\ IsAddress(r.snet, r.sadr)
      BY Zenon DEF WellAddressed
    <2>3. r.dadr \in Octets /\ r.sadr \in Octets
      BY <2>2, SMT DEF IsAddress
    <2>4. /\ Len(d) = (IF Given(r.dnet) THEN 3 + Len(r.dadr) ELSE 0)
          /\ Len(s) = (IF Given(r.snet) THEN 3 + Len(r.sadr) ELSE 0)
      BY <2>2, AddressOctets
    <2>5. Len(r.dadr) \in Nat /\ Len(r.sadr) \in Nat
      BY <2>3, OctetsAre
    <2>6. h \in {0, 1}
      OBVIOUS
    <2> HIDE DEF d, s, h, header
    <2>7. Len(d) \in Nat /\ Len(d) <= 3 + Len(r.dadr) /\ Len(s) \in Nat /\ Len(s) <= 3 + Len(r.sadr)
      BY <2>4, <2>5
    <2> DEFINE a == Len(d)
               b == Len(s)
               x == Len(r.dadr)
               y == Len(r.sadr)
    <2>8. a \in Nat /\ a <= 3 + x /\ b \in Nat /\ b <= 3 + y /\ x \in Nat /\ y \in Nat /\ header = 2 + a + b + h
      BY <2>1, <2>5, <2>7, Zenon
    <2> HIDE DEF a, b, x, y
    <2>9. header \in Nat /\ 2 <= header /\ header <= 9 + x + y
      BY <2>6, <2>8
    <2>10. QED
      BY <2>1, <2>5, <2>9 DEF x, y
  <1>3. /\ n \in Octets /\ Len(n) = header + Len(payload)
        /\ \A i \in 1..header : n[i] = Pci(r)[i]
        /\ \A i \in 1..Len(payload) : n[header + i] = payload[i]
    <2> DEFINE both == Pci(r) \o payload
    <2>1. /\ both \in Octets /\ Len(both) = Len(Pci(r)) + Len(payload)
          /\ \A i \in 1..Len(Pci(r)) : both[i] = Pci(r)[i]
          /\ \A i \in 1..Len(payload) : both[Len(Pci(r)) + i] = payload[i]
      BY <1>2, Joined, ZenonT(60)
    <2>2. n = both
      BY <1>1
    <2> HIDE DEF both, n
    <2>3. QED
      BY <2>1, <2>2, Zenon
  <1>4. Len(body) = skip + Len(n) /\ \A i \in 1..Len(n) : body[skip + i] = n[i]
    OBVIOUS
  <1>5. Len(payload) \in Nat /\ Len(n) \in Nat /\ Len(body) \in Nat
    BY <1>3, OctetsAre
  <1>6. first \in Octets /\ Len(first) = 2 /\ first[1] = 129 /\ first[2] = function
    <2>1. 129 \in Octet /\ function \in Octet
      BY OctetIs, SMT
    <2>2. first \in Octets
      BY <2>1, HeaderOctets, SMT
    <2>3. QED
      BY <2>2, SMT
  <1>7. length \in Octets /\ Len(length) = 2
    <2>1. 4 + Len(body) \in Int /\ 2 \in 1..4
      BY <1>5
    <2>2. QED
      BY <2>1, ToBytesOctets, Zenon
  <1> HIDE DEF n, first, length, header
  <1>8. /\ front \in Octets /\ Len(front) = Len(first) + Len(length)
        /\ \A i \in 1..Len(first) : front[i] = first[i]
    <2>1. first \in Octets /\ length \in Octets
      BY <1>6, <1>7
    <2>2. QED
      BY <2>1, Joined, ZenonT(60)
  <1>9. whole = front \o body
    BY SMT DEF bvll, first, length
  <1> HIDE DEF front
  <1>10. /\ whole \in Octets /\ Len(whole) = Len(front) + Len(body)
         /\ \A i \in 1..Len(front) : whole[i] = front[i]
         /\ \A i \in 1..Len(body) : whole[Len(front) + i] = body[i]
    <2> DEFINE both == front \o body
    <2>1. /\ both \in Octets /\ Len(both) = Len(front) + Len(body)
          /\ \A i \in 1..Len(front) : both[i] = front[i]
          /\ \A i \in 1..Len(body) : both[Len(front) + i] = body[i]
      BY <1>8, Joined, ZenonT(60)
    <2>2. whole = both
      BY <1>9
    <2> HIDE DEF both, whole
    <2>3. QED
      BY <2>1, <2>2, Zenon
  <1> HIDE DEF whole
  <1>11. /\ Len(whole) = 4 + skip + header + Len(payload) /\ whole[1] = 129 /\ whole[2] = function
         /\ \A i \in 1..Len(body) : whole[4 + i] = body[i]
    <2>1. Len(front) = 4
      BY <1>6, <1>7, <1>8, SMT
    <2>2. front[1] = 129 /\ front[2] = function
      BY <1>6, <1>8, SMT
    <2>3. whole[1] = front[1] /\ whole[2] = front[2]
      BY <1>10, <2>1, SMT
    <2>4. Len(whole) = 4 + Len(body) /\ \A i \in 1..Len(body) : whole[4 + i] = body[i]
      BY <1>10, <2>1, Zenon
    <2>5. Len(body) = skip + header + Len(payload)
      <3> DEFINE p == Len(payload)
                 c == Len(n)
      <3>1. Len(body) = skip + c /\ c = header + p /\ p \in Nat /\ header \in Nat
        BY <1>2, <1>3, <1>4, <1>5, Zenon
      <3> HIDE DEF p, c
      <3>2. Len(body) = skip + header + p
        BY <3>1
      <3>3. QED
        BY <3>2 DEF p
    <2>6. Len(whole) = 4 + skip + header + Len(payload)
      BY <1>2, <1>5, <2>4, <2>5, SMT
    <2>7. QED
      BY <2>2, <2>3, <2>4, <2>6, SMT
  <1> DEFINE m == IF size <= Len(whole) THEN size ELSE Len(whole)
  <1>12. Len(whole) \in Nat /\ m \in Nat /\ m <= Len(whole) /\ m >= 4 + skip + header
    <2> DEFINE x == Len(r.dadr)
               y == Len(r.sadr)
               w == Len(whole)
               p == Len(payload)
    <2>1. skip <= 6
      OBVIOUS
    <2>2. /\ x \in Nat /\ y \in Nat /\ p \in Nat /\ header \in Nat /\ header <= 9 + x + y
          /\ w = 4 + skip + header + p /\ size >= 19 + x + y
      BY <1>2, <1>5, <1>11
    <2> HIDE DEF x, y, w, p
    <2>3. w \in Nat /\ w >= 4 + skip + header /\ size >= 4 + skip + header
      BY <2>1, <2>2
    <2>4. QED
      BY <2>3 DEF w
  <1>13. data = SubSeq(whole, 1, m)
    <2>1. Min({size, Len(whole)}) = m
      BY <1>12, Smaller
    <2>2. QED
      BY <2>1, Zenon DEF Slice
  <1>14. Len(whole) <= size => m = Len(whole)
    BY <1>12
  <1> HIDE DEF data, m
  <1>15. data \in Octets /\ Len(data) = m /\ \A i \in 1..m : data[i] = whole[i]
    <2>1. /\ SubSeq(whole, 1, m) \in Octets /\ Len(SubSeq(whole, 1, m)) = m + 1 - 1
          /\ \A i \in 1..(m + 1 - 1) : SubSeq(whole, 1, m)[i] = whole[1 + i - 1]
      BY <1>10, <1>12, PartOf
    <2>2. m + 1 - 1 = m /\ \A i \in 1..m : 1 + i - 1 = i
      BY <1>12
    <2>3. QED
      BY <1>13, <2>1, <2>2
  <1>16. data[1] = 129 /\ data[2] = function
    BY <1>2, <1>11, <1>12, <1>15
  <1> DEFINE offset == IF data[2] = 4 THEN 11 ELSE 5
             octets == From(data, offset)
  <1>17. offset = 5 + skip
    BY <1>16
  <1> HIDE DEF offset
  <1>18. /\ octets \in Octets /\ Len(octets) = m - 4 - skip
         /\ \A i \in 1..Len(octets) : octets[i] = data[4 + skip + i]
    <2>1. /\ 5 + skip \in Nat /\ 5 + skip >= 1 /\ m \in Int /\ m <= Len(data) /\ 5 + skip <= m + 1
      BY <1>2, <1>12, <1>15
    <2>2. octets = SubSeq(data, 5 + skip, m)
      BY <1>15, <1>17, Zenon DEF From
    <2> HIDE DEF octets
    <2>3. /\ octets \in Octets /\ Len(octets) = m + 1 - (5 + skip)
          /\ \A i \in 1..(m + 1 - (5 + skip)) : octets[i] = data[(5 + skip) + i - 1]
      BY <1>15, <2>1, <2>2, PartOf
    <2>4. m + 1 - (5 + skip) = m - 4 - skip /\ \A i \in Int : (5 + skip) + i - 1 = 4 + skip + i
      BY <1>12
    <2>5. QED
      BY <2>3, <2>4
  <1> HIDE DEF octets
  <1>19. \A i \in 1..Len(octets) : i \in 1..Len(n) /\ octets[i] = n[i]
    <2>1. TAKE i \in 1..Len(octets)
    <2>2. /\ i \in 1..Len(n) /\ skip + i \in 1..Len(body) /\ 4 + skip + i \in 1..m
          /\ 4 + (skip + i) = 4 + skip + i
      <3> DEFINE k == Len(octets)
                 c == Len(n)
                 b == Len(body)
                 w == Len(whole)
                 p == Len(payload)
      <3>1. /\ i \in 1..k /\ k = m - 4 - skip /\ m <= w /\ w = 4 + skip + header + p
            /\ c = header + p /\ b = skip + c /\ p \in Nat /\ header \in Nat /\ m \in Nat
        BY <1>2, <1>3, <1>4, <1>5, <1>11, <1>12, <1>18
      <3> HIDE DEF k, c, b, w, p
      <3>2. i \in 1..c /\ skip + i \in 1..b /\ 4 + skip + i \in 1..m /\ 4 + (skip + i) = 4 + skip + i
        BY <3>1
      <3>3. QED
        BY <3>2 DEF c, b
    <2>3. octets[i] = whole[4 + (skip + i)] /\ whole[4 + (skip + i)] = body[skip + i]
      <3>1. octets[i] = data[4 + skip + i]
        BY <1>18
      <3>2. data[4 + skip + i] = whole[4 + skip + i]
        BY <1>15, <2>2, Zenon
      <3>3. whole[4 + (skip + i)] = body[skip + i]
        BY <1>11, <2>2
      <3>4. QED
        BY <2>2, <3>1, <3>2, <3>3
    <2>4. QED
      BY <1>4, <2>2, <2>3
  <1>20. header <= Len(octets) /\ \A i \in 1..header : octets[i] = Pci(r)[i]
    <2>1. header <= Len(octets) /\ Len(octets) \in Nat
      BY <1>2, <1>12, <1>18
    <2>2. QED
      BY <1>2, <1>3, <1>19, <2>1
  <1> DEFINE rest == SubSeq(octets, header + 1, Len(octets))
             decoded == DecodeNpdu(octets)
  <1>21. /\ octets[1] = 1 /\ Len(octets) >= 2
         /\ decoded = [dnet |-> r.dnet, dadr |-> r.dadr, snet |-> r.snet, sadr |-> r.sadr,
                       expecting_reply |-> r.expecting_reply, network_message |-> None, payload |-> rest]
    BY <1>18, <1>20, DecodeReads, Zenon DEF header
  <1>22. /\ rest \in Octets /\ Len(rest) = Len(octets) - header
         /\ \A i \in 1..Len(rest) : rest[i] = octets[header + i]
    <2> DEFINE k == Len(octets)
    <2>0. k \in Nat /\ header <= k
      BY <1>18, <1>20, OctetsAre
    <2>1. /\ header + 1 \in Nat /\ header + 1 >= 1 /\ k \in Int /\ k <= Len(octets) /\ header + 1 <= k + 1
      BY <1>2, <2>0
    <2>2. /\ SubSeq(octets, header + 1, k) \in Octets
          /\ Len(SubSeq(octets, header + 1, k)) = k + 1 - (header + 1)
          /\ \A i \in 1..(k + 1 - (header + 1)) :
               SubSeq(octets, header + 1, k)[i] = octets[(header + 1) + i - 1]
      BY <1>18, <2>1, PartOf, SMTT(30)
    <2>3. k + 1 - (header + 1) = k - header /\ \A i \in Int : (header + 1) + i - 1 = header + i
      BY <1>2, <2>0
    <2> HIDE DEF k
    <2>4. rest = SubSeq(octets, header + 1, k)
      BY Zenon DEF k
    <2> HIDE DEF rest
    <2>5. QED
      <3>1. Len(rest) = k - header /\ rest \in Octets
        BY <2>2, <2>3, <2>4
      <3>2. ASSUME NEW i \in 1..(k - header) PROVE rest[i] = octets[header + i]
        <4>1. i \in 1..(k + 1 - (header + 1)) /\ i \in Int
          BY <2>0, <2>3, <1>2
        <4>2. QED
          BY <2>2, <2>3, <2>4, <4>1
      <3>3. QED
        BY <3>1, <3>2 DEF k
  <1> HIDE DEF rest, decoded
  <1>23. Len(whole) <= size => rest = payload
    <2>1. SUFFICES ASSUME Len(whole) <= size PROVE rest = payload
      OBVIOUS
    <2>2. Len(rest) = Len(payload)
      BY <1>2, <1>5, <1>11, <1>14, <1>18, <1>22, <2>1
    <2>3. \A i \in 1..Len(rest) : rest[i] = payload[i]
      <3>1. TAKE i \in 1..Len(rest)
      <3>2. header + i \in 1..Len(octets) /\ i \in 1..Len(payload)
        BY <1>2, <1>5, <1>18, <1>22, <2>2, OctetsAre
      <3>3. QED
        BY <1>3, <1>19, <1>22, <3>2
    <2>4. QED
      BY <1>22, <2>2, <2>3, SameOctets
  <1>24. Holds(payload, 0, rest)
    <2> DEFINE k == Len(rest)
               p == Len(payload)
               o == Len(octets)
               c == Len(n)
    <2>1. ASSUME NEW i \in 1..k PROVE header + i \in 1..o /\ header + i \in Int
      <3>1. k = o - header /\ header \in Nat /\ o \in Nat
        BY <1>2, <1>18, <1>22, OctetsAre
      <3> HIDE DEF k, o
      <3>2. QED
        BY <3>1, <2>1
    <2>2. k \in Nat /\ k <= p
      <3>1. k = o - header /\ header \in Nat /\ o \in Nat /\ p \in Nat /\ c = header + p /\ k \in Nat
        BY <1>2, <1>3, <1>5, <1>18, <1>22, OctetsAre
      <3>2. o > 0 => o \in 1..c
        <4>1. o > 0 => o \in 1..o
          BY <3>1
        <4>2. QED
          BY <1>19, <4>1
      <3> HIDE DEF k, o, p, c
      <3>3. QED
        BY <3>1, <3>2
    <2>3. ASSUME NEW i \in 1..k PROVE payload[0 + i] = rest[i]
      <3>1. rest[i] = octets[header + i]
        BY <1>22, <2>3
      <3>2. octets[header + i] = n[header + i]
        BY <1>19, <2>1, <2>3
      <3>3. i \in 1..p /\ 0 + i = i
        BY <1>5, <2>2, <2>3
      <3>4. n[header + i] = payload[i]
        BY <1>3, <3>3
      <3>5. QED
        BY <3>1, <3>2, <3>3, <3>4, Zenon
    <2>4. 0 + k <= p
      BY <2>2
    <2>5. QED
      BY <2>3, <2>4, Zenon DEF Holds
  <1> DEFINE has == data[2] \in {4, 9, 10, 11}
             fields == IF has THEN decoded ELSE NoNpdu
             made == [ok |-> TRUE, bvlc_function |-> data[2], bvll_data |-> From(data, 5),
                      has_npdu |-> has, originating_mac |-> Slice(data, 5, offset - 1),
                      dnet |-> fields.dnet, dadr |-> fields.dadr, snet |-> fields.snet, sadr |-> fields.sadr,
                      expecting_reply |-> fields.expecting_reply,
                      network_message |-> fields.network_message, payload |-> fields.payload]
  <1>25. ~(Len(data) < 4) /\ data[1] = 129 /\ ~(Len(octets) < 2)
    BY <1>2, <1>12, <1>15, <1>16, <1>18, <1>21
  <1>26. has = TRUE /\ fields = decoded
    BY <1>16
  <1> HIDE DEF fields, has
  <1>27. Frame(data) = made
    BY <1>21, <1>25, SMT DEF Frame, octets, offset, decoded, fields, has
  <1>28. /\ made.ok = TRUE /\ made.has_npdu = TRUE
         /\ made.dnet = r.dnet /\ made.dadr = r.dadr /\ made.snet = r.snet /\ made.sadr = r.sadr
         /\ made.expecting_reply = r.expecting_reply /\ made.network_message = None
         /\ made.payload = rest
    BY <1>21, <1>26
  <1> HIDE DEF made
  <1>29. QED
    BY <1>10, <1>22, <1>23, <1>24, <1>27, <1>28, Zenon DEF ReadBack, data, whole

-----------------------------------------------------------------------------
(* Datagrams and replies                                                   *)

\* A route is addressing npdu() can be asked for, in headers of a bounded length.
LEMMA RouteAddressed ==
    ASSUME NEW r \in Routes
    PROVE  /\ WellAddressed(r)
           /\ r.via = "forwarded" => r.originating \in Octets /\ Len(r.originating) = 6
           /\ Len(r.dadr) \in Nat /\ Len(r.dadr) <= 255 /\ Len(r.sadr) \in Nat /\ Len(r.sadr) <= 255
  <1>1. \A x \in NetworkNumbers : x \in Nat /\ x < 65536
    BY SMTT(30) DEF NetworkNumbers
  <1>2. /\ r.network_message = None /\ r.expecting_reply \in BOOLEAN
        /\ \A net \in {r.dnet, r.snet} : net \in Seq(NetworkNumbers) /\ Len(net) <= 1
        /\ \A address \in {r.dadr, r.sadr} : address \in Octets /\ Len(address) <= 255
        /\ ~Given(r.dnet) => r.dadr = <<>>
        /\ ~Given(r.snet) => r.sadr = <<>>
        /\ r.via = "forwarded" => r.originating \in Octets /\ Len(r.originating) = 6
    BY RoutesAssumption, Zenon
  <1>3. ASSUME NEW net \in Seq(NetworkNumbers), Len(net) <= 1
        PROVE  net = None \/ (net = <<net[1]>> /\ net[1] \in NetworkNumbers)
    <2>1. CASE Len(net) = 0
      BY <2>1 DEF None
    <2>2. CASE Len(net) = 1
      BY <2>2
    <2>3. Len(net) = 0 \/ Len(net) = 1
      <3> DEFINE k == Len(net)
      <3>1. k \in Nat /\ k <= 1
        BY <1>3
      <3> HIDE DEF k
      <3>2. k = 0 \/ k = 1
        BY <3>1
      <3>3. QED
        BY <3>2, Zenon DEF k
    <2>4. QED
      BY <2>1, <2>2, <2>3, Zenon
  <1>4. ASSUME NEW net \in {r.dnet, r.snet}
        PROVE  net = None \/ (net = <<net[1]>> /\ net[1] \in Nat /\ net[1] < 65536)
    BY <1>1, <1>2, <1>3, SMT
  <1>5. IsAddress(r.dnet, r.dadr) /\ IsAddress(r.snet, r.sadr)
    BY <1>2, <1>4, SMT DEF IsAddress
  <1>6. r.dadr \in Octets /\ r.sadr \in Octets /\ Len(r.dadr) <= 255 /\ Len(r.sadr) <= 255
    BY <1>2, SMT
  <1>7. Len(r.dadr) \in Nat /\ Len(r.sadr) \in Nat
    BY <1>6, OctetsAre
  <1>8. WellAddressed(r)
    BY <1>2, <1>5, SMT DEF WellAddressed
  <1>9. QED
    BY <1>2, <1>6, <1>7, <1>8, SMT

\* What arrives of a datagram holds its headers.
LEMMA Sizes ==
    ASSUME NEW r \in Routes, NEW size \in {RECEIVE_SIZE} \cup CutSizes
    PROVE  size \in Nat /\ size >= 19 + Len(r.dadr) + Len(r.sadr)
  <1> DEFINE x == Len(r.dadr)
             y == Len(r.sadr)
  <1>1. x \in Nat /\ x <= 255 /\ y \in Nat /\ y <= 255
    BY RouteAddressed, SMT
  <1>2. size \in CutSizes => size \in Nat /\ size >= 22 + x + y
    BY CutSizesAssumption, Zenon
  <1> HIDE DEF x, y
  <1>3. size \in Nat /\ size >= 19 + x + y
    BY <1>1, <1>2, SMT DEF RECEIVE_SIZE
  <1>4. QED
    BY <1>3, Zenon DEF x, y

\* Frame reads in a datagram the addressing npdu() was asked for and, when none of
\* it is lost, exactly the payload, for every route of the wire tests: directly, as
\* a broadcast, forwarded by a BBMD or distributed for a foreign device, with or
\* without either address, of any length.
THEOREM FrameRoundTrip ==
    ASSUME NEW r \in Routes, NEW payload \in Octets, NEW size \in {RECEIVE_SIZE} \cup CutSizes
    PROVE  ReadBack(Carried(npdu(payload, r), r), size, payload, r)
  <1> DEFINE n == npdu(payload, r)
             Reads(octets) == ReadBack(octets, size, payload, r)
  <1>1. WellAddressed(r) /\ size \in Nat /\ size >= 19 + Len(r.dadr) + Len(r.sadr)
    BY RouteAddressed, Sizes, Zenon
  <1>2. n \in Octets
    <2>1. Pci(r) \in Octets
      BY <1>1, PciOctets, Zenon
    <2>2. Pci(r) \o payload \in Octets
      BY <2>1, Joined
    <2>3. QED
      BY <1>1, <2>2, NpduIs
  <1>3. ASSUME NEW function \in {4, 9, 10, 11}, NEW skip \in Nat, skip = IF function = 4 THEN 6 ELSE 0,
               NEW body \in Octets, Len(body) = skip + Len(n), \A i \in 1..Len(n) : body[skip + i] = n[i]
        PROVE  Reads(bvll(function, body))
    BY <1>1, <1>3, FrameReads
  <1> HIDE DEF n, Reads
  <1>4. ASSUME NEW function \in {9, 10, 11} PROVE Reads(bvll(function, n))
    <2> DEFINE skip == 0
    <2>1. /\ function \in {4, 9, 10, 11} /\ skip \in Nat /\ skip = IF function = 4 THEN 6 ELSE 0
      OBVIOUS
    <2>2. Len(n) = skip + Len(n) /\ \A i \in 1..Len(n) : n[skip + i] = n[i]
      BY <1>2, OctetsAre
    <2> HIDE DEF skip
    <2>3. QED
      BY <1>2, <1>3, <2>1, <2>2, Zenon
  <1>5. CASE r.via = "forwarded"
    <2> DEFINE body == r.originating \o n
               function == 4
               skip == 6
    <2>1. r.originating \in Octets /\ Len(r.originating) = skip
      BY <1>5, RouteAddressed, SMT
    <2>2. function \in {4, 9, 10, 11} /\ skip \in Nat /\ skip = IF function = 4 THEN 6 ELSE 0
      OBVIOUS
    <2>3. Carried(n, r) = bvll(function, body)
      BY <1>5, SMT DEF Carried, forwarded_npdu
    <2> HIDE DEF skip, function
    <2>4. body \in Octets /\ Len(body) = skip + Len(n) /\ \A i \in 1..Len(n) : body[skip + i] = n[i]
      BY <1>2, <2>1, Joined, Zenon
    <2> HIDE DEF body
    <2>5. Reads(bvll(function, body))
      BY <1>3, <2>2, <2>4, Zenon
    <2>6. QED
      BY <2>3, <2>5, Zenon DEF n, Reads
  <1>6. CASE r.via # "forwarded"
    <2>1. \E function \in {9, 10, 11} : Carried(n, r) = bvll(function, n)
      BY <1>6, SMT DEF Carried, bvlc, distribute_broadcast_to_network
    <2>2. QED
      BY <1>4, <2>1, Zenon DEF n, Reads
  <1>7. QED
    BY <1>5, <1>6

AsReplied(datagram, size, apdu, r) ==
    LET f == Frame(Slice(datagram, 1, size))
    IN  /\ f.dnet = r.snet /\ f.dadr = r.sadr /\ f.network_message = None /\ datagram \in Octets
        /\ f.payload \in Octets /\ Holds(apdu, 0, f.payload)
        /\ Len(datagram) <= size => f.payload = apdu
\* A reply is read with the address it was given and, when none of it is lost, with
\* the answer, or else its start.
LEMMA ReplyReads ==
    ASSUME NEW f, NEW r \in Routes, f.snet = r.snet, f.sadr = r.sadr, NEW apdu \in Octets,
           NEW size \in {RECEIVE_SIZE} \cup CutSizes
    PROVE  AsReplied(Reply(f, apdu), size, apdu, r)
  <1> DEFINE a == ReplyAddress(f)
             n == npdu(apdu, a)
             function == 10
             skip == 0
  <1>1. IsAddress(r.snet, r.sadr) /\ r.sadr \in Octets
    BY RouteAddressed, SMT DEF WellAddressed, IsAddress
  <1>2. /\ a.dnet = r.snet /\ a.dadr = r.sadr /\ a.snet = None /\ a.sadr = <<>>
        /\ a.network_message = None /\ a.expecting_reply = FALSE
    <2>1. CASE Given(r.snet)
      BY <2>1 DEF ReplyAddress, Plain
    <2>2. CASE ~Given(r.snet)
      <3>1. r.snet = None /\ r.sadr = <<>>
        BY <1>1, <2>2, SMT DEF IsAddress, Given
      <3>2. a = Plain
        BY <2>2 DEF ReplyAddress
      <3>3. QED
        BY <3>1, <3>2 DEF Plain
    <2>3. QED
      BY <2>1, <2>2
  <1> HIDE DEF a
  <1>3. WellAddressed(a)
    <2>1. IsAddress(None, <<>>)
      <3>1. <<>> \in Octets /\ Len(<<>>) = 0
        BY OctetsAre
      <3>2. ~Given(None)
        BY DEF Given
      <3>3. QED
        BY <3>1, <3>2, SMT DEF IsAddress
    <2>2. QED
      BY <1>1, <1>2, <2>1, Zenon DEF WellAddressed
  <1>4. size \in Nat /\ size >= 19 + Len(a.dadr) + Len(a.sadr)
    <2> DEFINE x == Len(r.dadr)
               y == Len(r.sadr)
    <2>1. size \in Nat /\ size >= 19 + x + y /\ x \in Nat /\ y \in Nat
      BY Sizes, RouteAddressed, Zenon
    <2>2. Len(a.dadr) = y /\ Len(a.sadr) = 0
      BY <1>2
    <2> HIDE DEF x, y
    <2>3. QED
      BY <2>1, <2>2
  <1>5. n \in Octets
    <2>1. Pci(a) \in Octets
      BY <1>3, PciOctets, Zenon
    <2>2. Pci(a) \o apdu \in Octets
      BY <2>1, Joined
    <2>3. QED
      BY <1>3, <2>2, NpduIs
  <1>6. Reply(f, apdu) = bvll(function, n)
    BY SMT DEF Reply, bvlc, a
  <1>7. /\ function \in {4, 9, 10, 11} /\ skip \in Nat /\ skip = IF function = 4 THEN 6 ELSE 0
    OBVIOUS
  <1>8. Len(n) = skip + Len(n) /\ \A i \in 1..Len(n) : n[skip + i] = n[i]
    <2> HIDE DEF n
    <2>1. QED
      BY <1>5, OctetsAre
  <1> HIDE DEF function, skip
  <1>9. AsReplied(bvll(function, n), size, apdu, r)
    <2>1. ReadBack(bvll(function, n), size, apdu, a)
      BY <1>3, <1>4, <1>5, <1>7, <1>8, FrameReads
    <2>2. QED
      BY <1>2, <2>1, Zenon DEF ReadBack, AsReplied
  <1>10. QED
    BY <1>6, <1>9, Zenon

-----------------------------------------------------------------------------
(* The reply reaches the source                                            *)

\* The inductive invariant.  ReplyReachesSource says only what is in the returned
\* frame; it rests on what the network and the peer's frame hold before: the
\* datagram of the message as it was routed, the source the peer's Frame read in
\* it, and the reply made of that frame.
FromSource == frame.snet = route.snet /\ frame.sadr = route.sadr /\ frame.payload \in Octets
WireInv ==
    /\ stage \in {"idle", "sent", "received", "decoded", "silent", "answered", "returned", "read"}
    /\ stage # "idle" => message \in Messages /\ route \in Routes
    /\ stage = "sent" => wire = Datagram(message, route)
    /\ stage = "received" /\ message.kind \in Requests => FromSource
    /\ stage = "answered" =>
         /\ FromSource /\ Given(ServerAnswer(frame))
         /\ wire = Reply(frame, ServerAnswer(frame)[1])
    /\ ReplyReachesSource

\* The exchange starts with nothing under way.
LEMMA WireInvInit == WireInit => WireInv
  BY DEF WireInit, WireInv, ReplyReachesSource

\* A message is put in the network as it is routed.
LEMMA WireInvSend ==
    ASSUME WireInv, NEW m \in Messages, NEW r \in Routes, Send(m, r)
    PROVE  WireInv'
  <1>1. stage' = "sent" /\ message' = m /\ route' = r /\ wire' = Datagram(m, r)
    BY DEF Send
  <1>2. wire' = Datagram(message', route')
    BY <1>1
  <1>3. QED
    BY <1>1, <1>2, Zenon DEF WireInv, ReplyReachesSource

\* The frame the peer makes of a request names its source, and the frame the
\* client makes of the answer is addressed to it.
LEMMA WireInvReceive ==
    ASSUME WireInv, NEW size \in {RECEIVE_SIZE} \cup CutSizes, Receive(size)
    PROVE  WireInv'
  <1>0. /\ stage \in {"sent", "answered"} /\ message \in Messages /\ route \in Routes
        /\ stage' = IF stage = "sent" THEN "received" ELSE "returned"
        /\ frame' = Frame(Slice(wire, 1, size)) /\ message' = message /\ route' = route
    <2>1. /\ stage \in {"sent", "answered"}
          /\ stage' = IF stage = "sent" THEN "received" ELSE "returned"
          /\ frame' = Frame(Slice(wire, 1, size)) /\ message' = message /\ route' = route
      BY Zenon DEF Receive
    <2>2. stage # "idle"
      BY <2>1
    <2>3. message \in Messages /\ route \in Routes
      BY <2>2, Zenon DEF WireInv
    <2>4. QED
      BY <2>1, <2>3, Zenon
  <1>1. CASE stage = "sent"
    <2>1. stage' = "received" /\ wire = Datagram(message, route)
      BY <1>0, <1>1 DEF WireInv
    <2>2. ASSUME message.kind \in Requests PROVE FromSource'
      <3> DEFINE payload == Encoded(message)
      <3>1. payload \in Octets
        BY <1>0, <2>2, RequestOctets
      <3> HIDE DEF payload
      <3>2. wire = Carried(npdu(payload, route), route)
        <4>1. message.kind # "table" /\ message.kind # "networks"
          <5>1. \A kind \in Requests : kind # "table" /\ kind # "networks"
            BY Zenon DEF Requests
          <5>2. QED
            BY <2>2, <5>1, Zenon
        <4>2. QED
          BY <2>1, <4>1 DEF Datagram, Addressing, payload
      <3>3. ReadBack(wire, size, payload, route)
        BY <1>0, <3>1, <3>2, FrameRoundTrip
      <3>4. frame'.snet = route.snet /\ frame'.sadr = route.sadr /\ frame'.payload \in Octets
        BY <1>0, <3>3, Zenon DEF ReadBack
      <3>5. QED
        BY <1>0, <3>4 DEF FromSource
    <2>3. QED
      BY <1>0, <2>1, <2>2 DEF WireInv, ReplyReachesSource
  <1>2. CASE stage = "answered"
    <2>1. stage' = "returned"
      BY <1>0, <1>2
    <2> DEFINE apdu == ServerAnswer(frame)[1]
    <2>2. FromSource /\ Given(ServerAnswer(frame)) /\ wire = Reply(frame, apdu)
      BY <1>2 DEF WireInv
    <2>3. apdu \in Octets
      BY <2>2, AnswerOctets DEF FromSource
    <2> HIDE DEF apdu
    <2>4. frame'.dnet = route.snet /\ frame'.dadr = route.sadr
      <3>1. AsReplied(wire, size, apdu, route)
        BY <1>0, <2>2, <2>3, ReplyReads, Zenon DEF FromSource
      <3>2. QED
        BY <1>0, <3>1, Zenon DEF AsReplied
    <2>5. QED
      BY <1>0, <2>1, <2>4 DEF WireInv, ReplyReachesSource
  <1>3. QED
    BY <1>0, <1>1, <1>2

\* The peer answers the source its frame names.
LEMMA WireInvAnswer ==
    ASSUME WireInv, Answer
    PROVE  WireInv'
  <1>0. /\ stage = "received" /\ message.kind \in Requests /\ message \in Messages /\ route \in Routes
        /\ message' = message /\ route' = route /\ frame' = frame /\ FromSource
    BY DEF Answer, WireInv
  <1> DEFINE apdu == ServerAnswer(frame)
  <1>1. /\ stage' = IF Given(apdu) THEN "answered" ELSE "silent"
        /\ wire' = Optional(apdu, Reply(frame, apdu[1]))
    BY Zenon DEF Answer
  <1>2. FromSource'
    BY <1>0 DEF FromSource
  <1>3. ServerAnswer(frame)' = apdu /\ Reply(frame, ServerAnswer(frame)[1])' = Reply(frame, apdu[1])
    BY <1>0
  <1> HIDE DEF apdu
  <1>4. CASE Given(apdu)
    <2>1. stage' = "answered" /\ wire' = Reply(frame, apdu[1])
      BY <1>1, <1>4 DEF Optional
    <2>2. QED
      BY <1>0, <1>2, <1>3, <1>4, <2>1 DEF WireInv, ReplyReachesSource
  <1>5. CASE ~Given(apdu)
    <2>1. stage' = "silent"
      BY <1>1, <1>5
    <2>2. QED
      BY <1>0, <2>1 DEF WireInv, ReplyReachesSource
  <1>6. QED
    BY <1>4, <1>5

\* The other steps change no frame, except to forget the exchange.
LEMMA WireInvOthers ==
    ASSUME WireInv, Decode \/ Read \/ Finish \/ UNCHANGED wireVars
    PROVE  WireInv'
  <1>1. CASE Decode
    BY <1>1 DEF Decode, WireInv, ReplyReachesSource
  <1>2. CASE Read
    <2>1. stage = "returned" /\ stage' = "read" /\ message' = message /\ route' = route /\ frame' = frame
      BY <1>2, Zenon DEF Read
    <2>2. QED
      BY <2>1 DEF WireInv, ReplyReachesSource
  <1>3. CASE Finish
    BY <1>3 DEF Finish, WireInv, ReplyReachesSource
  <1>4. CASE UNCHANGED wireVars
    BY <1>4 DEF wireVars, WireInv, ReplyReachesSource, FromSource
  <1>5. QED
    BY <1>1, <1>2, <1>3, <1>4

\* The exchange of any message, over any route, keeps the invariant.
LEMMA WireInvHolds == WireSpec => []WireInv
  <1>1. WireInit => WireInv
    BY WireInvInit
  <1>2. WireInv /\ [WireNext]_wireVars => WireInv'
    BY WireInvSend, WireInvReceive, WireInvAnswer, WireInvOthers DEF WireNext
  <1>3. QED
    BY <1>1, <1>2, PTL DEF WireSpec

\* peer.py:12-14: for every message, route and way a datagram can be carried, and
\* whatever the simulated server serves, the answer to a request arrives addressed to
\* the network and device the request came from, and any other answer to nobody but
\* the sender.
THEOREM ReplyReachesSourceHolds == WireSpec => []ReplyReachesSource
  <1>1. WireInv => ReplyReachesSource
    BY DEF WireInv
  <1>2. QED
    BY <1>1, WireInvHolds, PTL

-----------------------------------------------------------------------------
(* A ReadProperty request is read as it was meant                          *)

\* int.from_bytes of up to four octets.
LEMMA FewOctets ==
    ASSUME NEW s \in Octets
    PROVE  /\ Len(s) = 1 => FromBytes(s) = s[1]
           /\ Len(s) = 2 => FromBytes(s) = 256 * s[1] + s[2]
           /\ Len(s) = 3 => FromBytes(s) = 256 * (256 * s[1] + s[2]) + s[3]
           /\ Len(s) = 4 => FromBytes(s) = 256 * (256 * (256 * s[1] + s[2]) + s[3]) + s[4]
  <1> DEFINE n == Len(s)
  <1>1. s \in Seq(Nat) /\ n \in Nat /\ \A i \in 1..n : s[i] \in Nat
    BY OctetsAre
  <1>2. 0 \in Int
    OBVIOUS
  <1>3. PICK f : SumsUp(s, 0, f)
    BY <1>1, <1>2, AccumulatedLoop, Zenon
  <1>4. /\ f \in [0..n -> Int] /\ f[0] = 0
        /\ \A i \in 1..n : f[i] = 256 * f[i - 1] + s[i]
        /\ Accumulated(s, 0) = f[n]
    BY <1>3, Zenon DEF SumsUp
  <1>5. FromBytes(s) = f[n]
    BY <1>4, Zenon DEF FromBytes
  <1> HIDE DEF n
  <1>6. n >= 1 => f[1] = s[1]
    <2>1. n >= 1 => 1 \in 1..n /\ 1 - 1 = 0
      BY <1>1
    <2>2. QED
      BY <1>1, <1>4, <2>1
  <1>7. n >= 2 => f[2] = 256 * f[1] + s[2]
    <2>1. n >= 2 => 2 \in 1..n /\ 2 - 1 = 1
      BY <1>1
    <2>2. QED
      BY <1>4, <2>1
  <1>8. n >= 3 => f[3] = 256 * f[2] + s[3]
    <2>1. n >= 3 => 3 \in 1..n /\ 3 - 1 = 2
      BY <1>1
    <2>2. QED
      BY <1>4, <2>1
  <1>9. n >= 4 => f[4] = 256 * f[3] + s[4]
    <2>1. n >= 4 => 4 \in 1..n /\ 4 - 1 = 3
      BY <1>1
    <2>2. QED
      BY <1>4, <2>1
  <1>10. /\ n = 1 => f[n] = s[1]
         /\ n = 2 => f[n] = 256 * s[1] + s[2]
         /\ n = 3 => f[n] = 256 * (256 * s[1] + s[2]) + s[3]
         /\ n = 4 => f[n] = 256 * (256 * (256 * s[1] + s[2]) + s[3]) + s[4]
    <2>1. n = 1 => f[n] = s[1]
      BY <1>6
    <2>2. n = 2 => f[n] = 256 * s[1] + s[2]
      BY <1>6, <1>7
    <2>3. n = 3 => f[n] = 256 * (256 * s[1] + s[2]) + s[3]
      BY <1>6, <1>7, <1>8
    <2>4. n = 4 => f[n] = 256 * (256 * (256 * s[1] + s[2]) + s[3]) + s[4]
      BY <1>6, <1>7, <1>8, <1>9
    <2>5. QED
      BY <2>1, <2>2, <2>3, <2>4
  <1>11. QED
    BY <1>5, <1>10 DEF n

\* int.to_bytes, octet by octet.
LEMMA ToBytesIs ==
    ASSUME NEW v \in Nat
    PROVE  /\ ToBytes(v, 1)[1] = v % 256
           /\ ToBytes(v, 2)[1] = (v \div 256) % 256 /\ ToBytes(v, 2)[2] = v % 256
           /\ ToBytes(v, 3)[1] = (v \div 65536) % 256 /\ ToBytes(v, 3)[2] = (v \div 256) % 256
           /\ ToBytes(v, 3)[3] = v % 256
           /\ ToBytes(v, 4)[1] = (v \div 16777216) % 256 /\ ToBytes(v, 4)[2] = (v \div 65536) % 256
           /\ ToBytes(v, 4)[3] = (v \div 256) % 256 /\ ToBytes(v, 4)[4] = v % 256
  <1>1. 256^0 = 1 /\ 256^1 = 256 /\ 256^2 = 65536 /\ 256^3 = 16777216
    BY SMT
  <1>2. ASSUME NEW n \in 1..4, NEW i \in 1..n PROVE ToBytes(v, n)[i] = (v \div 256^(n - i)) % 256
    BY SMT DEF ToBytes
  <1>3. v \div 1 = v
    BY SMT
  <1>4. ToBytes(v, 1)[1] = v % 256
    <2>1. ToBytes(v, 1)[1] = (v \div 256^(1 - 1)) % 256
      BY <1>2, SMT
    <2>2. QED
      BY <1>1, <1>3, <2>1, SMT
  <1>5. ToBytes(v, 2)[1] = (v \div 256) % 256 /\ ToBytes(v, 2)[2] = v % 256
    <2>1. ToBytes(v, 2)[1] = (v \div 256^(2 - 1)) % 256 /\ ToBytes(v, 2)[2] = (v \div 256^(2 - 2)) % 256
      BY <1>2, SMT
    <2>2. QED
      BY <1>1, <1>3, <2>1, SMT
  <1>6. /\ ToBytes(v, 3)[1] = (v \div 65536) % 256 /\ ToBytes(v, 3)[2] = (v \div 256) % 256
        /\ ToBytes(v, 3)[3] = v % 256
    <2>1. /\ ToBytes(v, 3)[1] = (v \div 256^(3 - 1)) % 256 /\ ToBytes(v, 3)[2] = (v \div 256^(3 - 2)) % 256
          /\ ToBytes(v, 3)[3] = (v \div 256^(3 - 3)) % 256
      BY <1>2, SMT
    <2>2. QED
      BY <1>1, <1>3, <2>1, SMT
  <1>7. /\ ToBytes(v, 4)[1] = (v \div 16777216) % 256 /\ ToBytes(v, 4)[2] = (v \div 65536) % 256
        /\ ToBytes(v, 4)[3] = (v \div 256) % 256 /\ ToBytes(v, 4)[4] = v % 256
    <2>1. /\ ToBytes(v, 4)[1] = (v \div 256^(4 - 1)) % 256 /\ ToBytes(v, 4)[2] = (v \div 256^(4 - 2)) % 256
          /\ ToBytes(v, 4)[3] = (v \div 256^(4 - 3)) % 256 /\ ToBytes(v, 4)[4] = (v \div 256^(4 - 4)) % 256
      BY <1>2, SMT
    <2>2. QED
      BY <1>1, <1>3, <2>1, SMT
  <1>8. QED
    BY <1>4, <1>5, <1>6, <1>7, SMT

\* A number as wide as n octets.
Fits(v, n) ==
    CASE n = 1 -> v < 256
      [] n = 2 -> v < 65536
      [] n = 3 -> v < 16777216
      [] n = 4 -> v < 4294967296

\* A number put in enough octets is read back.
LEMMA NumberReadBack ==
    ASSUME NEW v \in Nat, NEW n \in 1..4, Fits(v, n)
    PROVE  FromBytes(ToBytes(v, n)) = v
  <1> DEFINE s == ToBytes(v, n)
             a == v \div 256
             b == v \div 65536
             c == v \div 16777216
  <1>1. s \in Octets /\ Len(s) = n
    <2>1. v \in Int
      OBVIOUS
    <2>2. QED
      BY <2>1, ToBytesOctets, Zenon
  <1>2. a \in Nat /\ b \in Nat /\ c \in Nat /\ v = 256 * a + (v % 256) /\ v % 256 \in Nat
    BY SMT
  <1>3. a = 256 * b + (a % 256) /\ a % 256 \in Nat
    BY SMT
  <1>4. b = 256 * c + (b % 256) /\ b % 256 \in Nat
    BY SMT
  <1>5. CASE n = 1
    <2>1. FromBytes(s) = v % 256 /\ v < 256
      BY <1>1, <1>5, FewOctets, ToBytesIs, SMT DEF Fits
    <2>2. QED
      BY <2>1, SMT
  <1>6. CASE n = 2
    <2>1. FromBytes(s) = 256 * (a % 256) + (v % 256) /\ v < 65536
      BY <1>1, <1>6, FewOctets, ToBytesIs, SMT DEF Fits
    <2>2. a % 256 = a
      BY <2>1, SMT
    <2>3. QED
      BY <1>2, <2>1, <2>2, SMT
  <1>7. CASE n = 3
    <2>1. FromBytes(s) = 256 * (256 * (b % 256) + (a % 256)) + (v % 256) /\ v < 16777216
      BY <1>1, <1>7, FewOctets, ToBytesIs, SMT DEF Fits
    <2>2. b % 256 = b
      BY <2>1, SMT
    <2>3. QED
      BY <1>2, <1>3, <2>1, <2>2, SMT
  <1>8. CASE n = 4
    <2>1. FromBytes(s) = 256 * (256 * (256 * (c % 256) + (b % 256)) + (a % 256)) + (v % 256) /\ v < 4294967296
      BY <1>1, <1>8, FewOctets, ToBytesIs, SMT DEF Fits
    <2>2. c % 256 = c
      BY <2>1, SMT
    <2>3. QED
      BY <1>2, <1>3, <1>4, <2>1, <2>2, SMT
  <1>9. QED
    BY <1>5, <1>6, <1>7, <1>8

\* unsigned_octets chooses enough octets for every number of 32 bits.
LEMMA UnsignedReadBack ==
    ASSUME NEW v \in Nat, Fits(v, 4)
    PROVE  FromBytes(unsigned_octets(v)) = v
  <1> DEFINE T == {n \in 1..3 : v < 256^n} \cup {4}
  <1>1. T \subseteq {1, 2, 3, 4} /\ 4 \in T
    BY SMT
  <1>2. \A n \in T : n \in 1..4 /\ Fits(v, n)
    <2>1. 256^1 = 256 /\ 256^2 = 65536 /\ 256^3 = 16777216
      BY SMT
    <2>2. /\ 1 \in T => v < 256^1
          /\ 2 \in T => v < 256^2
          /\ 3 \in T => v < 256^3
      BY SMT
    <2> HIDE DEF T
    <2>3. /\ 1 \in T => Fits(v, 1)
          /\ 2 \in T => Fits(v, 2)
          /\ 3 \in T => Fits(v, 3)
          /\ Fits(v, 4)
      BY <2>1, <2>2, SMT DEF Fits
    <2>4. QED
      BY <1>1, <2>3, SMT
  <1> HIDE DEF T
  <1>3. \E n \in T : \A m \in T : n <= m
    <2>1. CASE 1 \in T
      BY <1>1, <2>1, SMT
    <2>2. CASE 1 \notin T /\ 2 \in T
      BY <1>1, <2>2, SMT
    <2>3. CASE 1 \notin T /\ 2 \notin T /\ 3 \in T
      BY <1>1, <2>3, SMT
    <2>4. CASE 1 \notin T /\ 2 \notin T /\ 3 \notin T
      BY <1>1, <2>4, SMT
    <2>5. QED
      BY <2>1, <2>2, <2>3, <2>4, SMT
  <1> DEFINE least == CHOOSE n \in T : \A m \in T : n <= m
  <1>4. least \in T
    BY <1>3, Zenon
  <1>5. unsigned_octets(v) = ToBytes(v, least)
    BY Zenon DEF unsigned_octets, Min, T
  <1> HIDE DEF least
  <1>6. FromBytes(ToBytes(v, least)) = v
    BY <1>2, <1>4, NumberReadBack, SMT
  <1>7. QED
    BY <1>5, <1>6, Zenon

\* An object identifier of ten bits of type and 22 of instance is read back.
LEMMA ObjectReadBack ==
    ASSUME NEW object \in Nat \X Nat, object[1] < 1024, object[2] <= MAX_INSTANCE
    PROVE  /\ object_id(object) \in Octets /\ Len(object_id(object)) = 4
           /\ AsObject(object_id(object)) = object
  <1> DEFINE t == object[1]
             i == object[2]
             raw == t * (MAX_INSTANCE + 1) + i
             octets == ToBytes(raw, 4)
  <1>1. t \in Nat /\ t < 1024 /\ i \in Nat /\ i < 4194304 /\ object = <<t, i>>
    BY SMT DEF MAX_INSTANCE
  <1>2. object_id(object) = octets
    BY Zenon DEF object_id
  <1>3. raw = 4194304 * t + i
    BY <1>1, SMT DEF MAX_INSTANCE
  <1> HIDE DEF t, i
  <1>4. /\ raw \in Nat /\ Fits(raw, 4)
        /\ raw \div (MAX_INSTANCE + 1) = t /\ raw % (MAX_INSTANCE + 1) = i
    <2> HIDE DEF raw
    <2>1. raw \in Nat /\ raw < 4294967296
      BY <1>1, <1>3, SMT
    <2>2. raw \div 4194304 = t /\ raw % 4194304 = i
      BY <1>1, <1>3, SMT
    <2>3. MAX_INSTANCE + 1 = 4194304
      BY SMT DEF MAX_INSTANCE
    <2>4. QED
      BY <2>1, <2>2, <2>3, SMT DEF Fits
  <1> HIDE DEF raw
  <1>5. octets \in Octets /\ Len(octets) = 4
    BY <1>4, ToBytesOctets, SMT
  <1>6. FromBytes(octets) = raw
    BY <1>4, NumberReadBack, SMT
  <1>7. AsObject(octets) = <<raw \div (MAX_INSTANCE + 1), raw % (MAX_INSTANCE + 1)>>
    BY <1>6, Zenon DEF AsObject
  <1>8. AsObject(octets) = object
    BY <1>1, <1>4, <1>7
  <1>9. QED
    BY <1>2, <1>5, <1>8, ZenonT(60)

\* A context tag of a number, as read_tag reads it.
ValueTag(tag, body, position) ==
    [number |-> tag, context |-> TRUE, kind |-> "value", body |-> body,
     start |-> position, next |-> position + 1 + Len(body)]

\* read_tag on the first octet of a context tag of up to four octets.
LEMMA ContextTagRead ==
    ASSUME NEW data \in Octets, NEW position \in 1..Len(data), NEW tag \in Nat, tag <= 14,
           NEW size \in 0..4, data[position] = 16 * tag + 8 + size
    PROVE  read_tag(data, position) =
             [number |-> tag, context |-> TRUE, kind |-> "value",
              body |-> Slice(data, position + 1, position + size),
              start |-> position, next |-> position + 1 + size]
  <1> DEFINE first    == data[position]
             extended == first \div 16 = 15
             context  == Bit(first, 8)
             after    == position + (IF extended THEN 2 ELSE 1)
             number   == IF extended THEN data[position + 1] ELSE first \div 16
             kind     == IF context /\ first % 8 = 6 THEN "open"
                         ELSE IF context /\ first % 8 = 7 THEN "close" ELSE "value"
             lengths  == IF kind = "value" /\ first % 8 = 5 THEN 1 ELSE 0
             wide     == IF lengths = 0 \/ after > Len(data) THEN 0
                         ELSE IF data[after] = LongMarker THEN 2
                         ELSE IF data[after] = 255 THEN 4 ELSE 0
             start    == after + lengths + wide
             length   == IF kind # "value" THEN 0
                         ELSE IF wide > 0 THEN FromBytes(SubSeq(data, after + 1, after + wide))
                         ELSE IF lengths = 1 THEN data[after] ELSE first % 8
             inHeader == [number |-> number, context |-> FALSE, kind |-> "value",
                          body |-> <<length>>, start |-> position, next |-> start]
             follows  == [number |-> number, context |-> context, kind |-> kind,
                          body |-> Slice(data, start, start + length - 1),
                          start |-> position, next |-> start + length]
  <1>1. read_tag(data, position) =
          IF position > Len(data) \/ after + lengths + wide > Len(data) + 1 THEN Raised
          ELSE IF ValueInHeader(number, context) THEN inHeader ELSE follows
    BY Zenon DEF read_tag
  <1>2. Len(data) \in Nat /\ position \in Nat /\ position <= Len(data)
    BY OctetsAre
  <1>3. first = 16 * tag + 8 + size
    OBVIOUS
  <1> HIDE DEF first
  <1>4. /\ first \div 16 = tag /\ first % 8 = size /\ (first \div 8) % 2 = 1
    <2>1. size = 0 \/ size = 1 \/ size = 2 \/ size = 3 \/ size = 4
      OBVIOUS
    <2>2. QED
      BY <1>3, <2>1, SMT
  <1>5. context = TRUE
    BY <1>4, Zenon DEF Bit
  <1>6. ~extended
    BY <1>4
  <1>7. first % 8 # 5 /\ first % 8 # 6 /\ first % 8 # 7
    BY <1>4
  <1> HIDE DEF extended, context
  <1>8. after = position + 1 /\ number = tag
    BY <1>4, <1>6
  <1>9. kind = "value"
    BY <1>7
  <1> HIDE DEF after, number, kind
  <1>10. lengths = 0
    BY <1>7
  <1> HIDE DEF lengths
  <1>11. wide = 0
    BY <1>10
  <1> HIDE DEF wide
  <1>12. length = size /\ size \in Nat
    BY <1>4, <1>9, <1>10, <1>11
  <1> HIDE DEF length
  <1>13. start = position + 1 /\ start + length - 1 = position + size /\ start + length = position + 1 + size
    BY <1>2, <1>8, <1>10, <1>11, <1>12
  <1>14. ~(position > Len(data) \/ after + lengths + wide > Len(data) + 1)
    BY <1>2, <1>8, <1>10, <1>11
  <1>15. ~ValueInHeader(number, context)
    BY <1>5, Zenon DEF ValueInHeader
  <1> HIDE DEF start
  <1>16. read_tag(data, position) = follows
    BY <1>1, <1>14, <1>15, Zenon
  <1>17. QED
    BY <1>5, <1>8, <1>9, <1>13, <1>16, Zenon

\* A context tag of a number, where one was put.
LEMMA ValueTagRead ==
    ASSUME NEW data \in Octets, NEW at \in Nat, NEW tag \in Nat, tag <= 14, NEW body \in Octets,
           Len(body) \in 0..4, Holds(data, at, Context(tag, Len(body)) \o body)
    PROVE  /\ at + 1 + Len(body) <= Len(data)
           /\ read_tag(data, at + 1) = ValueTag(tag, body, at + 1)
  <1> DEFINE first == 16 * tag + 8 + Len(body)
             header == Context(tag, Len(body))
             k == Len(body)
             position == at + 1
  <1>1. header = <<first>> /\ header \in Octets /\ Len(header) = 1 /\ header[1] = first
    <2>1. Len(body) \in 0..7
      BY SMT
    <2>2. header \in Octets
      BY <2>1, TagOctet
    <2>3. header = <<first>>
      BY Zenon DEF Context
    <2>4. QED
      BY <2>2, <2>3
  <1>2. Holds(data, at, header) /\ Holds(data, at + Len(header), body)
    BY <1>1, HoldsBoth, Zenon
  <1>3. k \in Nat /\ k \in 0..4 /\ Len(data) \in Nat
    BY OctetsAre
  <1>4. /\ at + 1 <= Len(data) /\ data[at + 1] = first
        /\ (at + 1) + k <= Len(data) /\ \A i \in 1..k : data[(at + 1) + i] = body[i]
    <2> HIDE DEF header, first
    <2>1. /\ at + 1 <= Len(data) /\ \A i \in 1..1 : data[at + i] = header[i]
          /\ (at + 1) + k <= Len(data) /\ \A i \in 1..k : data[(at + 1) + i] = body[i]
      BY <1>1, <1>2, Zenon DEF Holds
    <2>2. 1 \in 1..1
      OBVIOUS
    <2>3. data[at + 1] = header[1]
      BY <2>1, <2>2, Zenon
    <2>4. QED
      BY <1>1, <2>1, <2>3, Zenon
  <1>5. position \in 1..Len(data) /\ position + 1 \in Nat /\ position + 1 >= 1 /\ position + k \in Int
        /\ position + k <= Len(data) /\ position + 1 <= (position + k) + 1
    BY <1>3, <1>4
  <1>6. data[position] = 16 * tag + 8 + k
    BY <1>4
  <1> DEFINE part == Slice(data, position + 1, position + k)
  <1>7. /\ part \in Octets /\ Len(part) = (position + k) + 1 - (position + 1)
        /\ \A i \in 1..Len(part) : part[i] = data[(position + 1) + i - 1]
    BY <1>5, SliceOctets
  <1>8. read_tag(data, position) =
          [number |-> tag, context |-> TRUE, kind |-> "value", body |-> part,
           start |-> position, next |-> position + 1 + k]
    BY <1>3, <1>5, <1>6, ContextTagRead
  <1> HIDE DEF part, k, first, header
  <1>9. part = body
    <2>1. Len(part) = k
      BY <1>3, <1>5, <1>7
    <2>2. \A i \in 1..k : part[i] = body[i]
      <3>1. TAKE i \in 1..k
      <3>2. (position + 1) + i - 1 = (at + 1) + i
        BY <1>3
      <3>3. QED
        BY <1>4, <1>7, <2>1, <3>2
    <2>3. QED
      BY <1>7, <2>1, <2>2, SameOctets DEF k
  <1>10. QED
    BY <1>4, <1>8, <1>9, Zenon DEF ValueTag, k

\* The tags from a place where a context tag of a number was put.
LEMMA TagsGoOn ==
    ASSUME NEW data \in Octets, NEW at \in Nat, NEW tag \in Nat, tag <= 14, NEW body \in Octets,
           Len(body) \in 0..4, Holds(data, at, Context(tag, Len(body)) \o body)
    PROVE  Tags(data, at + 1) = <<ValueTag(tag, body, at + 1)>> \o Tags(data, (at + 1 + Len(body)) + 1)
  <1> DEFINE t == ValueTag(tag, body, at + 1)
  <1>1. at + 1 + Len(body) <= Len(data) /\ read_tag(data, at + 1) = t
    BY ValueTagRead
  <1>2. at + 1 \in Place /\ Len(data) \in Nat /\ Len(body) \in Nat
    BY OctetsAre DEF Place
  <1>3. ~(at + 1 > Len(data))
    BY <1>1, <1>2
  <1>4. t.kind = "value" /\ t.next = (at + 1) + 1 + Len(body)
    BY DEF ValueTag
  <1>5. t.kind # "raise" /\ t.next = (at + 1 + Len(body)) + 1
    BY <1>2, <1>4
  <1> HIDE DEF t
  <1>6. Tags(data, at + 1) = <<t>> \o Tags(data, t.next)
    <2>1. Tags(data, at + 1) = IF at + 1 > Len(data) THEN <<>>
                               ELSE IF read_tag(data, at + 1).kind = "raise" THEN <<read_tag(data, at + 1)>>
                               ELSE <<read_tag(data, at + 1)>> \o Tags(data, read_tag(data, at + 1).next)
      BY <1>2, TagsFrom
    <2>2. QED
      BY <1>1, <1>3, <1>5, <2>1, Zenon
  <1>7. QED
    BY <1>5, <1>6, Zenon DEF t

\* The parameters of a ReadProperty that BACnet has room for: an object identifier of
\* 10 and 22 bits, numbers of 32 bits.
Readable(p) ==
    /\ p.object \in Nat \X Nat /\ p.object[1] < 1024 /\ p.object[2] <= MAX_INSTANCE
    /\ p.property \in Nat /\ Fits(p.property, 4)
    /\ p.array_index = None \/ (p.array_index = <<p.array_index[1]>>
                                /\ p.array_index[1] \in Nat /\ Fits(p.array_index[1], 4))

\* A context tag of up to four octets.
LEMMA ValueOctets ==
    ASSUME NEW tag \in Nat, tag <= 14, NEW body \in Octets, Len(body) \in 0..4
    PROVE  /\ Context(tag, Len(body)) \o body \in Octets
           /\ Len(Context(tag, Len(body)) \o body) = 1 + Len(body)
  <1> DEFINE header == Context(tag, Len(body))
             k == Len(body)
  <1>1. k \in 0..7
    BY SMT
  <1>2. header \in Octets
    BY <1>1, TagOctet
  <1>3. Len(header) = 1
    BY DEF Context
  <1> HIDE DEF header
  <1>4. header \o body \in Octets /\ Len(header \o body) = Len(header) + Len(body)
    BY <1>2, Joined, Zenon
  <1>5. QED
    BY <1>3, <1>4, Zenon DEF header

\* The tags of a property reference: object, property and, if there is one, array index.
ReferenceTags(p, position) ==
    LET object == ValueTag(0, object_id(p.object), position)
        property == ValueTag(1, unsigned_octets(p.property), position + 5)
        index == ValueTag(2, unsigned_octets(p.array_index[1]), property.next)
    IN  IF Given(p.array_index) THEN <<object, property, index>> ELSE <<object, property>>
ReferenceOf(p) == Reference(p.object, p.property, p.array_index)

\* A property reference in a datagram is read as its tags, and what follows it after.
LEMMA ReferenceRead ==
    ASSUME NEW data \in Octets, NEW at \in Nat, NEW p, Readable(p), Holds(data, at, ReferenceOf(p))
    PROVE  /\ ReferenceOf(p) \in Octets
           /\ Last(ReferenceTags(p, at + 1)).next = (at + Len(ReferenceOf(p))) + 1
           /\ Tags(data, at + 1) = ReferenceTags(p, at + 1) \o Tags(data, (at + Len(ReferenceOf(p))) + 1)
  <1> DEFINE o == object_id(p.object)
             v == unsigned_octets(p.property)
             x == unsigned_octets(p.array_index[1])
             T1 == Context(0, 4) \o o
             T2 == Context(1, Len(v)) \o v
             T3 == Context(2, Len(x)) \o x
             last == Optional(p.array_index, T3)
             t1 == ValueTag(0, o, at + 1)
             at2 == at + 1 + Len(o)
             t2 == ValueTag(1, v, at2 + 1)
             at3 == at2 + 1 + Len(v)
             t3 == ValueTag(2, x, at3 + 1)
             end == at + Len(ReferenceOf(p))
             rest == Tags(data, end + 1)
  <1>0. p.object \in Nat \X Nat /\ p.object[1] < 1024 /\ p.object[2] <= MAX_INSTANCE
    BY SMT DEF Readable
  <1>1. p.property \in Nat /\ (Given(p.array_index) => p.array_index[1] \in Nat)
    BY SMT DEF Readable, Given
  <1>2. o \in Octets /\ Len(o) = 4
    BY <1>0, ObjectReadBack
  <1>3. \A k : k \in 1..4 => k \in 0..4 /\ k \in Nat
    BY SMT
  <1>4. v \in Octets /\ Len(v) \in 0..4 /\ Len(v) \in Nat
    BY <1>1, <1>3, UnsignedOctets, Zenon
  <1>5. Given(p.array_index) => x \in Octets /\ Len(x) \in 0..4 /\ Len(x) \in Nat
    BY <1>1, <1>3, UnsignedOctets, Zenon
  <1>6. ReferenceOf(p) = (T1 \o T2) \o last
    <2>1. context_object_id(0, p.object) = T1
      BY Zenon DEF context_object_id
    <2>2. context_unsigned(1, p.property) = T2 /\ context_unsigned(2, p.array_index[1]) = T3
      BY Zenon DEF context_unsigned
    <2>3. QED
      BY <2>1, <2>2, Zenon DEF Reference, ReferenceOf
  <1> HIDE DEF o, v, x
  <1>7. 4 \in 0..4 /\ \A tag \in {0, 1, 2} : tag \in Nat /\ tag <= 14
    BY SMT
  <1>8. 0 \in {0, 1, 2} /\ 1 \in {0, 1, 2} /\ 2 \in {0, 1, 2}
    OBVIOUS
  <1>9. T1 \in Octets /\ Len(T1) = 5
    <2>1. T1 = Context(0, Len(o)) \o o /\ Len(o) \in 0..4
      BY <1>2, <1>7, Zenon
    <2> HIDE DEF T1
    <2>2. T1 \in Octets /\ Len(T1) = 1 + Len(o)
      BY <1>2, <1>7, <1>8, <2>1, ValueOctets, Zenon
    <2>3. QED
      BY <1>2, <2>2
  <1>10. T2 \in Octets /\ Len(T2) = 1 + Len(v)
    BY <1>4, <1>7, <1>8, ValueOctets, Zenon
  <1>11. Given(p.array_index) => T3 \in Octets /\ Len(T3) = 1 + Len(x)
    BY <1>5, <1>7, <1>8, ValueOctets, Zenon
  <1> HIDE DEF T3
  <1>12. /\ last \in Octets
         /\ Given(p.array_index) => last = T3
         /\ ~Given(p.array_index) => last = <<>>
    BY <1>11, OctetsAre DEF Optional
  <1>13. Len(v) \in Nat /\ at2 \in Nat /\ at3 \in Nat
    BY <1>2, <1>4
  <1> HIDE DEF T1, T2, last
  <1> DEFINE both == T1 \o T2
  <1>14. both \in Octets /\ Len(both) = 6 + Len(v)
    <2>1. both \in Octets /\ Len(both) = Len(T1) + Len(T2)
      BY <1>9, <1>10, Joined
    <2> HIDE DEF both
    <2>2. QED
      BY <1>9, <1>10, <1>13, <2>1
  <1>15. ReferenceOf(p) \in Octets /\ Len(ReferenceOf(p)) = Len(both) + Len(last)
    <2>1. ReferenceOf(p) = both \o last
      BY <1>6
    <2> HIDE DEF both
    <2>2. QED
      BY <1>12, <1>14, <2>1, Joined
  <1>16. Holds(data, at, both) /\ Holds(data, at + Len(both), last)
    <2>1. Holds(data, at, both \o last)
      BY <1>6
    <2> HIDE DEF both
    <2>2. QED
      BY <1>12, <1>14, <2>1, HoldsBoth
  <1>17. Holds(data, at, T1) /\ Holds(data, at + Len(T1), T2)
    <2>1. Holds(data, at, T1 \o T2)
      BY <1>16
    <2>2. QED
      BY <1>9, <1>10, <2>1, HoldsBoth
  <1> HIDE DEF both
  <1>18. Holds(data, at2, T2) /\ Holds(data, at3, last)
    <2>1. at + Len(T1) = at2 /\ at + Len(both) = at3
      BY <1>2, <1>9, <1>13, <1>14
    <2>2. QED
      BY <1>16, <1>17, <2>1
  <1>19. end = at3 + Len(last)
    <2>1. Len(last) \in Nat
      BY <1>12, OctetsAre
    <2>2. QED
      BY <1>2, <1>13, <1>14, <1>15, <2>1
  <1>20. Tags(data, at + 1) = <<t1>> \o Tags(data, at2 + 1)
    <2>1. Holds(data, at, Context(0, Len(o)) \o o)
      BY <1>2, <1>17, Zenon DEF T1
    <2>2. Len(o) \in 0..4 /\ o \in Octets
      BY <1>2, <1>7, Zenon
    <2>3. QED
      BY <1>7, <1>8, <2>1, <2>2, TagsGoOn, Zenon
  <1>21. Tags(data, at2 + 1) = <<t2>> \o Tags(data, at3 + 1)
    <2>1. Holds(data, at2, Context(1, Len(v)) \o v)
      BY <1>18 DEF T2
    <2> HIDE DEF at2
    <2>2. at2 \in Nat /\ v \in Octets /\ Len(v) \in 0..4 /\ 1 \in Nat /\ 1 <= 14
      BY <1>4, <1>7, <1>8, <1>13, Zenon
    <2>3. QED
      BY <2>1, <2>2, TagsGoOn, Zenon
  <1>22. Given(p.array_index) => Tags(data, at3 + 1) = <<t3>> \o rest
    <2>1. SUFFICES ASSUME Given(p.array_index) PROVE Tags(data, at3 + 1) = <<t3>> \o rest
      OBVIOUS
    <2>2. Holds(data, at3, Context(2, Len(x)) \o x)
      BY <1>12, <1>18, <2>1 DEF T3
    <2> DEFINE at4 == at3 + 1 + Len(x)
    <2>3. at4 = end
      <3>1. Len(last) = 1 + Len(x) /\ Len(x) \in Nat
        BY <1>5, <1>11, <1>12, <2>1, Zenon
      <3> HIDE DEF at3, end
      <3>2. QED
        BY <1>13, <1>19, <3>1
    <2> HIDE DEF at3, end
    <2>4. at3 \in Nat /\ x \in Octets /\ Len(x) \in 0..4 /\ 2 \in Nat /\ 2 <= 14
      BY <1>5, <1>7, <1>8, <1>13, <2>1, Zenon
    <2>5. Tags(data, at3 + 1) = <<t3>> \o Tags(data, at4 + 1)
      BY <2>2, <2>4, TagsGoOn, Zenon
    <2>6. QED
      BY <2>3, <2>5, Zenon
  <1>23. ~Given(p.array_index) => end = at3
    <2>1. ~Given(p.array_index) => Len(last) = 0
      BY <1>12
    <2> HIDE DEF at3, end
    <2>2. QED
      BY <1>13, <1>19, <2>1
  <1>24. rest \in Seq(AllTags(data))
    <2>1. end + 1 \in Place
      <3>1. Len(ReferenceOf(p)) \in Nat
        BY <1>15, OctetsAre
      <3>2. QED
        BY <3>1 DEF Place
    <2> HIDE DEF end
    <2>2. QED
      BY <2>1, TagsFrom, Zenon
  <1>25. /\ t2.next = at3 + 1 /\ at2 + 1 = (at + 1) + 5
         /\ t3.next = (at3 + 1) + 1 + Len(x)
    <2>1. t2.next = (at2 + 1) + 1 + Len(v) /\ t3.next = (at3 + 1) + 1 + Len(x)
      BY DEF ValueTag
    <2>2. QED
      BY <1>2, <1>13, <2>1
  <1>26. ReferenceTags(p, at + 1) = IF Given(p.array_index) THEN <<t1, t2, t3>> ELSE <<t1, t2>>
    <2>1. /\ t1 = ValueTag(0, object_id(p.object), at + 1)
          /\ t2 = ValueTag(1, unsigned_octets(p.property), (at + 1) + 5)
          /\ t3 = ValueTag(2, unsigned_octets(p.array_index[1]), t2.next)
      BY <1>25, Zenon DEF o, v, x
    <2> HIDE DEF t1, t2, t3
    <2>2. QED
      BY <2>1, Zenon DEF ReferenceTags
  <1>27. Given(p.array_index) => t3.next = end + 1
    <2>1. SUFFICES ASSUME Given(p.array_index) PROVE t3.next = end + 1
      OBVIOUS
    <2>2. Len(last) = 1 + Len(x) /\ Len(x) \in Nat
      BY <1>5, <1>11, <1>12, <2>1, Zenon
    <2> HIDE DEF at3, end, t3
    <2>3. QED
      BY <1>13, <1>19, <1>25, <2>2
  <1> HIDE DEF t1, t2, t3, at2, at3, end, rest
  <1>28. CASE Given(p.array_index)
    <2>1. ReferenceTags(p, at + 1) = <<t1, t2, t3>>
      BY <1>26, <1>28, Zenon
    <2>2. Tags(data, at + 1) = <<t1>> \o (<<t2>> \o (<<t3>> \o rest))
      BY <1>20, <1>21, <1>22, <1>28, Zenon
    <2>3. <<t1>> \o (<<t2>> \o (<<t3>> \o rest)) = <<t1, t2, t3>> \o rest
      BY <1>24
    <2>4. Last(<<t1, t2, t3>>) = t3
      BY DEF Last
    <2>5. QED
      BY <1>15, <1>27, <1>28, <2>1, <2>2, <2>3, <2>4, Zenon DEF end, rest
  <1>29. CASE ~Given(p.array_index)
    <2>1. ReferenceTags(p, at + 1) = <<t1, t2>>
      BY <1>26, <1>29, Zenon
    <2>2. Tags(data, at + 1) = <<t1>> \o (<<t2>> \o rest)
      BY <1>20, <1>21, <1>23, <1>29, Zenon DEF rest
    <2>3. <<t1>> \o (<<t2>> \o rest) = <<t1, t2>> \o rest
      BY <1>24
    <2>4. Last(<<t1, t2>>) = t2 /\ t2.next = end + 1
      BY <1>23, <1>25, <1>29 DEF Last
    <2>5. QED
      BY <1>15, <2>1, <2>2, <2>3, <2>4, Zenon DEF end, rest
  <1>30. QED
    BY <1>28, <1>29

\* A property reference is octets.
LEMMA ReferenceIsOctets ==
    ASSUME NEW p, Readable(p)
    PROVE  ReferenceOf(p) \in Octets
  <1> DEFINE object == p.object
             index == p.array_index
  <1>1. object \in Nat \X Nat /\ p.property \in Nat /\ (Given(index) => index[1] \in Nat)
    BY SMT DEF Readable, Given
  <1> HIDE DEF object, index
  <1>2. object[1] \in Int /\ object[2] \in Int
    BY <1>1
  <1>3. Reference(object, p.property, index) \in Octets
    BY <1>1, <1>2, ReferenceOctets, Zenon
  <1>4. QED
    BY <1>3, Zenon DEF ReferenceOf, object, index

\* The tags of a ReadProperty: those of its property reference.
LEMMA ReadRequestTags ==
    ASSUME NEW id \in Octet, NEW p, Readable(p)
    PROVE  LET apdu == read_property_request(id, p.object, p.property, p.array_index)
           IN  /\ Tags(apdu, 5) = ReferenceTags(p, 5)
               /\ Len(apdu) + 1 = Last(ReferenceTags(p, 5)).next
               /\ apdu \in Octets /\ apdu[1] = 0 /\ apdu[3] = id /\ apdu[4] = SERVICE_READ_PROPERTY
               /\ Len(apdu) = 4 + Len(ReferenceOf(p))
  <1> DEFINE apdu == read_property_request(id, p.object, p.property, p.array_index)
             header == <<0, 5, id, SERVICE_READ_PROPERTY>>
             ref == ReferenceOf(p)
             n == Len(ref)
             end == 4 + n
  <1>1. header \in Octets /\ Len(header) = 4
    <2>1. 0 \in Octet /\ 5 \in Octet /\ SERVICE_READ_PROPERTY \in Octet
      BY OctetIs DEF SERVICE_READ_PROPERTY
    <2>2. QED
      BY <2>1, HeaderOctets
  <1>2. header[1] = 0 /\ header[3] = id /\ header[4] = SERVICE_READ_PROPERTY
    OBVIOUS
  <1>3. apdu = header \o ref
    BY Zenon DEF read_property_request, confirmed_request, ReferenceOf
  <1>4. ref \in Octets
    BY ReferenceIsOctets, Zenon
  <1> HIDE DEF apdu, header, ref
  <1>5. /\ apdu \in Octets /\ Len(apdu) = 4 + n
        /\ \A i \in 1..4 : apdu[i] = header[i]
        /\ Holds(apdu, 4, ref) /\ n \in Nat
    <2>1. /\ header \o ref \in Octets /\ Len(header \o ref) = Len(header) + Len(ref)
          /\ \A i \in 1..Len(header) : (header \o ref)[i] = header[i]
          /\ Holds(header \o ref, Len(header), ref) /\ Len(ref) \in Nat
      BY <1>1, <1>4, HoldsAfter, Zenon
    <2>2. QED
      BY <1>1, <1>3, <2>1, Zenon
  <1>6. /\ Last(ReferenceTags(p, 4 + 1)).next = end + 1
        /\ Tags(apdu, 4 + 1) = ReferenceTags(p, 4 + 1) \o Tags(apdu, end + 1)
    <2>1. Holds(apdu, 4, ReferenceOf(p)) /\ 4 \in Nat
      BY <1>5 DEF ref
    <2>2. QED
      BY <1>5, <2>1, ReferenceRead, Zenon DEF ref, n
  <1>7. 4 + 1 = 5 /\ Len(apdu) + 1 = end + 1
    BY <1>5
  <1>8. Tags(apdu, end + 1) = <<>>
    BY <1>5, <1>7, TagsEnd, Zenon
  <1>9. ReferenceTags(p, 5) \o <<>> = ReferenceTags(p, 5)
    BY DEF ReferenceTags
  <1>10. apdu[1] = 0 /\ apdu[3] = id /\ apdu[4] = SERVICE_READ_PROPERTY
    <2>1. 1 \in 1..4 /\ 3 \in 1..4 /\ 4 \in 1..4
      OBVIOUS
    <2>2. QED
      BY <1>2, <1>5, <2>1, Zenon
  <1>11. QED
    BY <1>5, <1>6, <1>7, <1>8, <1>9, <1>10, Zenon DEF apdu, ref, n

\* codec.py parse_read_property_request undoes read_property_request: whatever
\* object, property and array index a test asks for, if each fits its place, is
\* what the peer reads in the request.
THEOREM ReadRequestRoundTrip ==
    ASSUME NEW id \in Octet, NEW p, Readable(p)
    PROVE  parse_read_property_request(read_property_request(id, p.object, p.property, p.array_index))
             = Some([object |-> p.object, property |-> p.property, array_index |-> p.array_index])
  <1> DEFINE apdu == read_property_request(id, p.object, p.property, p.array_index)
             o == object_id(p.object)
             v == unsigned_octets(p.property)
             x == unsigned_octets(p.array_index[1])
             object == ValueTag(0, o, 5)
             property == ValueTag(1, v, 5 + 5)
             index == ValueTag(2, x, property.next)
             tags == IF Given(p.array_index) THEN <<object, property, index>>
                     ELSE <<object, property>>
  <1>1. Tags(apdu, 5) = tags
    <2>1. Tags(apdu, 5) = ReferenceTags(p, 5)
      BY ReadRequestTags, Zenon
    <2>2. QED
      BY <2>1, Zenon DEF ReferenceTags
  <1>2. Len(o) = 4 /\ AsObject(o) = p.object
    BY ObjectReadBack, SMT DEF Readable
  <1>3. p.property \in Nat /\ Fits(p.property, 4)
    BY ZenonT(60) DEF Readable
  <1>4. FromBytes(v) = p.property
    BY <1>3, UnsignedReadBack, Zenon
  <1>5. Given(p.array_index) =>
          p.array_index = Some(p.array_index[1]) /\ FromBytes(x) = p.array_index[1]
    BY UnsignedReadBack, Zenon DEF Readable, Given, Some
  <1>6. /\ object.body = o /\ object.kind = "value"
        /\ property.body = v /\ property.kind = "value"
        /\ index.body = x /\ index.kind = "value" /\ IsValue(index, 2)
    BY DEF ValueTag, IsValue
  <1>7. object # Raised /\ property # Raised /\ index # Raised
    <2>1. Raised.kind = "raise"
      BY DEF Raised
    <2>2. QED
      BY <1>6, <2>1
  <1> HIDE DEF o, v, x, object, property, index
  <1>8. ReadRequest(Slice(tags, 1, 3)) =
          Some([object |-> p.object, property |-> p.property, array_index |-> p.array_index])
    <2>1. CASE Given(p.array_index)
      <3>1. tags = <<object, property, index>> /\ Len(tags) = 3
        BY <2>1
      <3>2. Slice(tags, 1, 3) = tags
        <4>1. Min({3, Len(tags)}) = 3
          BY <3>1, Smaller
        <4>2. QED
          BY <3>1, <4>1 DEF Slice
      <3>3. Raised \notin ToSet(tags)
        BY <1>7, <3>1 DEF ToSet
      <3>4. tags[1] = object /\ tags[2] = property /\ tags[3] = index
        BY <3>1
      <3>5. QED
        BY <1>2, <1>4, <1>5, <1>6, <2>1, <3>1, <3>2, <3>3, <3>4 DEF ReadRequest
    <2>2. CASE ~Given(p.array_index)
      <3>1. tags = <<object, property>> /\ Len(tags) = 2
        BY <2>2
      <3>2. Slice(tags, 1, 3) = tags
        <4>1. Min({3, Len(tags)}) = 2
          BY <3>1, Smaller
        <4>2. QED
          BY <3>1, <4>1 DEF Slice
      <3>3. Raised \notin ToSet(tags)
        BY <1>7, <3>1 DEF ToSet
      <3>4. tags[1] = object /\ tags[2] = property /\ p.array_index = None
        BY <2>2, <3>1 DEF Given
      <3>5. QED
        BY <1>2, <1>4, <1>6, <3>1, <3>2, <3>3, <3>4 DEF ReadRequest
    <2>3. QED
      BY <2>1, <2>2
  <1>9. QED
    BY <1>1, <1>8, Zenon DEF parse_read_property_request

-----------------------------------------------------------------------------
(* Every read of the wire tests                                            *)

\* What fits the places of a reference can be read back.
LEMMA ReferableReadable ==
    ASSUME NEW p, Referable(p)
    PROVE  Readable(p)
  <1> DEFINE index == p.array_index
  <1>1. /\ p.object \in Nat \X Nat /\ p.object[1] < 1024 /\ p.object[2] <= MAX_INSTANCE
        /\ p.property \in Nat /\ Unsigned32(p.property) /\ index \in Seq(Nat)
        /\ Len(index) <= 1 /\ \A n \in ToSet(index) : Unsigned32(n)
    BY DEF Referable
  <1> HIDE DEF index
  <1>2. ASSUME NEW n \in Nat, Unsigned32(n) PROVE Fits(n, 4)
    <2>1. n < 4294967296
      BY <1>2, SMT DEF Unsigned32
    <2>2. QED
      BY <2>1, SMT DEF Fits
  <1>3. index = None \/ (index = <<index[1]>> /\ index[1] \in Nat /\ Fits(index[1], 4))
    <2> DEFINE k == Len(index)
    <2>1. k \in Nat /\ k <= 1
      BY <1>1
    <2> HIDE DEF k
    <2>2. k = 0 \/ k = 1
      BY <2>1
    <2>3. CASE k = 0
      BY <1>1, <2>3 DEF k, None
    <2>4. CASE k = 1
      <3>0. index \in Seq(Nat) /\ Len(index) = 1
        BY <1>1, <2>4, Zenon DEF k
      <3>1. index = <<index[1]>> /\ index[1] \in Nat /\ index[1] \in ToSet(index)
        BY <3>0 DEF ToSet
      <3>2. Fits(index[1], 4)
        BY <1>1, <1>2, <3>1, Zenon
      <3>3. QED
        BY <3>1, <3>2
    <2>5. QED
      BY <2>2, <2>3, <2>4
  <1>4. Fits(p.property, 4)
    BY <1>1, <1>2, Zenon
  <1>5. QED
    BY <1>1, <1>3, <1>4, Zenon DEF Readable, index

\* A read of the wire tests asks for what a request can name.
LEMMA ReadsReadable ==
    ASSUME NEW m \in Messages, m.kind = "read"
    PROVE  /\ m.id \in Octet /\ Readable(m.p)
           /\ m = [kind |-> "read", id |-> m.id, p |-> m.p]
           /\ m.p = [object |-> m.p.object, property |-> m.p.property,
                     array_index |-> m.p.array_index]
           /\ Encoded(m) = read_property_request(m.id, m.p.object, m.p.property, m.p.array_index)
  <1> DEFINE p == m.p
  <1>1. m.id \in Octet /\ p \in [object : Nat \X Nat, property : Nat, array_index : Seq(Nat)]
    BY MessagesAssumption
  <1>2. m = [kind |-> "read", id |-> m.id, p |-> p] /\ Referable(p)
    BY ReadsAssumption, Zenon
  <1>3. Encoded(m) = read_property_request(m.id, p.object, p.property, p.array_index)
    BY DEF Encoded
  <1> HIDE DEF p
  <1>4. p = [object |-> p.object, property |-> p.property, array_index |-> p.array_index]
    BY <1>1
  <1>5. Readable(p)
    BY <1>2, ReferableReadable, Zenon
  <1>6. QED
    BY <1>1, <1>2, <1>3, <1>4, <1>5, Zenon DEF p

\* What the peer reads in a request is what was meant.
LEMMA ReadMeant ==
    ASSUME NEW m \in Messages, m.kind = "read"
    PROVE  parse_read_property_request(Encoded(m)) = Some(m.p)
  <1> DEFINE p == m.p
             apdu == read_property_request(m.id, p.object, p.property, p.array_index)
  <1>1. /\ m.id \in Octet /\ Readable(p) /\ Encoded(m) = apdu
        /\ p = [object |-> p.object, property |-> p.property, array_index |-> p.array_index]
    BY ReadsReadable, Zenon
  <1> HIDE DEF p
  <1>2. parse_read_property_request(apdu) =
          Some([object |-> p.object, property |-> p.property, array_index |-> p.array_index])
    BY <1>1, ReadRequestRoundTrip, Zenon
  <1> HIDE DEF apdu
  <1>3. parse_read_property_request(Encoded(m)) = Some(p)
    BY <1>1, <1>2, Zenon
  <1>4. QED
    BY <1>3, Zenon DEF p

\* Two reads that look alike are the same.
LEMMA ReadsDiffer ==
    ASSUME NEW m \in Messages, m.kind = "read", NEW other \in Messages, other.kind = "read",
           Encoded(other) = Encoded(m)
    PROVE  other = m
  <1>1. Some(other.p) = Some(m.p)
    BY ReadMeant, Zenon
  <1>2. other.p = m.p
    BY <1>1 DEF Some
  <1>3. Encoded(m)[3] = m.id /\ Encoded(other)[3] = other.id
    <2>1. ASSUME NEW x \in Messages, x.kind = "read" PROVE Encoded(x)[3] = x.id
      <3> DEFINE p == x.p
                 apdu == read_property_request(x.id, p.object, p.property, p.array_index)
      <3>1. x.id \in Octet /\ Readable(p) /\ Encoded(x) = apdu
        BY <2>1, ReadsReadable, Zenon
      <3> HIDE DEF p
      <3>2. apdu[3] = x.id
        BY <3>1, ReadRequestTags, Zenon
      <3>3. QED
        BY <3>1, <3>2, Zenon
    <2>2. QED
      BY <2>1, Zenon
  <1>4. m = [kind |-> "read", id |-> m.id, p |-> m.p]
    BY ReadsReadable
  <1>5. other = [kind |-> "read", id |-> other.id, p |-> other.p]
    BY ReadsReadable
  <1>6. QED
    BY <1>2, <1>3, <1>4, <1>5, Zenon

\* The request of a read is octets and a complete sequence of tags.
LEMMA ReadComplete ==
    ASSUME NEW m \in Messages, m.kind = "read"
    PROVE  /\ \A i \in 1..Len(Encoded(m)) : Encoded(m)[i] \in 0..255
           /\ Complete(Encoded(m), Tags(Encoded(m), Header(Encoded(m)) + 1))
  <1> DEFINE p == m.p
             apdu == read_property_request(m.id, p.object, p.property, p.array_index)
             object == ValueTag(0, object_id(p.object), 5)
             property == ValueTag(1, unsigned_octets(p.property), 5 + 5)
             index == ValueTag(2, unsigned_octets(p.array_index[1]), property.next)
             tags == IF Given(p.array_index) THEN <<object, property, index>>
                     ELSE <<object, property>>
  <1>1. m.id \in Octet /\ Readable(p) /\ Encoded(m) = apdu
    BY ReadsReadable, Zenon
  <1> HIDE DEF p
  <1>2. /\ Tags(apdu, 5) = tags
        /\ Len(apdu) + 1 = IF Given(p.array_index) THEN index.next ELSE property.next
        /\ apdu \in Octets /\ apdu[1] = 0
    <2>1. /\ Tags(apdu, 5) = ReferenceTags(p, 5) /\ Len(apdu) + 1 = Last(ReferenceTags(p, 5)).next
          /\ apdu \in Octets /\ apdu[1] = 0
      BY <1>1, ReadRequestTags, Zenon
    <2>2. ReferenceTags(p, 5) = tags
      BY Zenon DEF ReferenceTags
    <2>3. Last(tags).next = IF Given(p.array_index) THEN index.next ELSE property.next
      <3> HIDE DEF object, property, index
      <3>1. QED
        BY DEF Last
    <2>4. QED
      BY <2>1, <2>2, <2>3, Zenon
  <1> HIDE DEF apdu
  <1>3. \A i \in 1..Len(apdu) : apdu[i] \in 0..255
    <2>1. \A i \in 1..Len(apdu) : apdu[i] \in Nat /\ apdu[i] < 256
      BY <1>2, OctetsAre, Zenon
    <2>2. \A i \in 1..Len(apdu) : apdu[i] \in Octet
      BY <2>1, OctetIs
    <2>3. QED
      BY <2>2, Zenon DEF Octet
  <1>4. Header(apdu) + 1 = 5
    <2>1. apdu[1] \div 16 = 0
      BY <1>2
    <2>2. Header(apdu) = 4
      BY <2>1 DEF Header
    <2>3. QED
      BY <2>2
  <1>5. object.kind = "value" /\ property.kind = "value" /\ index.kind = "value"
    BY DEF ValueTag
  <1> HIDE DEF object, property, index
  <1>6. \A i \in 1..Len(tags) : tags[i].kind = "value"
    BY <1>5
  <1>7. Last(tags).next = Len(apdu) + 1
    BY <1>2 DEF Last
  <1> HIDE DEF tags
  <1>8. ~Broken(tags)
    BY <1>6 DEF Broken
  <1>9. \A i \in 1..Len(tags) : ~(tags[i].kind = "open") /\ ~(tags[i].kind = "close")
    BY <1>6
  <1>10. Nesting(tags, 1, Len(tags)) = 0
    <2>1. {k \in 1..Len(tags) : tags[k].kind = "open"} = {}
      BY <1>9
    <2>2. {k \in 1..Len(tags) : tags[k].kind = "close"} = {}
      BY <1>9
    <2>3. Cardinality({}) = 0
      BY FS_EmptySet
    <2>4. QED
      <3>1. Nesting(tags, 1, Len(tags)) = Cardinality({}) - Cardinality({})
        BY <2>1, <2>2, Zenon DEF Nesting
      <3>2. QED
        BY <2>3, <3>1
  <1>11. Complete(apdu, tags)
    BY <1>7, <1>8, <1>9, <1>10, Zenon DEF Complete
  <1>12. QED
    BY <1>1, <1>2, <1>3, <1>4, <1>11, Zenon

-----------------------------------------------------------------------------
(* Constructed values: an opening tag is closed by the tag of its own level *)

\* What a tag adds to the number of values that are open.
Depth(tag) == IF tag.kind = "open" THEN 1 ELSE IF tag.kind = "close" THEN -1 ELSE 0
\* As many tags close as open, and at no place have more closed than opened.
Balanced(tags, m) == Nesting(tags, 1, m) = 0 /\ \A k \in 0..m : Nesting(tags, 1, k) >= 0

OfKind(tags, i, j, kind) == Cardinality({k \in i..j : tags[k].kind = kind})
OneIf(tag, kind) == IF tag.kind = kind THEN 1 ELSE 0

\* The tags of a kind among one tag more.
LEMMA OneMore ==
    ASSUME NEW tags, NEW i \in Int, NEW j \in Int, i <= j + 1, NEW kind
    PROVE  /\ OfKind(tags, i, j, kind) \in Nat
           /\ OfKind(tags, i, j + 1, kind) = OfKind(tags, i, j, kind) + OneIf(tags[j + 1], kind)
  <1> DEFINE Kinds(to) == {k \in i..to : tags[k].kind = kind}
             new == j + 1
  <1>1. IsFiniteSet(Kinds(j))
    <2>1. IsFiniteSet(i..j)
      BY FS_Interval
    <2>2. Kinds(j) \subseteq i..j
      OBVIOUS
    <2> HIDE DEF Kinds
    <2>3. QED
      BY <2>1, <2>2, FS_Subset
  <1>2. Cardinality(Kinds(j)) \in Nat
    <2> HIDE DEF Kinds
    <2>1. QED
      BY <1>1, FS_CardinalityType
  <1>3. Cardinality(Kinds(new)) = Cardinality(Kinds(j)) + OneIf(tags[new], kind)
    <2>1. CASE tags[new].kind = kind
      <3>1. Kinds(new) = Kinds(j) \cup {new} /\ new \notin Kinds(j)
        BY <2>1
      <3> HIDE DEF Kinds, new
      <3>2. Cardinality(Kinds(new)) = Cardinality(Kinds(j)) + 1
        BY <1>1, <3>1, FS_AddElement
      <3>3. QED
        BY <2>1, <3>2, Zenon DEF OneIf
    <2>2. CASE tags[new].kind # kind
      <3>1. Kinds(new) = Kinds(j)
        BY <2>2
      <3> HIDE DEF Kinds
      <3>2. Cardinality(Kinds(new)) = Cardinality(Kinds(j)) + 0
        BY <1>2, <3>1
      <3>3. QED
        BY <2>2, <3>2, Zenon DEF OneIf
    <2>3. QED
      BY <2>1, <2>2
  <1>4. QED
    BY <1>2, <1>3, Zenon DEF OfKind

\* Nesting from the tag at i on: nothing before it, and one tag more adds its depth.
LEMMA NestingStep ==
    ASSUME NEW tags, NEW i \in Int, NEW j \in Int, i <= j + 1
    PROVE  /\ Nesting(tags, i, i - 1) = 0 /\ Nesting(tags, i, j) \in Int
           /\ Nesting(tags, i, j + 1) = Nesting(tags, i, j) + Depth(tags[j + 1])
  <1> DEFINE Count(to, kind) == OfKind(tags, i, to, kind)
             o == Count(j, "open")
             c == Count(j, "close")
  <1>1. /\ o \in Nat
        /\ Count(j + 1, "open") = o + OneIf(tags[j + 1], "open")
    BY OneMore, Zenon
  <1>2. /\ c \in Nat
        /\ Count(j + 1, "close") = c + OneIf(tags[j + 1], "close")
    BY OneMore, Zenon
  <1>3. \A to, from : Nesting(tags, i, to) = Count(to, "open") - Count(to, "close")
    BY Zenon DEF Nesting, OfKind
  <1>4. Nesting(tags, i, i - 1) = 0
    <2>1. Count(i - 1, "open") = 0 /\ Count(i - 1, "close") = 0
      <3>1. {k \in i..i - 1 : tags[k].kind = "open"} = {}
        OBVIOUS
      <3>2. {k \in i..i - 1 : tags[k].kind = "close"} = {}
        OBVIOUS
      <3>3. QED
        BY <3>1, <3>2, FS_EmptySet, Zenon DEF OfKind
    <2> HIDE DEF Count
    <2>2. QED
      BY <1>3, <2>1
  <1> HIDE DEF Count
  <1>5. QED
    <2>1. Nesting(tags, i, j) = o - c
      BY <1>3, Zenon
    <2>2. Nesting(tags, i, j + 1) = Count(j + 1, "open") - Count(j + 1, "close")
      BY <1>3, Zenon
    <2> HIDE DEF o, c
    <2>3. Nesting(tags, i, j) \in Int
      BY <1>1, <1>2, <2>1
    <2>4. Nesting(tags, i, j + 1) = Nesting(tags, i, j) + Depth(tags[j + 1])
      <3> DEFINE kind == tags[j + 1].kind
      <3> HIDE DEF kind
      <3>1. /\ Nesting(tags, i, j + 1) = (o + (IF kind = "open" THEN 1 ELSE 0)) - (c + (IF kind = "close" THEN 1 ELSE 0))
            /\ Depth(tags[j + 1]) = IF kind = "open" THEN 1 ELSE IF kind = "close" THEN -1 ELSE 0
        BY <1>1, <1>2, <2>2, Zenon DEF kind, Depth, OneIf
      <3>2. QED
        BY <1>1, <1>2, <2>1, <3>1
    <2>5. QED
      BY <1>4, <2>3, <2>4

\* The tag that closes a value is the one after the value's own tags.
LEMMA ClosedAfter ==
    ASSUME NEW tags, NEW i \in Nat, NEW m \in Nat, Len(tags) \in Nat, i + m + 1 <= Len(tags),
           tags[i].kind = "open", tags[i + m + 1].kind = "close",
           NEW T, \A k \in 1..m : tags[i + k].kind = T[k].kind, Balanced(T, m)
    PROVE  ClosedBy(tags, i) = i + m + 1
  <1> DEFINE S == {k \in 0..m : Nesting(tags, i, i + k) = 1 + Nesting(T, 1, k)}
             closes == {j \in i..Len(tags) : Nesting(tags, i, j) = 0}
             close == i + m + 1
  <1>1. 0 \in S
    <2>1. Nesting(T, 1, 1 - 1) = 0 /\ Nesting(tags, i, i - 1) = 0
      <3>1. /\ 1 \in Int /\ 0 \in Int /\ 1 <= 0 + 1 /\ i \in Int /\ i - 1 \in Int /\ i <= (i - 1) + 1
        OBVIOUS
      <3>2. QED
        BY <3>1, NestingStep, Zenon
    <2>2. Nesting(tags, i, (i - 1) + 1) = Nesting(tags, i, i - 1) + Depth(tags[(i - 1) + 1])
      <3>1. i \in Int /\ i - 1 \in Int /\ i <= (i - 1) + 1
        OBVIOUS
      <3>2. QED
        BY <3>1, NestingStep, Zenon
    <2>3. (i - 1) + 1 = i /\ i + 0 = i /\ 1 - 1 = 0
      OBVIOUS
    <2>4. Depth(tags[i]) = 1
      BY DEF Depth
    <2>5. Nesting(tags, i, i + 0) = 1 + Nesting(T, 1, 0)
      BY <2>1, <2>2, <2>3, <2>4
    <2>6. QED
      BY <2>5
  <1>2. ASSUME NEW k \in 0..m, k < m, k \in S PROVE k + 1 \in S
    <2>1. Nesting(tags, i, i + k) = 1 + Nesting(T, 1, k)
      BY <1>2
    <2>2. /\ Nesting(tags, i, (i + k) + 1) = Nesting(tags, i, i + k) + Depth(tags[(i + k) + 1])
          /\ Nesting(T, 1, k + 1) = Nesting(T, 1, k) + Depth(T[k + 1]) /\ Nesting(T, 1, k) \in Int
      <3>1. i \in Int /\ i + k \in Int /\ i <= (i + k) + 1 /\ 1 \in Int /\ k \in Int /\ 1 <= k + 1
        OBVIOUS
      <3>2. QED
        BY <3>1, NestingStep, Zenon
    <2>3. (i + k) + 1 = i + (k + 1) /\ k + 1 \in 1..m /\ k + 1 \in 0..m
      BY <1>2
    <2>4. Depth(tags[i + (k + 1)]) = Depth(T[k + 1])
      BY <2>3, Zenon DEF Depth
    <2>5. Depth(T[k + 1]) \in Int
      BY DEF Depth
    <2>6. Nesting(tags, i, i + (k + 1)) = 1 + Nesting(T, 1, k + 1)
      BY <2>1, <2>2, <2>3, <2>4, <2>5
    <2>7. QED
      BY <2>3, <2>6
  <1>3. \A k \in 0..m : k \in S
    <2> HIDE DEF S
    <2>1. QED
      BY <1>1, <1>2, UpTo
  <1>4. \A k \in 0..m : Nesting(T, 1, k) \in Int /\ Nesting(T, 1, k) >= 0
    <2>1. TAKE k \in 0..m
    <2>2. 1 \in Int /\ k \in Int /\ 1 <= k + 1
      OBVIOUS
    <2>3. Nesting(T, 1, k) \in Int
      BY <2>2, NestingStep, Zenon
    <2>4. QED
      BY <2>3, Zenon DEF Balanced
  <1>5. ASSUME NEW j \in i..i + m PROVE Nesting(tags, i, j) # 0
    <2>1. j - i \in 0..m /\ i + (j - i) = j
      OBVIOUS
    <2>2. Nesting(tags, i, i + (j - i)) = 1 + Nesting(T, 1, j - i)
      BY <1>3, <2>1
    <2>3. QED
      BY <1>4, <2>1, <2>2
  <1>6. Nesting(tags, i, close) = 0
    <2>1. Nesting(tags, i, i + m) = 1
      <3>1. m \in 0..m
        OBVIOUS
      <3>2. Nesting(tags, i, i + m) = 1 + Nesting(T, 1, m)
        BY <1>3, <3>1
      <3>3. QED
        BY <3>2 DEF Balanced
    <2>2. Nesting(tags, i, (i + m) + 1) = Nesting(tags, i, i + m) + Depth(tags[(i + m) + 1])
      <3>1. i \in Int /\ i + m \in Int /\ i <= (i + m) + 1
        OBVIOUS
      <3>2. QED
        BY <3>1, NestingStep, Zenon
    <2>3. Depth(tags[(i + m) + 1]) = -1
      BY DEF Depth
    <2>4. QED
      BY <2>1, <2>2, <2>3
  <1>7. close \in closes /\ \A j \in closes : close <= j
    <2>1. close \in i..Len(tags)
      OBVIOUS
    <2>2. ASSUME NEW j \in i..Len(tags), Nesting(tags, i, j) = 0 PROVE close <= j
      BY <1>5, <2>2
    <2> HIDE DEF close
    <2>3. QED
      BY <1>6, <2>1, <2>2, Zenon
  <1>8. \A j \in closes : j \in Int
    OBVIOUS
  <1> HIDE DEF closes
  <1>9. Min(closes) = close
    <2>1. Min(closes) = CHOOSE x \in closes : \A y \in closes : x <= y
      BY Zenon DEF Min
    <2>2. \A x \in closes : (\A y \in closes : x <= y) => x = close
      BY <1>7, <1>8
    <2> HIDE DEF close
    <2>3. QED
      BY <1>7, <2>1, <2>2, Zenon
  <1>10. QED
    BY <1>7, <1>9, Zenon DEF ClosedBy, closes

-----------------------------------------------------------------------------
(* The tags of an answer                                                    *)

\* An opening or a closing tag at a place, and what follows it.
BoundaryAt(data, at, tag, kind) ==
    LET t == read_tag(data, at + 1)
    IN  /\ at + 1 <= Len(data)
        /\ t.kind = kind /\ t.number = tag /\ t.start = at + 1 /\ t.next = (at + 1) + 1
        /\ Tags(data, at + 1) = <<t>> \o Tags(data, (at + 1) + 1)

\* The tags from a place where an opening or a closing tag was put.
LEMMA BoundaryGoesOn ==
    ASSUME NEW data \in Octets, NEW at \in Nat, NEW tag \in Nat, tag <= 14, NEW lvt \in {6, 7},
           Holds(data, at, Context(tag, lvt))
    PROVE  BoundaryAt(data, at, tag, KindOf(lvt))
  <1> DEFINE t == read_tag(data, at + 1)
             first == 16 * tag + 8 + lvt
             position == at + 1
  <1>1. at + 1 <= Len(data) /\ data[at + 1] = first /\ Len(data) \in Nat
    <2>1. Context(tag, lvt) = <<first>>
      BY Zenon DEF Context
    <2> HIDE DEF first
    <2>2. Len(<<first>>) = 1 /\ <<first>>[1] = first /\ 1 \in 1..1
      OBVIOUS
    <2>3. at + 1 <= Len(data) /\ data[at + 1] = first
      BY <2>1, <2>2, Zenon DEF Holds
    <2>4. QED
      BY <2>3, OctetsAre
  <1>2. position \in 1..Len(data) /\ position \in Place
    BY <1>1 DEF Place
  <1>3. t = [number |-> tag, context |-> 8 = 8, kind |-> KindOf(lvt),
             body |-> Slice(data, position + 1, position + SizeOf(lvt)),
             start |-> position, next |-> position + 1 + SizeOf(lvt)]
    <2>1. /\ 8 \in {0, 8} /\ lvt \in Lengths \cup {6, 7} /\ (8 = 0 => tag # 1 /\ lvt \in Lengths)
          /\ data[position] = 16 * tag + 8 + lvt
      BY <1>1
    <2> HIDE DEF position
    <2>2. QED
      BY <1>2, <2>1, ShortTagRead, Zenon DEF position
  <1>4. SizeOf(lvt) = 0
    BY DEF SizeOf
  <1>5. t.kind = KindOf(lvt) /\ t.number = tag /\ t.start = position /\ t.next = position + 1 + 0
    BY <1>3, <1>4
  <1>6. t.kind # "raise"
    BY <1>5 DEF KindOf
  <1>7. t.next = position + 1 /\ ~(position > Len(data))
    BY <1>1, <1>5
  <1> HIDE DEF t, position
  <1>8. Tags(data, position) = IF position > Len(data) THEN <<>> ELSE IF t.kind = "raise" THEN <<t>>
                               ELSE <<t>> \o Tags(data, t.next)
    BY <1>2, TagsFrom, Zenon DEF t, position
  <1>9. Tags(data, position) = <<t>> \o Tags(data, position + 1)
    BY <1>6, <1>7, <1>8, Zenon
  <1>10. QED
    BY <1>1, <1>5, <1>7, <1>9, Zenon DEF t, position, BoundaryAt

\* An APDU that is a ReadProperty-ACK of a value: where its parts and their tags are.
IsAck(apdu, id, p, value) ==
    LET tags == Tags(apdu, 4)
        r == Len(ReferenceTags(p, 4))
        m == Len(Tags(value, 1))
        at == 4 + Len(ReferenceOf(p))
        end == at + Len(value)
    IN  /\ apdu \in Octets /\ Len(apdu) = end + 1
        /\ apdu[1] = 48 /\ apdu[2] = id /\ apdu[3] = SERVICE_READ_PROPERTY
        /\ Holds(apdu, at, value)
        /\ r \in {2, 3} /\ at \in Nat /\ m \in Nat /\ Len(tags) = r + m + 2
        /\ tags \in Seq(AllTags(apdu))
        /\ \A i \in 1..r : tags[i].kind = "value"
        /\ tags[r + 1].kind = "open" /\ tags[r + 1].number = 3 /\ tags[r + 1].next = at + 1
        /\ \A i \in 1..m : tags[r + 1 + i] = Moved(Tags(value, 1)[i], at)
        /\ tags[r + m + 2].kind = "close" /\ tags[r + m + 2].number = 3
        /\ tags[r + m + 2].start = end + 1 /\ tags[r + m + 2].next = end + 2

\* read_property_ack puts the tags of the reference, an opening tag, those of the
\* value and the closing tag.
LEMMA AckTags ==
    ASSUME NEW id \in Octet, NEW p, Readable(p), NEW value \in Octets, Whole(value, 1)
    PROVE  IsAck(read_property_ack(id, p.object, p.property, p.array_index, value), id, p, value)
  <1> DEFINE apdu == read_property_ack(id, p.object, p.property, p.array_index, value)
             header == <<48, id, SERVICE_READ_PROPERTY>>
             ref == ReferenceOf(p)
             open == opening(3)
             close == closing(3)
             front == open \o value
             enclosed == front \o close
             parameters == ref \o enclosed
             n == Len(ref)
             k == Len(value)
             at == 4 + n
             end == at + k
             RT == ReferenceTags(p, 4)
             r == Len(RT)
             VT == Tags(value, 1)
             m == Len(VT)
             MT == MovedTags(VT, at)
             o == read_tag(apdu, at)
             c == read_tag(apdu, end + 1)
             tags == Tags(apdu, 4)
  <1>1. header \in Octets /\ Len(header) = 3
    <2>1. 48 \in Octet /\ SERVICE_READ_PROPERTY \in Octet
      BY OctetIs DEF SERVICE_READ_PROPERTY
    <2>2. QED
      BY <2>1, HeaderOctets
  <1>2. header[1] = 48 /\ header[2] = id /\ header[3] = SERVICE_READ_PROPERTY
    OBVIOUS
  <1>3. apdu = header \o parameters
    <2>1. 16 * PDU_COMPLEX_ACK = 48
      BY DEF PDU_COMPLEX_ACK
    <2>2. QED
      BY <2>1, Zenon DEF read_property_ack, complex_ack, Enclosed, ReferenceOf
  <1>4. ref \in Octets
    BY ReferenceIsOctets, Zenon
  <1>5. open \in Octets /\ Len(open) = 1 /\ close \in Octets /\ Len(close) = 1
    <2>1. open \in Octets /\ close \in Octets
      BY TagOctet DEF opening, closing
    <2>2. open = <<16 * 3 + 8 + 6>> /\ close = <<16 * 3 + 8 + 7>>
      BY Zenon DEF opening, closing, Context
    <2>3. QED
      BY <2>1, <2>2
  <1> HIDE DEF apdu, header, ref, open, close
  <1>6. /\ front \in Octets /\ Len(front) = Len(open) + k
        /\ Holds(front, 0, open) /\ Holds(front, Len(open), value) /\ k \in Nat
    BY <1>5, HoldsAfter, Zenon
  <1> HIDE DEF front
  <1>7. enclosed \in Octets /\ Len(enclosed) = Len(front) + Len(close)
    BY <1>5, <1>6, HoldsAfter, Zenon
  <1> HIDE DEF enclosed
  <1>8. parameters \in Octets /\ Len(parameters) = n + Len(enclosed) /\ n \in Nat
    BY <1>4, <1>7, HoldsAfter, Zenon
  <1> HIDE DEF parameters
  <1>9. /\ apdu \in Octets /\ Len(apdu) = 3 + Len(parameters)
        /\ \A i \in 1..3 : apdu[i] = header[i]
        /\ Holds(apdu, 3, parameters)
    <2>1. /\ header \o parameters \in Octets
          /\ Len(header \o parameters) = Len(header) + Len(parameters)
          /\ \A i \in 1..Len(header) : (header \o parameters)[i] = header[i]
          /\ Holds(header \o parameters, Len(header), parameters)
      BY <1>1, <1>8, HoldsAfter, Zenon
    <2>2. QED
      BY <1>1, <1>3, <2>1, Zenon
  <1>10. Len(apdu) = end + 1 /\ at \in Nat /\ end \in Nat
    BY <1>5, <1>6, <1>7, <1>8, <1>9
  <1>11. Holds(apdu, 3, ref) /\ Holds(apdu, 3 + n, enclosed) /\ 3 \in Nat /\ 3 + n \in Nat
    <2>1. 3 \in Nat /\ Holds(apdu, 3, ref \o enclosed)
      BY <1>9 DEF parameters
    <2>2. Holds(apdu, 3, ref) /\ Holds(apdu, 3 + n, enclosed)
      BY <1>4, <1>7, <1>9, <2>1, HoldsBoth, Zenon
    <2>3. QED
      BY <1>8, <2>1, <2>2
  <1>12. Holds(apdu, 3 + n, front) /\ Holds(apdu, (3 + n) + Len(front), close)
    <2>1. Holds(apdu, 3 + n, front \o close)
      BY <1>11 DEF enclosed
    <2>2. QED
      BY <1>5, <1>6, <1>9, <1>11, <2>1, HoldsBoth, Zenon
  <1>13. Holds(apdu, 3 + n, open) /\ Holds(apdu, (3 + n) + Len(open), value)
    <2>1. Holds(apdu, 3 + n, open \o value)
      BY <1>12 DEF front
    <2>2. QED
      BY <1>5, <1>9, <1>11, <2>1, HoldsBoth, Zenon
  <1>14. (3 + n) + 1 = at /\ (3 + n) + Len(open) = at /\ (3 + n) + Len(front) = end /\ 3 + 1 = 4
    BY <1>5, <1>6, <1>8
  <1>15. /\ Tags(apdu, 4) = RT \o Tags(apdu, at)
    <2>1. Tags(apdu, 3 + 1) = ReferenceTags(p, 3 + 1) \o Tags(apdu, (3 + n) + 1)
      BY <1>9, <1>11, ReferenceRead, Zenon DEF ref
    <2>2. QED
      BY <1>14, <2>1, Zenon
  <1>16. /\ o.kind = "open" /\ o.number = 3 /\ o.next = at + 1 /\ at <= Len(apdu)
         /\ Tags(apdu, at) = <<o>> \o Tags(apdu, at + 1)
    <2>1. Holds(apdu, 3 + n, Context(3, 6)) /\ 3 \in Nat /\ 3 <= 14 /\ 6 \in {6, 7}
      BY <1>13 DEF open, opening
    <2> DEFINE q == 3 + n
    <2>2. q \in Nat /\ q + 1 = at
      BY <1>11, <1>14
    <2> HIDE DEF q
    <2>3. BoundaryAt(apdu, q, 3, KindOf(6))
      BY <1>9, <2>1, <2>2, BoundaryGoesOn, Zenon DEF q
    <2>4. KindOf(6) = "open"
      BY DEF KindOf
    <2> HIDE DEF at
    <2>5. /\ at <= Len(apdu) /\ o.kind = KindOf(6) /\ o.number = 3 /\ o.next = at + 1
          /\ Tags(apdu, at) = <<o>> \o Tags(apdu, at + 1)
      <3> HIDE DEF RT, c, tags, r, VT, MT, VT, m
      <3>1. QED
        BY <2>2, <2>3 DEF BoundaryAt
    <2> HIDE DEF o
    <2>6. QED
      BY <2>4, <2>5, Zenon
  <1>17. Tags(apdu, at + 1) = MT \o Tags(apdu, end + 1)
    <2>1. Holds(apdu, at, value)
      BY <1>13, <1>14, Zenon
    <2> HIDE DEF at
    <2>2. QED
      BY <1>9, <1>10, <2>1, TagsMoved, Zenon DEF at
  <1>18. /\ c.kind = "close" /\ c.number = 3 /\ c.start = end + 1 /\ c.next = (end + 1) + 1
         /\ end + 1 <= Len(apdu)
         /\ Tags(apdu, end + 1) = <<c>> \o Tags(apdu, (end + 1) + 1)
    <2>1. Holds(apdu, end, Context(3, 7)) /\ 3 \in Nat /\ 3 <= 14 /\ 7 \in {6, 7}
      BY <1>12, <1>14 DEF close, closing
    <2>2. KindOf(7) = "close"
      BY DEF KindOf
    <2>3. end \in Nat
      BY <1>10
    <2> HIDE DEF end, c
    <2>4. BoundaryAt(apdu, end, 3, KindOf(7))
      BY <1>9, <2>1, <2>3, BoundaryGoesOn, Zenon
    <2> DEFINE d == read_tag(apdu, end + 1)
    <2>5. c = d
      BY DEF c
    <2> HIDE DEF d
    <2>6. /\ end + 1 <= Len(apdu) /\ d.kind = KindOf(7) /\ d.number = 3 /\ d.start = end + 1
          /\ d.next = (end + 1) + 1
          /\ Tags(apdu, end + 1) = <<d>> \o Tags(apdu, (end + 1) + 1)
      BY <2>4, Zenon DEF d, BoundaryAt
    <2>7. QED
      BY <2>2, <2>5, <2>6, Zenon
  <1>19. Tags(apdu, (end + 1) + 1) = <<>>
    BY <1>9, <1>10, TagsEnd, Zenon
  <1>20. Tags(apdu, end + 1) = <<c>>
    <2> HIDE DEF c
    <2>1. <<c>> \o <<>> = <<c>>
      OBVIOUS
    <2>2. QED
      BY <1>18, <1>19, <2>1, Zenon
  <1>21. r \in {2, 3} /\ \A i \in 1..r : RT[i].kind = "value"
    <2> DEFINE t1 == ValueTag(0, object_id(p.object), 4)
               t2 == ValueTag(1, unsigned_octets(p.property), 4 + 5)
               t3 == ValueTag(2, unsigned_octets(p.array_index[1]), t2.next)
    <2>1. RT = IF Given(p.array_index) THEN <<t1, t2, t3>> ELSE <<t1, t2>>
      BY Zenon DEF ReferenceTags
    <2>2. t1.kind = "value" /\ t2.kind = "value" /\ t3.kind = "value"
      BY DEF ValueTag
    <2> HIDE DEF t1, t2, t3, RT
    <2>3. QED
      BY <2>1, <2>2
  <1> DEFINE Among == AllTags(apdu) \cup {MT[i] : i \in 1..Len(MT)} \cup {RT[i] : i \in 1..r}
  <1>22. RT \in Seq(Among)
    <2>1. \E S : RT \in Seq(S)
      <3> DEFINE t1 == ValueTag(0, object_id(p.object), 4)
                 t2 == ValueTag(1, unsigned_octets(p.property), 4 + 5)
                 t3 == ValueTag(2, unsigned_octets(p.array_index[1]), t2.next)
                 S == {t1, t2, t3}
      <3>1. RT = IF Given(p.array_index) THEN <<t1, t2, t3>> ELSE <<t1, t2>>
        BY Zenon DEF ReferenceTags
      <3> HIDE DEF t1, t2, t3, RT
      <3>2. <<t1, t2>> \in Seq(S) /\ <<t1, t2, t3>> \in Seq(S)
        OBVIOUS
      <3> HIDE DEF S
      <3>4. RT \in Seq(S)
        BY <3>1, <3>2, Zenon
      <3>5. QED
        BY <3>4, Zenon
    <2>2. \A i \in 1..Len(RT) : RT[i] \in Among
      OBVIOUS
    <2> HIDE DEF r, RT, Among
    <2>3. QED
      BY <2>1, <2>2
  <1>23. /\ VT \in Seq(AllTags(value)) /\ m \in Nat
    <2>1. VT \in Seq(AllTags(value))
      <3>1. 1 \in Place
        BY DEF Place
      <3>2. QED
        BY <3>1, TagsFrom, Zenon
    <2> HIDE DEF VT
    <2>2. QED
      BY <2>1
  <1> HIDE DEF RT, VT, o, c, at, end
  <1>24. /\ Len(MT) = m /\ MT \in Seq(Among)
         /\ \A i \in 1..m : MT[i] = Moved(VT[i], at)
    <2>1. MT = [i \in 1..m |-> Moved(VT[i], at)]
      BY Zenon DEF MovedTags
    <2>2. Len(MT) = m /\ \A i \in 1..m : MT[i] = Moved(VT[i], at) /\ MT[i] \in Among
      <3> HIDE DEF m
      <3>1. Len(MT) = m /\ \A i \in 1..m : MT[i] = Moved(VT[i], at)
        <4> HIDE DEF MT
        <4>1. QED
          BY <1>23, <2>1
      <3> HIDE DEF MT
      <3>2. QED
        BY <3>1
    <2> HIDE DEF Among, m
    <2>3. QED
      BY <1>23, <2>1, <2>2
  <1>25. o \in Among /\ c \in Among
    <2>1. Len(apdu) \in Nat /\ at \in 1..Len(apdu) /\ end + 1 \in 1..Len(apdu)
      <3>1. at >= 1
        BY <1>8 DEF at
      <3>2. QED
        BY <1>10, <1>16, <1>18, <3>1
    <2>2. o \in AllTags(apdu) /\ c \in AllTags(apdu)
      BY <2>1, Zenon DEF o, c, AllTags
    <2>3. QED
      BY <2>2
  <1> HIDE DEF MT, Among
  <1>26. Tags(apdu, 4) = RT \o (<<o>> \o (MT \o <<c>>))
    BY <1>15, <1>16, <1>17, <1>20, Zenon
  <1>27. /\ Len(tags) = r + m + 2
         /\ \A i \in 1..r : tags[i] = RT[i]
         /\ tags[r + 1] = o
         /\ \A i \in 1..m : tags[r + 1 + i] = MT[i]
         /\ tags[r + m + 2] = c
    <2> DEFINE B == MT \o <<c>>
               A == <<o>> \o B
    <2>1. /\ B \in Seq(Among) /\ Len(B) = m + 1 /\ B[m + 1] = c
          /\ \A i \in 1..m : B[i] = MT[i]
      BY <1>23, <1>24, <1>25
    <2> HIDE DEF B, m
    <2>2. /\ A \in Seq(Among) /\ Len(A) = m + 2 /\ A[1] = o
          /\ \A i \in 1..m + 1 : A[1 + i] = B[i]
      BY <1>23, <1>25, <2>1
    <2> HIDE DEF A
    <2> DEFINE C == RT \o A
    <2>3. /\ Len(C) = r + (m + 2)
          /\ \A i \in 1..r : C[i] = RT[i]
          /\ \A i \in 1..m + 2 : C[r + i] = A[i]
      BY <1>22, <2>2
    <2>4. tags = C
      BY <1>26, Zenon DEF A, B
    <2> HIDE DEF C, tags, r
    <2>5. r \in Nat /\ m \in Nat
      BY <1>21, <1>23
    <2>6. Len(tags) = r + m + 2 /\ tags[r + 1] = o
      BY <2>2, <2>3, <2>4, <2>5
    <2>7. ASSUME NEW i \in 1..m PROVE tags[r + 1 + i] = MT[i]
      <3>1. r + 1 + i = r + (1 + i) /\ 1 + i \in 1..m + 2 /\ i \in 1..m + 1
        BY <2>5
      <3>2. C[r + (1 + i)] = A[1 + i] /\ A[1 + i] = B[i] /\ B[i] = MT[i]
        BY <2>1, <2>2, <2>3, <3>1, Zenon
      <3>3. QED
        BY <2>4, <3>1, <3>2, Zenon
    <2>8. tags[r + m + 2] = c
      <3>1. r + m + 2 = r + (1 + (m + 1)) /\ 1 + (m + 1) \in 1..m + 2 /\ m + 1 \in 1..m + 1
        BY <2>5
      <3>2. C[r + (1 + (m + 1))] = A[1 + (m + 1)] /\ A[1 + (m + 1)] = B[m + 1]
        BY <2>2, <2>3, <3>1, Zenon
      <3>3. QED
        BY <2>1, <2>4, <3>1, <3>2, Zenon
    <2>9. QED
      BY <2>3, <2>4, <2>6, <2>7, <2>8, Zenon
  <1>28. tags \in Seq(AllTags(apdu))
    <2>1. 4 \in Place
      BY DEF Place
    <2>2. QED
      BY <1>9, <2>1, TagsFrom, Zenon
  <1>29. apdu[1] = 48 /\ apdu[2] = id /\ apdu[3] = SERVICE_READ_PROPERTY
    <2>1. 1 \in 1..3 /\ 2 \in 1..3 /\ 3 \in 1..3
      OBVIOUS
    <2>2. QED
      BY <1>2, <1>9, <2>1, Zenon
  <1> HIDE DEF tags, r, m
  <1>30. /\ \A i \in 1..r : tags[i].kind = "value"
         /\ tags[r + 1].kind = "open" /\ tags[r + 1].number = 3 /\ tags[r + 1].next = at + 1
         /\ \A i \in 1..m : tags[r + 1 + i] = Moved(VT[i], at)
         /\ tags[r + m + 2].kind = "close" /\ tags[r + m + 2].number = 3
         /\ tags[r + m + 2].start = end + 1 /\ tags[r + m + 2].next = (end + 1) + 1
    BY <1>16, <1>18, <1>21, <1>24, <1>27, Zenon
  <1>31. (end + 1) + 1 = end + 2 /\ Holds(apdu, at, value)
    BY <1>10, <1>13, <1>14
  <1>32. QED
    BY <1>9, <1>10, <1>21, <1>23, <1>27, <1>28, <1>29, <1>30, <1>31, Zenon
       DEF IsAck, tags, r, m, at, end, RT, VT, apdu, n, k, ref

\* The client reads in a ReadProperty-ACK the value that was put in it, whatever
\* constructed values the value holds.
THEOREM AckRoundTrip ==
    ASSUME NEW id \in Octet, NEW p, Readable(p), NEW value \in Octets, Whole(value, 1),
           Balanced(Tags(value, 1), Len(Tags(value, 1)))
    PROVE  read_property_value(read_property_ack(id, p.object, p.property, p.array_index, value))
             = Some(value)
  <1> DEFINE apdu == read_property_ack(id, p.object, p.property, p.array_index, value)
             tags == Tags(apdu, 4)
             r == Len(ReferenceTags(p, 4))
             VT == Tags(value, 1)
             m == Len(VT)
             at == 4 + Len(ReferenceOf(p))
             end == at + Len(value)
             open == r + 1
             close == r + m + 2
             threes == {i \in 1..Len(tags) : IsOpen(tags[i], 3)}
             found == IF threes # {} THEN Min(threes) ELSE 0
  <1>1. IsAck(apdu, id, p, value)
    BY AckTags, Zenon
  <1> HIDE DEF apdu
  <1>2. /\ apdu \in Octets /\ Len(apdu) = end + 1 /\ Holds(apdu, at, value)
        /\ r \in {2, 3} /\ at \in Nat /\ m \in Nat /\ Len(tags) = r + m + 2
        /\ \A i \in 1..r : tags[i].kind = "value"
        /\ tags[open].kind = "open" /\ tags[open].number = 3 /\ tags[open].next = at + 1
        /\ \A i \in 1..m : tags[r + 1 + i] = Moved(VT[i], at)
        /\ tags[close].kind = "close" /\ tags[close].start = end + 1
    BY <1>1, Zenon DEF IsAck
  <1> HIDE DEF tags, r, m, VT, at
  <1>3. open \in threes /\ \A i \in threes : open <= i /\ i \in Int
    <2>1. open \in threes
      BY <1>2 DEF IsOpen
    <2>2. ASSUME NEW i \in threes PROVE open <= i /\ i \in Int
      <3>1. i \in 1..r => tags[i].kind = "value"
        BY <1>2, Zenon
      <3>2. tags[i].kind = "open" /\ i \in 1..Len(tags)
        BY DEF IsOpen
      <3>3. QED
        BY <1>2, <3>1, <3>2
    <2>3. QED
      BY <2>1, <2>2
  <1> HIDE DEF threes
  <1>4. found = open /\ open # 0
    <2>1. open # 0 /\ threes # {}
      BY <1>2, <1>3
    <2>2. Min(threes) = CHOOSE x \in threes : \A y \in threes : x <= y
      BY Zenon DEF Min
    <2>3. \A x \in threes : (\A y \in threes : x <= y) => x = open
      BY <1>3
    <2> HIDE DEF open
    <2>4. Min(threes) = open
      BY <1>3, <2>2, <2>3, Zenon
    <2>5. QED
      BY <2>1, <2>4
  <1>5. read_property_value(apdu) = IF found = 0 THEN None ELSE Some(Inside(apdu, tags, found))
    BY Zenon DEF read_property_value, SelectInSeq, tags, threes
  <1> HIDE DEF found
  <1>6. ClosedBy(tags, open) = close
    <2>1. /\ open \in Nat /\ Len(tags) \in Nat /\ open + m + 1 = close /\ close <= Len(tags)
      BY <1>2
    <2>2. \A k \in 1..m : tags[open + k].kind = VT[k].kind
      <3>1. \A tag : Moved(tag, at).kind = tag.kind
        BY DEF Moved
      <3>2. QED
        BY <1>2, <3>1, Zenon
    <2>3. tags[open].kind = "open" /\ tags[open + m + 1].kind = "close"
      BY <1>2, <2>1, Zenon
    <2>4. Balanced(VT, m)
      BY Zenon DEF VT, m
    <2> HIDE DEF open, close
    <2>5. open + m + 1 <= Len(tags)
      BY <2>1, Zenon
    <2>6. ClosedBy(tags, open) = open + m + 1
      BY <1>2, <2>1, <2>2, <2>3, <2>4, <2>5, ClosedAfter, Zenon
    <2>7. QED
      BY <2>1, <2>6, Zenon
  <1>7. Inside(apdu, tags, open) = SubSeq(apdu, at + 1, end)
    <2>1. close # 0 /\ (end + 1) - 1 = end
      <3>1. Len(value) \in Nat
        BY OctetsAre
      <3>2. QED
        BY <1>2, <3>1, SMTT(30)
    <2> HIDE DEF open, close, end
    <2>2. QED
      BY <1>2, <1>6, <2>1, Zenon DEF Inside
  <1>8. SubSeq(apdu, at + 1, end) = value
    BY <1>2, PartHeld, Zenon
  <1>9. QED
    BY <1>4, <1>5, <1>7, <1>8, Zenon DEF apdu

-----------------------------------------------------------------------------
(* What the client makes of an answer                                       *)

ClientReads(g) == [value |-> value_octets(g), error |-> error(g), abort |-> abort_reason(g), id |-> invoke_id(g)]
Says(id, value, error_, abort) == [value |-> value, error |-> error_, abort |-> abort, id |-> Some(id)]

\* Where no value is constructed, none is left open.
LEMMA ValuesBalanced ==
    ASSUME NEW tags, NEW m \in Nat, \A i \in 1..m : tags[i].kind = "value"
    PROVE  Balanced(tags, m)
  <1>1. ASSUME NEW k \in 0..m PROVE Nesting(tags, 1, k) = 0
    <2>1. \A i \in 1..k : tags[i].kind = "value"
      OBVIOUS
    <2>2. {i \in 1..k : tags[i].kind = "open"} = {} /\ {i \in 1..k : tags[i].kind = "close"} = {}
      BY <2>1
    <2>3. Cardinality({}) = 0
      BY FS_EmptySet
    <2>4. Nesting(tags, 1, k) = 0 - 0
      BY <2>2, <2>3, Zenon DEF Nesting
    <2>5. QED
      BY <2>4
  <1>2. m \in 0..m
    OBVIOUS
  <1>3. Nesting(tags, 1, m) = 0 /\ \A k \in 0..m : Nesting(tags, 1, k) >= 0
    BY <1>1, <1>2
  <1>4. QED
    BY <1>3, Zenon DEF Balanced

\* The type of an APDU is in the high bits of its first octet.
LEMMA PduIs ==
    ASSUME NEW g, g.network_message = None, g.payload \in Octets, Len(g.payload) >= 1,
           NEW type, g.payload[1] \div 16 = type
    PROVE  pdu_type(g) = <<type>> /\ \A types : IsPdu(g, types) <=> type \in types
  <1>1. g.payload # <<>>
    BY OctetsAre
  <1>2. pdu_type(g) = <<type>>
    BY <1>1, Zenon DEF pdu_type, Given, Some
  <1>3. <<type>>[1] = type /\ <<type>> # <<>>
    OBVIOUS
  <1>4. QED
    BY <1>2, <1>3, Zenon DEF IsPdu, Given, None

\* A ReadProperty-ACK: the client has the value.
LEMMA AckReads ==
    ASSUME NEW id \in Octet, NEW p, Readable(p), NEW value \in Octets, Whole(value, 1),
           Balanced(Tags(value, 1), Len(Tags(value, 1))), NEW g, g.network_message = None,
           g.payload = read_property_ack(id, p.object, p.property, p.array_index, value)
    PROVE  ClientReads(g) = Says(id, Some(value), None, None) /\ g.payload \in Octets
  <1> DEFINE apdu == read_property_ack(id, p.object, p.property, p.array_index, value)
  <1>1. value \in Octets /\ Whole(value, 1)
    OBVIOUS
  <1>2. Balanced(Tags(value, 1), Len(Tags(value, 1)))
    OBVIOUS
  <1>3. read_property_value(apdu) = Some(value)
    BY <1>1, <1>2, AckRoundTrip, Zenon
  <1>4. IsAck(apdu, id, p, value)
    BY <1>1, AckTags, Zenon
  <1> HIDE DEF apdu
  <1>5. g.payload = apdu /\ apdu \in Octets /\ Len(apdu) >= 1 /\ apdu[1] = 48 /\ apdu[2] = id
    <2>1. /\ apdu \in Octets /\ Len(apdu) = ((4 + Len(ReferenceOf(p))) + Len(value)) + 1
          /\ 4 + Len(ReferenceOf(p)) \in Nat /\ apdu[1] = 48 /\ apdu[2] = id
      BY <1>4, Zenon DEF IsAck
    <2>2. Len(value) \in Nat
      BY <1>1, OctetsAre
    <2>3. QED
      BY <2>1, <2>2 DEF apdu
  <1>6. apdu[1] \div 16 = 3
    BY <1>5
  <1>7. \A types : IsPdu(g, types) <=> 3 \in types
    BY <1>5, <1>6, PduIs, Zenon
  <1>8. /\ IsPdu(g, {PDU_COMPLEX_ACK}) /\ ~IsPdu(g, {PDU_ERROR}) /\ ~IsPdu(g, {PDU_ABORT})
        /\ IsPdu(g, Answers)
    <2>1. 3 \in {PDU_COMPLEX_ACK} /\ 3 \notin {PDU_ERROR} /\ 3 \notin {PDU_ABORT} /\ 3 \in Answers
      BY DEF PDU_COMPLEX_ACK, PDU_ERROR, PDU_ABORT, Answers
    <2>2. QED
      BY <1>7, <2>1, Zenon
  <1>9. value_octets(g) = Some(value)
    BY <1>3, <1>5, <1>8, Zenon DEF value_octets
  <1>10. error(g) = None /\ abort_reason(g) = None /\ invoke_id(g) = Some(id)
    BY <1>5, <1>8, Zenon DEF error, abort_reason, Reason, invoke_id
  <1>11. QED
    BY <1>5, <1>9, <1>10, Zenon DEF ClientReads, Says

\* A ReadProperty-ACK of a value made of primitives.
LEMMA AckSays ==
    ASSUME NEW id \in Octet, NEW p, Readable(p), NEW value, NEW seqs, NEW k \in Nat, Elements(value, seqs, k),
           NEW g, g.network_message = None,
           g.payload = read_property_ack(id, p.object, p.property, p.array_index, value)
    PROVE  ClientReads(g) = Says(id, Some(value), None, None)
  <1>1. value \in Octets /\ Whole(value, 1) /\ Len(Tags(value, 1)) = k
    BY ElementsWhole, Zenon DEF Elements
  <1>2. Balanced(Tags(value, 1), Len(Tags(value, 1)))
    BY <1>1, ElementsWhole, ValuesBalanced, Zenon
  <1>3. QED
    BY <1>1, <1>2, AckReads, Zenon

\* An Abort: the client has its reason.
LEMMA AbortSays ==
    ASSUME NEW id \in Octet, NEW reason \in Octet, NEW g, g.network_message = None,
           g.payload = abort_pdu(id, reason)
    PROVE  ClientReads(g) = Says(id, None, None, Some(reason)) /\ g.payload \in Octets
  <1> DEFINE apdu == <<113, id, reason>>
  <1>1. g.payload = apdu
    BY DEF abort_pdu, PDU_ABORT
  <1>2. apdu \in Octets /\ Len(apdu) = 3 /\ apdu[1] = 113 /\ apdu[2] = id /\ apdu[3] = reason
    <2>1. 113 \in Octet
      BY OctetIs
    <2>2. apdu \in Octets
      BY <2>1, HeaderOctets
    <2>3. QED
      BY <2>2
  <1> HIDE DEF apdu
  <1>3. apdu[1] \div 16 = 7 /\ Len(apdu) >= 1 /\ Len(apdu) >= 3
    BY <1>2
  <1>4. \A types : IsPdu(g, types) <=> 7 \in types
    <2>1. g.payload \in Octets /\ Len(g.payload) >= 1 /\ g.payload[1] \div 16 = 7
      BY <1>1, <1>2, <1>3
    <2>2. QED
      BY <2>1, PduIs, Zenon
  <1>5. /\ ~IsPdu(g, {PDU_COMPLEX_ACK}) /\ ~IsPdu(g, {PDU_ERROR}) /\ IsPdu(g, {PDU_ABORT})
        /\ IsPdu(g, Answers)
    <2>1. 7 \notin {PDU_COMPLEX_ACK} /\ 7 \notin {PDU_ERROR} /\ 7 \in {PDU_ABORT} /\ 7 \in Answers
      BY DEF PDU_COMPLEX_ACK, PDU_ERROR, PDU_ABORT, Answers
    <2>2. QED
      BY <1>4, <2>1, Zenon
  <1>6. value_octets(g) = None /\ error(g) = None /\ invoke_id(g) = Some(id)
    <2>1. g.payload[2] = id
      BY <1>1, <1>2, Zenon
    <2>2. QED
      BY <1>5, <2>1, Zenon DEF value_octets, error, invoke_id
  <1>7. abort_reason(g) = Some(reason)
    <2>1. Len(g.payload) >= 3 /\ g.payload[3] = reason
      BY <1>1, <1>2, <1>3, Zenon
    <2>2. QED
      BY <1>5, <2>1, Zenon DEF abort_reason, Reason
  <1>8. QED
    BY <1>1, <1>2, <1>6, <1>7, Zenon DEF ClientReads, Says

\* The loop of ValuesAmong.
IsKept(tags, contexts, f) ==
    f = [i \in 0..Len(tags) |->
           IF i = 0 THEN <<>>
           ELSE IF tags[i].kind = "value" /\ tags[i].context \in contexts
           THEN Append(f[i - 1], tags[i]) ELSE f[i - 1]]

\* What Append gives, of the sequence l it gives.
LEMMA Appended ==
    ASSUME NEW S, NEW c \in Seq(S), NEW y \in S
    PROVE  \A l : l = Append(c, y) =>
             /\ l \in Seq(S) /\ Len(l) = Len(c) + 1
             /\ (\A i \in 1..Len(c) : l[i] = c[i]) /\ l[Len(c) + 1] = y
  <1>1. Append(c, y) \in Seq(S)
    OBVIOUS
  <1>2. Len(Append(c, y)) = Len(c) + 1
    OBVIOUS
  <1>3. \A i \in 1..Len(c) : Append(c, y)[i] = c[i]
    OBVIOUS
  <1>4. Append(c, y)[Len(c) + 1] = y
    OBVIOUS
  <1>5. QED
    BY <1>1, <1>2, <1>3, <1>4, Zenon

\* Appending to a sequence of one.
LEMMA SecondAppended ==
    ASSUME NEW S, NEW c \in Seq(S), NEW y \in S, Len(c) = 1, NEW l, l = Append(c, y)
    PROVE  l \in Seq(S) /\ Len(l) = 2 /\ l[1] = c[1] /\ l[2] = y
  <1>1. /\ l \in Seq(S) /\ Len(l) = Len(c) + 1
        /\ (\A i \in 1..Len(c) : l[i] = c[i]) /\ l[Len(c) + 1] = y
    BY Appended, SMTT(30)
  <1>2. SUFFICES ASSUME l \in Seq(S), Len(l) = Len(c) + 1, \A i \in 1..Len(c) : l[i] = c[i],
                        l[Len(c) + 1] = y
                 PROVE  Len(l) = 2 /\ l[1] = c[1] /\ l[2] = y
    BY <1>1, Zenon
  <1>3. Len(c) + 1 = 2 /\ 1 \in 1..Len(c)
    OBVIOUS
  <1>4. QED
    BY <1>2, <1>3, Zenon

\* Two primitives, both of a class that counts, and no tags.
LEMMA TwoValues ==
    ASSUME NEW contexts
    PROVE  /\ ValuesAmong(<<>>, contexts) = <<>>
           /\ \A x, y : x.kind = "value" /\ x.context \in contexts /\ y.kind = "value" /\ y.context \in contexts
                        => ValuesAmong(<<x, y>>, contexts) = <<x, y>>
  <1>0. \A tags : ValuesAmong(tags, contexts) = (CHOOSE f : IsKept(tags, contexts, f))[Len(tags)]
    BY Zenon DEF ValuesAmong, IsKept
  <1>1. ValuesAmong(<<>>, contexts) = <<>>
    <2> DEFINE f == CHOOSE f : IsKept(<<>>, contexts, f)
    <2>1. IsKept(<<>>, contexts, [i \in 0..0 |-> <<>>])
      BY DEF IsKept
    <2>2. IsKept(<<>>, contexts, f)
      BY <2>1, Zenon
    <2> HIDE DEF f
    <2>3. f[0] = <<>> /\ Len(<<>>) = 0
      BY <2>2 DEF IsKept
    <2>4. QED
      BY <1>0, <2>3, Zenon DEF f
  <1>2. ASSUME NEW x, NEW y, x.kind = "value", x.context \in contexts, y.kind = "value", y.context \in contexts
        PROVE  ValuesAmong(<<x, y>>, contexts) = <<x, y>>
    <2> DEFINE tags == <<x, y>>
               f == CHOOSE f : IsKept(tags, contexts, f)
               w == [i \in 0..2 |-> IF i = 0 THEN <<>> ELSE IF i = 1 THEN <<x>> ELSE <<x, y>>]
               kept(i) == tags[i].kind = "value" /\ tags[i].context \in contexts
    <2>1. Len(tags) = 2 /\ tags[1] = x /\ tags[2] = y /\ kept(1) /\ kept(2)
      BY <1>2
    <2> HIDE DEF tags
    <2>2. Append(<<>>, x) = <<x>> /\ Append(<<x>>, y) = <<x, y>>
      <3> DEFINE S == {x, y}
                 a == Append(<<>>, x)
                 c == <<x>>
                 b == Append(c, y)
                 d == <<x, y>>
      <3>1. <<>> \in Seq(S) /\ c \in Seq(S) /\ Len(c) = 1 /\ c[1] = x
        OBVIOUS
      <3>2. d \in Seq(S) /\ Len(d) = 2 /\ d[1] = x /\ d[2] = y
        OBVIOUS
      <3>3. a \in Seq(S) /\ Len(a) = 1 /\ a[1] = x
        OBVIOUS
      <3>4. b \in Seq(S) /\ Len(b) = 2 /\ b[1] = x /\ b[2] = y
        <4>1. y \in S
          OBVIOUS
        <4>2. b = Append(c, y)
          OBVIOUS
        <4> HIDE DEF b, c, S
        <4>3. b \in Seq(S) /\ Len(b) = 2 /\ b[1] = c[1] /\ b[2] = y
          BY <3>1, <4>1, <4>2, SecondAppended, SMTT(30)
        <4>4. QED
          BY <3>1, <4>3, Zenon
      <3> HIDE DEF a, b, c, d, S
      <3>5. a = c
        BY <3>1, <3>3, SeqEqual
      <3>6. b = d
        BY <3>2, <3>4, SeqEqual
      <3>7. QED
        BY <3>5, <3>6 DEF a, b, c, d
    <2>3. IsKept(tags, contexts, w)
      <3>1. w[0] = <<>> /\ w[1] = <<x>> /\ w[2] = <<x, y>> /\ DOMAIN w = 0..2
        OBVIOUS
      <3> HIDE DEF w
      <3> DEFINE g == [i \in 0..2 |-> IF i = 0 THEN <<>> ELSE IF kept(i) THEN Append(w[i - 1], tags[i]) ELSE w[i - 1]]
      <3>2. g[0] = <<>>
        OBVIOUS
      <3>3. g[1] = <<x>>
        <4>1. g[1] = Append(w[1 - 1], tags[1]) /\ 1 - 1 = 0
          BY <2>1
        <4>2. QED
          BY <2>1, <2>2, <3>1, <4>1, Zenon
      <3>4. g[2] = <<x, y>>
        <4>1. g[2] = Append(w[2 - 1], tags[2]) /\ 2 - 1 = 1
          BY <2>1
        <4>2. QED
          BY <2>1, <2>2, <3>1, <4>1, Zenon
      <3>5. g = [i \in 0..2 |-> g[i]] /\ w = [i \in 0..2 |-> w[i]]
        BY <3>1 DEF w
      <3> HIDE DEF g
      <3>6. \A i \in 0..2 : g[i] = w[i]
        <4>1. \A i \in 0..2 : i = 0 \/ i = 1 \/ i = 2
          OBVIOUS
        <4>2. QED
          BY <3>1, <3>2, <3>3, <3>4, <4>1, Zenon
      <3>7. g = w
        BY <3>5, <3>6
      <3>8. QED
        BY <2>1, <3>7, Zenon DEF IsKept, g
    <2>4. IsKept(tags, contexts, f)
      BY <2>3, Zenon
    <2> HIDE DEF f, w
    <2>5. f = [i \in 0..2 |-> IF i = 0 THEN <<>> ELSE IF kept(i) THEN Append(f[i - 1], tags[i]) ELSE f[i - 1]]
      BY <2>1, <2>4, Zenon DEF IsKept
    <2> HIDE DEF kept
    <2>6. f[0] = <<>>
      BY <2>5
    <2>7. f[1] = <<x>>
      <3>1. f[1] = Append(f[1 - 1], tags[1])
        BY <2>1, <2>5
      <3>2. 1 - 1 = 0
        OBVIOUS
      <3>3. QED
        BY <2>1, <2>2, <2>6, <3>1, <3>2, Zenon
    <2>8. f[2] = <<x, y>>
      <3>1. f[2] = Append(f[2 - 1], tags[2])
        BY <2>1, <2>5
      <3>2. 2 - 1 = 1
        OBVIOUS
      <3>3. QED
        BY <2>1, <2>2, <2>7, <3>1, <3>2, Zenon
    <2>9. QED
      BY <1>0, <2>1, <2>8, Zenon DEF f, tags
  <1>3. QED
    BY <1>1, <1>2, Zenon

\* A primitive is a value of one element.
LEMMA OneElement ==
    ASSUME NEW element \in Octets, Primitive(element)
    PROVE  Elements(element, <<element>>, 1)
  <1>1. ElementAt(element, Tags(element, 1)[1], element) /\ Len(Tags(element, 1)) = 1
    BY PrimitiveElement, Zenon
  <1>2. \A i \in 1..1 : i = 1 /\ <<element>>[1] = element
    OBVIOUS
  <1>3. \A i \in 1..1 : ElementAt(element, Tags(element, 1)[i], <<element>>[i])
    BY <1>1, <1>2, Zenon
  <1>4. QED
    BY <1>1, <1>3, Zenon DEF Elements

\* An ENUMERATED: one tag, with the number in it.
EnumeratedTag(n) == ApplicationTag(9, unsigned_octets(n))
\* An ENUMERATED is one tag, with the number in it.
LEMMA EnumeratedTags ==
    ASSUME NEW n \in Nat
    PROVE  /\ application_enumerated(n) \in Octets /\ Tags(application_enumerated(n), 1) = <<EnumeratedTag(n)>>
           /\ Whole(application_enumerated(n), 1)
  <1> DEFINE body == unsigned_octets(n)
             data == application_enumerated(n)
  <1>1. body \in Octets /\ Len(body) \in 1..4
    BY UnsignedOctets
  <1>2. data = Application(9, Len(body)) \o body
    BY Zenon DEF application_enumerated
  <1> HIDE DEF body, data
  <1>3. 9 \in Nat /\ 9 <= 14 /\ 9 # 1 /\ Len(body) \in 0..4
    BY <1>1
  <1>4. data \in Octets /\ Tags(data, 1) = <<ApplicationTag(9, body)>> /\ Primitive(data)
    BY <1>1, <1>2, <1>3, ShortApplicationTag, Zenon
  <1>5. Whole(data, 1)
    BY <1>4, OneElement, ElementsWhole, Zenon
  <1>6. QED
    BY <1>4, <1>5, Zenon DEF data, body, EnumeratedTag

\* Two sequences of one put together.
LEMMA Pair ==
    ASSUME NEW x, NEW y
    PROVE  <<x>> \o <<y>> = <<x, y>>
  <1> DEFINE S == {x, y}
             l == <<x>> \o <<y>>
             r == <<x, y>>
  <1>1. l \in Seq(S) /\ Len(l) = 2
    OBVIOUS
  <1>2. l[1] = x
    OBVIOUS
  <1>3. l[2] = y
    OBVIOUS
  <1>4. r \in Seq(S) /\ Len(r) = 2 /\ r[1] = x /\ r[2] = y
    OBVIOUS
  <1> HIDE DEF l, r, S
  <1>5. l = r
    BY <1>1, <1>2, <1>3, <1>4, SeqEqual
  <1>6. QED
    BY <1>5 DEF l, r

\* The values of two ENUMERATED in a row.
LEMMA TwoEnumerated ==
    ASSUME NEW m \in Nat, NEW n \in Nat
    PROVE  LET octets == application_enumerated(m) \o application_enumerated(n)
           IN  \E x, y : /\ application_values(octets) = <<x, y>>
                         /\ x.body = unsigned_octets(m) /\ y.body = unsigned_octets(n)
  <1> DEFINE a == application_enumerated(m)
             b == application_enumerated(n)
             s == EnumeratedTag(m)
             t == EnumeratedTag(n)
             x == Moved(s, 0)
             y == Moved(t, Len(a))
  <1>1. /\ a \in Octets /\ b \in Octets /\ Whole(a, 1) /\ Whole(b, 1)
        /\ Tags(a, 1) = <<s>> /\ Tags(b, 1) = <<t>>
    BY EnumeratedTags, Zenon
  <1>2. /\ x.kind = "value" /\ x.context = FALSE /\ x.body = unsigned_octets(m)
        /\ y.kind = "value" /\ y.context = FALSE /\ y.body = unsigned_octets(n)
    BY DEF Moved, EnumeratedTag, ApplicationTag
  <1> HIDE DEF a, b, s, t
  <1>3. Tags(a \o b, 1) = MovedTags(<<s>>, 0) \o MovedTags(<<t>>, Len(a))
    BY <1>1, TagsJoined, Zenon
  <1>4. MovedTags(<<s>>, 0) = <<x>> /\ MovedTags(<<t>>, Len(a)) = <<y>>
    <2>1. \A u, at : MovedTags(<<u>>, at) = <<Moved(u, at)>>
      BY DEF MovedTags
    <2>2. QED
      BY <2>1, Zenon
  <1> HIDE DEF x, y
  <1>5. <<x>> \o <<y>> = <<x, y>>
    BY Pair
  <1>6. Tags(a \o b, 1) = <<x, y>>
    BY <1>3, <1>4, <1>5, Zenon
  <1>7. ValuesAmong(<<x, y>>, {FALSE}) = <<x, y>>
    <2>1. x.context \in {FALSE} /\ y.context \in {FALSE}
      BY <1>2, Zenon
    <2>2. QED
      BY <1>2, <2>1, TwoValues, Zenon
  <1>8. application_values(a \o b) = <<x, y>>
    BY <1>6, <1>7, Zenon DEF application_values
  <1>9. QED
    BY <1>2, <1>8, Zenon DEF a, b

\* An Error: the client has its class and its code.
LEMMA ErrorSays ==
    ASSUME NEW id \in Octet, NEW class \in Nat, NEW code \in Nat, Fits(class, 4), Fits(code, 4),
           NEW g, g.network_message = None,
           g.payload = error_pdu(id, SERVICE_READ_PROPERTY, class, code)
    PROVE  ClientReads(g) = Says(id, None, Some(<<class, code>>), None) /\ g.payload \in Octets
  <1> DEFINE head == <<16 * PDU_ERROR, id, SERVICE_READ_PROPERTY>>
             a == application_enumerated(class)
             b == application_enumerated(code)
             rest == a \o b
             apdu == head \o rest
  <1>1. head \in Octets /\ Len(head) = 3 /\ head[1] = 80 /\ head[2] = id
    <2>1. 16 * PDU_ERROR \in Octet /\ SERVICE_READ_PROPERTY \in Octet
      BY OctetIs DEF PDU_ERROR, SERVICE_READ_PROPERTY
    <2>2. head \in Octets
      BY <2>1, HeaderOctets
    <2>3. QED
      BY <2>2 DEF PDU_ERROR
  <1>2. a \in Octets /\ b \in Octets
    BY EnumeratedTags, Zenon
  <1>3. g.payload = (head \o a) \o b
    BY Zenon DEF error_pdu
  <1> HIDE DEF head, a, b
  <1>4. g.payload = apdu
    <2>1. (head \o a) \o b = head \o (a \o b)
      <3>1. head \in Seq(Octet) /\ a \in Seq(Octet) /\ b \in Seq(Octet)
        BY <1>1, <1>2, Zenon DEF Octets
      <3>2. QED
        BY <3>1, ConcatAssociative
    <2>2. QED
      BY <1>3, <2>1, Zenon
  <1>5. rest \in Octets
    BY <1>2, HoldsAfter, Zenon
  <1> HIDE DEF rest
  <1>6. /\ apdu \in Octets /\ Len(apdu) = Len(head) + Len(rest) /\ Holds(apdu, Len(head), rest)
        /\ (\A i \in 1..Len(head) : apdu[i] = head[i]) /\ Len(rest) \in Nat
    BY <1>1, <1>5, HoldsAfter, ZenonT(60)
  <1> HIDE DEF apdu
  <1>7. Len(apdu) = 3 + Len(rest) /\ apdu[1] = 80 /\ apdu[2] = id /\ apdu[1] \div 16 = 5 /\ Len(apdu) >= 1
    BY <1>1, <1>6
  <1>8. From(apdu, 4) = rest
    <2>1. 3 + 1 = 4 /\ 3 \in Nat
      OBVIOUS
    <2>2. SubSeq(apdu, 3 + 1, 3 + Len(rest)) = rest
      BY <1>1, <1>5, <1>6, <2>1, PartHeld, ZenonT(60)
    <2>3. QED
      BY <1>7, <2>1, <2>2, Zenon DEF From
  <1>9. error_class_and_code(apdu) = Some(<<class, code>>)
    <2>1. PICK x, y : /\ application_values(rest) = <<x, y>>
                      /\ x.body = unsigned_octets(class) /\ y.body = unsigned_octets(code)
      BY TwoEnumerated, Zenon DEF rest, a, b
    <2>2. FromBytes(x.body) = class /\ FromBytes(y.body) = code
      BY <2>1, UnsignedReadBack, Zenon
    <2>3. Len(<<x, y>>) = 2 /\ <<x, y>>[1] = x /\ <<x, y>>[2] = y /\ ~(2 < 2)
      OBVIOUS
    <2>4. QED
      BY <1>8, <2>1, <2>2, <2>3, Zenon DEF error_class_and_code
  <1>10. \A types : IsPdu(g, types) <=> 5 \in types
    <2>1. g.payload \in Octets /\ Len(g.payload) >= 1 /\ g.payload[1] \div 16 = 5
      BY <1>4, <1>6, <1>7, Zenon
    <2>2. QED
      BY <2>1, PduIs, Zenon
  <1>11. /\ ~IsPdu(g, {PDU_COMPLEX_ACK}) /\ IsPdu(g, {PDU_ERROR}) /\ ~IsPdu(g, {PDU_ABORT})
         /\ IsPdu(g, Answers)
    <2>1. 5 \notin {PDU_COMPLEX_ACK} /\ 5 \in {PDU_ERROR} /\ 5 \notin {PDU_ABORT} /\ 5 \in Answers
      BY DEF PDU_COMPLEX_ACK, PDU_ERROR, PDU_ABORT, Answers
    <2>2. QED
      BY <1>10, <2>1, Zenon
  <1>12. error(g) = Some(<<class, code>>)
    BY <1>4, <1>9, <1>11, Zenon DEF error
  <1>13. value_octets(g) = None /\ abort_reason(g) = None /\ invoke_id(g) = Some(id)
    <2>1. g.payload[2] = id
      BY <1>4, <1>7, Zenon
    <2>2. QED
      BY <1>11, <2>1, Zenon DEF value_octets, abort_reason, Reason, invoke_id
  <1>14. QED
    BY <1>4, <1>6, <1>12, <1>13, Zenon DEF ClientReads, Says

-----------------------------------------------------------------------------
(* What a read of the simulated server tells the client                     *)

\* An answer, sent as the payload of any frame, tells the client this much.
Tells(answer, id, value, error_, abort) ==
    /\ Given(answer)
    /\ \A g : g.network_message = None /\ g.payload = answer[1]
              => ClientReads(g) = Says(id, value, error_, abort)

\* application_elements takes a value apart into the elements it was served as, whatever
\* their number, their types and their lengths.
THEOREM ElementsRoundTrip ==
    ASSUME NEW seqs \in Seq(Octets), \A i \in 1..Len(seqs) : Primitive(seqs[i])
    PROVE  application_elements(FlattenSeq(seqs)) = seqs
  <1> DEFINE v == FlattenSeq(seqs)
             n == Len(seqs)
             Part(i) == Slice(v, Tags(v, 1)[i].start, Tags(v, 1)[i].next - 1)
  <1>1. Elements(v, seqs, n)
    BY ElementsRead, Zenon
  <1> HIDE DEF v
  <1>2. Len(Tags(v, 1)) = n /\ \A i \in 1..n : Part(i) = seqs[i]
    BY <1>1, Zenon DEF Elements, ElementAt
  <1>3. application_elements(v) = [i \in 1..n |-> Part(i)]
    BY <1>2, Zenon DEF application_elements
  <1> HIDE DEF Part
  <1>4. [i \in 1..n |-> Part(i)] = [i \in 1..n |-> seqs[i]]
    BY <1>2
  <1>5. [i \in 1..n |-> seqs[i]] = seqs
    OBVIOUS
  <1>6. QED
    BY <1>3, <1>4, <1>5, Zenon DEF v

\* The answers the server makes, each by itself: a ReadProperty-ACK of one element or of
\* any number of them,
LEMMA AckTells ==
    ASSUME NEW id \in Octet, NEW p, Readable(p), NEW value, NEW seqs, NEW k \in Nat, Elements(value, seqs, k)
    PROVE  Tells(Some(read_property_ack(id, p.object, p.property, p.array_index, value)),
                 id, Some(value), None, None)
  <1> DEFINE apdu == read_property_ack(id, p.object, p.property, p.array_index, value)
  <1>1. \A g : g.network_message = None /\ g.payload = apdu
               => ClientReads(g) = Says(id, Some(value), None, None)
    BY AckSays, Zenon
  <1> HIDE DEF apdu
  <1>2. Some(apdu)[1] = apdu /\ Given(Some(apdu))
    BY DEF Some, Given, None
  <1>3. Tells(Some(apdu), id, Some(value), None, None)
    BY <1>1, <1>2, Zenon DEF Tells
  <1>4. QED
    BY <1>3, Zenon DEF apdu

\* a primitive of its own,
LEMMA PrimitiveTells ==
    ASSUME NEW id \in Octet, NEW p, Readable(p), NEW value \in Octets, Primitive(value)
    PROVE  Tells(Some(read_property_ack(id, p.object, p.property, p.array_index, value)),
                 id, Some(value), None, None)
  <1>1. Elements(value, <<value>>, 1) /\ 1 \in Nat
    BY OneElement
  <1>2. QED
    BY <1>1, AckTells, Zenon

\* an Error,
LEMMA ErrorTells ==
    ASSUME NEW id \in Octet, NEW class \in Nat, NEW code \in Nat, class < 256, code < 256
    PROVE  Tells(Some(error_pdu(id, SERVICE_READ_PROPERTY, class, code)), id, None, Some(<<class, code>>), None)
  <1> DEFINE apdu == error_pdu(id, SERVICE_READ_PROPERTY, class, code)
  <1>1. Fits(class, 4) /\ Fits(code, 4)
    BY DEF Fits
  <1>2. \A g : g.network_message = None /\ g.payload = apdu
               => ClientReads(g) = Says(id, None, Some(<<class, code>>), None)
    BY <1>1, ErrorSays, Zenon
  <1> HIDE DEF apdu
  <1>3. Some(apdu)[1] = apdu /\ Given(Some(apdu))
    BY DEF Some, Given, None
  <1>4. Tells(Some(apdu), id, None, Some(<<class, code>>), None)
    BY <1>2, <1>3, Zenon DEF Tells
  <1>5. QED
    BY <1>4, Zenon DEF apdu

\* and an Abort.
LEMMA AbortTells ==
    ASSUME NEW id \in Octet, NEW reason \in Octet
    PROVE  Tells(Some(abort_pdu(id, reason)), id, None, None, Some(reason))
  <1> DEFINE apdu == abort_pdu(id, reason)
  <1>1. \A g : g.network_message = None /\ g.payload = apdu
               => ClientReads(g) = Says(id, None, None, Some(reason))
    BY AbortSays, Zenon
  <1> HIDE DEF apdu
  <1>2. Some(apdu)[1] = apdu /\ Given(Some(apdu))
    BY DEF Some, Given, None
  <1>3. Tells(Some(apdu), id, None, None, Some(reason))
    BY <1>1, <1>2, Zenon DEF Tells
  <1>4. QED
    BY <1>3, Zenon DEF apdu

DeviceObjects == {<<8, Peer.instance>>, <<8, MAX_INSTANCE>>}
\* What a read should give, in the words of an answer.
LEMMA ServedSays ==
    ASSUME NEW m, NEW p, p = m.p, NEW key, key = <<p.object, p.property>>, NEW n, n = p.array_index[1]
    PROVE  /\ Listed(p.object) /\ ~Given(p.array_index) /\ key \in Peer.refused
                => Served(m) = Says(m.id, None, None, Some(4))
           /\ key \in DOMAIN Peer.served /\ ~Given(p.array_index) /\ key \notin Peer.refused
                => Served(m) = Says(m.id, Some(FlattenSeq(Peer.served[key])), None, None)
           /\ key \in DOMAIN Peer.served /\ Given(p.array_index) /\ n = 0 /\ n \notin 1..Len(Peer.served[key])
              /\ ~(n > Len(Peer.served[key]))
                => Served(m) = Says(m.id, Some(application_unsigned(Len(Peer.served[key]))), None, None)
           /\ key \in DOMAIN Peer.served /\ Given(p.array_index) /\ n # 0 /\ n \in 1..Len(Peer.served[key])
              /\ ~(n > Len(Peer.served[key]))
                => Served(m) = Says(m.id, Some(Peer.served[key][n]), None, None)
           /\ key \in DOMAIN Peer.served /\ Given(p.array_index) /\ n # 0 /\ n \notin 1..Len(Peer.served[key])
              /\ n > Len(Peer.served[key])
                => Served(m) = Says(m.id, None, Some(<<2, 42>>), None)
           /\ Listed(p.object) /\ key \notin DOMAIN Peer.served /\ (Given(p.array_index) \/ key \notin Peer.refused)
                => Served(m) = Says(m.id, None, Some(<<2, 32>>), None)
           /\ ~Listed(p.object) /\ key \notin DOMAIN Peer.served /\ p.object \in DeviceObjects /\ p.property = 75
              /\ p.property # 77
                => Served(m) = Says(m.id, Some(application_object_id(<<8, Peer.instance>>)), None, None)
           /\ ~Listed(p.object) /\ key \notin DOMAIN Peer.served /\ p.object \in DeviceObjects /\ p.property = 77
              /\ p.property # 75
                => Served(m) = Says(m.id, Some(application_character_string(Peer.name)), None, None)
           /\ ~Listed(p.object) /\ key \notin DOMAIN Peer.served /\ p.object \in DeviceObjects
              /\ p.property # 75 /\ p.property # 77
                => Served(m) = Says(m.id, None, Some(<<2, 32>>), None)
           /\ ~Listed(p.object) /\ key \notin DOMAIN Peer.served /\ p.object \notin DeviceObjects
                => Served(m) = Says(m.id, None, Some(<<1, 31>>), None)
  <1> DEFINE none == Says(m.id, None, None, None)
             C1 == Listed(p.object) /\ ~Given(p.array_index) /\ key \in Peer.refused
             In == key \in DOMAIN Peer.served
             Past == n > Len(Peer.served[key])
             At == n \in 1..Len(Peer.served[key])
             OfDevice == p.object \in DeviceObjects
  <1>0. Served(m) =
          CASE C1 -> [none EXCEPT !.abort = Some(4)]
            [] In /\ ~Given(p.array_index) /\ key \notin Peer.refused ->
                 [none EXCEPT !.value = Some(FlattenSeq(Peer.served[key]))]
            [] In /\ ~~Given(p.array_index) /\ n = 0 ->
                 [none EXCEPT !.value = Some(application_unsigned(Len(Peer.served[key])))]
            [] In /\ ~~Given(p.array_index) /\ At -> [none EXCEPT !.value = Some(Peer.served[key][n])]
            [] In /\ ~~Given(p.array_index) /\ Past -> [none EXCEPT !.error = Some(<<2, 42>>)]
            [] ~Listed(p.object) /\ OfDevice /\ p.property = 75 ->
                 [none EXCEPT !.value = Some(application_object_id(<<8, Peer.instance>>))]
            [] ~Listed(p.object) /\ OfDevice /\ p.property = 77 ->
                 [none EXCEPT !.value = Some(application_character_string(Peer.name))]
            [] OTHER -> [none EXCEPT !.error = Some(IF Listed(p.object) \/ OfDevice THEN <<2, 32>> ELSE <<1, 31>>)]
    BY Zenon DEF Served, Says, Listed, DeviceObjects
  <1>1. \A x : /\ [none EXCEPT !.value = x] = Says(m.id, x, None, None)
               /\ [none EXCEPT !.error = x] = Says(m.id, None, x, None)
               /\ [none EXCEPT !.abort = x] = Says(m.id, None, None, x)
    BY DEF Says
  <1>2. In => Listed(p.object)
    <2>1. <<p.object, p.property>>[1] = p.object
      OBVIOUS
    <2>2. QED
      BY <2>1, Zenon DEF Listed
  <1> HIDE DEF none, In, Past, At, OfDevice, C1
  <1>3. C1 => Served(m) = Says(m.id, None, None, Some(4))
    BY <1>0, <1>1, Zenon DEF C1
  <1>4. In /\ ~Given(p.array_index) /\ key \notin Peer.refused
          => Served(m) = Says(m.id, Some(FlattenSeq(Peer.served[key])), None, None)
    BY <1>0, <1>1, <1>2, Zenon DEF C1
  <1>5. In /\ Given(p.array_index) /\ n = 0 /\ ~At /\ ~Past
          => Served(m) = Says(m.id, Some(application_unsigned(Len(Peer.served[key]))), None, None)
    BY <1>0, <1>1, <1>2, Zenon DEF C1
  <1>6. In /\ Given(p.array_index) /\ n # 0 /\ At /\ ~Past
          => Served(m) = Says(m.id, Some(Peer.served[key][n]), None, None)
    BY <1>0, <1>1, <1>2, Zenon DEF C1
  <1>7. In /\ Given(p.array_index) /\ n # 0 /\ ~At /\ Past
          => Served(m) = Says(m.id, None, Some(<<2, 42>>), None)
    BY <1>0, <1>1, <1>2, Zenon DEF C1
  <1>8. Listed(p.object) /\ ~In /\ (Given(p.array_index) \/ key \notin Peer.refused)
          => Served(m) = Says(m.id, None, Some(<<2, 32>>), None)
    BY <1>0, <1>1, <1>2, Zenon DEF C1
  <1>9. ~Listed(p.object) /\ ~In /\ OfDevice /\ p.property = 75 /\ p.property # 77
          => Served(m) = Says(m.id, Some(application_object_id(<<8, Peer.instance>>)), None, None)
    BY <1>0, <1>1, <1>2, Zenon DEF C1
  <1>10. ~Listed(p.object) /\ ~In /\ OfDevice /\ p.property = 77 /\ p.property # 75
          => Served(m) = Says(m.id, Some(application_character_string(Peer.name)), None, None)
    BY <1>0, <1>1, <1>2, Zenon DEF C1
  <1>11. ~Listed(p.object) /\ ~In /\ OfDevice /\ p.property # 75 /\ p.property # 77
          => Served(m) = Says(m.id, None, Some(<<2, 32>>), None)
    BY <1>0, <1>1, <1>2, Zenon DEF C1
  <1>12. ~Listed(p.object) /\ ~In /\ ~OfDevice => Served(m) = Says(m.id, None, Some(<<1, 31>>), None)
    BY <1>0, <1>1, <1>2, Zenon DEF C1
  <1>13. QED
    BY <1>3, <1>4, <1>5, <1>6, <1>7, <1>8, <1>9, <1>10, <1>11, <1>12, Zenon DEF C1, In, At, Past, OfDevice

\* An answer from which the client has what was served.
TellsServed(answer, m) ==
    /\ Given(answer)
    /\ \A g : g.network_message = None /\ g.payload = answer[1] => ClientReads(g) = Served(m)

\* An answer that says what was served.
LEMMA SaysServed ==
    ASSUME NEW m, NEW answer, NEW value, NEW error_, NEW abort,
           Tells(answer, m.id, value, error_, abort), Served(m) = Says(m.id, value, error_, abort)
    PROVE  TellsServed(answer, m)
  BY Zenon DEF Tells, TellsServed

\* An object that has properties served is listed.
LEMMA ServedListed ==
    ASSUME NEW object, NEW property, <<object, property>> \in DOMAIN Peer.served
    PROVE  Listed(object)
  <1>1. <<object, property>>[1] = object
    OBVIOUS
  <1>2. QED
    BY <1>1, Zenon DEF Listed

\* The answers of the device object, and to an object that nobody serves.
LEMMA DeviceTells ==
    ASSUME NEW m \in Messages, m.kind = "read", NEW f, invoke_id(f) = Some(m.id), ~Listed(m.p.object)
    PROVE  TellsServed(DeviceReadProperty(f, Some(m.p)), m)
  <1> DEFINE p == m.p
             id == m.id
             key == <<p.object, p.property>>
             device == <<OBJECT_TYPE_DEVICE, Peer.instance>>
             q == [object |-> device, property |-> p.property, array_index |-> None]
             answer == DeviceReadProperty(f, Some(p))
  <1>1. id \in Octet /\ Readable(p)
    BY ReadsReadable, Zenon
  <1>2. key \notin DOMAIN Peer.served
    BY ServedListed, Zenon
  <1>3. /\ invoke_id(f)[1] = id /\ Given(Some(p)) /\ Some(p)[1] = p
        /\ device = <<8, Peer.instance>> /\ <<OBJECT_TYPE_DEVICE, MAX_INSTANCE>> = <<8, MAX_INSTANCE>>
    BY DEF Some, Given, None, OBJECT_TYPE_DEVICE
  <1>4. q.object = device /\ q.property = p.property /\ q.array_index = None
    OBVIOUS
  <1>5. Readable(q)
    <2>1. Peer.instance \in Nat /\ Peer.instance <= MAX_INSTANCE
      <3>1. Peer.instance \in 0..MAX_INSTANCE-1
        BY PeerAssumption, Zenon
      <3>2. MAX_INSTANCE \in Int
        BY SMT DEF MAX_INSTANCE
      <3>3. QED
        BY <3>1, <3>2, SMT
    <2>2. device \in Nat \X Nat /\ device[1] < 1024 /\ device[2] <= MAX_INSTANCE
      BY <2>1, SMT DEF OBJECT_TYPE_DEVICE
    <2>3. p.property \in Nat /\ Fits(p.property, 4)
      BY <1>1, Zenon DEF Readable
    <2> HIDE DEF q, device
    <2>4. QED
      BY <1>4, <2>2, <2>3, SMT DEF Readable
  <1>6. device \in Int \X Int
    BY <1>5, <1>4 DEF Readable
  <1> DEFINE name == application_character_string(Peer.name)
             number == application_object_id(device)
  <1>7. name \in Octets /\ Primitive(name) /\ number \in Octets /\ Primitive(number)
    BY <1>6, OwnPrimitives, Zenon
  <1> HIDE DEF p, id, q, name, number, device
  <1>8. CASE p.object \notin DeviceObjects
    <2>1. answer = Some(error_pdu(id, SERVICE_READ_PROPERTY, ERROR_CLASS_OBJECT, ERROR_CODE_UNKNOWN_OBJECT))
      BY <1>3, <1>8, Zenon DEF DeviceReadProperty, DeviceObjects, device
    <2>2. Tells(Some(error_pdu(id, SERVICE_READ_PROPERTY, 1, 31)), id, None, Some(<<1, 31>>), None)
      <3>1. 1 \in Nat /\ 31 \in Nat /\ 1 < 256 /\ 31 < 256
        OBVIOUS
      <3>2. QED
        BY <1>1, <3>1, ErrorTells, Zenon
    <2>3. answer = Some(error_pdu(id, SERVICE_READ_PROPERTY, 1, 31))
      BY <2>1, Zenon DEF ERROR_CLASS_OBJECT, ERROR_CODE_UNKNOWN_OBJECT
    <2>4. Served(m) = Says(m.id, None, Some(<<1, 31>>), None)
      BY <1>2, <1>8, ServedSays, Zenon DEF p
    <2>5. QED
      BY <2>2, <2>3, <2>4, SaysServed, Zenon DEF id, p
  <1>9. CASE p.object \in DeviceObjects /\ p.property = 75
    <2>0. p.property # 77
      BY <1>9
    <2>1. answer = Some(read_property_ack(id, device, p.property, None, number))
      BY <1>3, <1>9, <2>0, ZenonT(60) DEF DeviceReadProperty, DeviceObjects, device, number
    <2>2. Tells(answer, id, Some(number), None, None)
      BY <1>1, <1>4, <1>5, <1>7, <2>1, PrimitiveTells, Zenon
    <2>3. Served(m) = Says(m.id, Some(application_object_id(<<8, Peer.instance>>)), None, None)
      BY <1>2, <1>9, <2>0, ServedSays, Zenon DEF p
    <2>4. QED
      BY <1>3, <2>2, <2>3, SaysServed, Zenon DEF id, p, number
  <1>10. CASE p.object \in DeviceObjects /\ p.property = 77
    <2>0. p.property # 75
      BY <1>10
    <2>1. answer = Some(read_property_ack(id, device, p.property, None, name))
      BY <1>3, <1>10, <2>0, ZenonT(60) DEF DeviceReadProperty, DeviceObjects, device, name
    <2>2. Tells(answer, id, Some(name), None, None)
      BY <1>1, <1>4, <1>5, <1>7, <2>1, PrimitiveTells, Zenon
    <2>3. Served(m) = Says(m.id, Some(name), None, None)
      BY <1>2, <1>10, <2>0, ServedSays, Zenon DEF p, name
    <2>4. QED
      BY <2>2, <2>3, SaysServed, Zenon DEF id, p
  <1>11. CASE p.object \in DeviceObjects /\ p.property # 75 /\ p.property # 77
    <2>1. answer = Some(error_pdu(id, SERVICE_READ_PROPERTY, ERROR_CLASS_PROPERTY, ERROR_CODE_UNKNOWN_PROPERTY))
      BY <1>3, <1>11, Zenon DEF DeviceReadProperty, DeviceObjects, device, PropertyError
    <2>2. Tells(Some(error_pdu(id, SERVICE_READ_PROPERTY, 2, 32)), id, None, Some(<<2, 32>>), None)
      <3>1. 2 \in Nat /\ 32 \in Nat /\ 2 < 256 /\ 32 < 256
        OBVIOUS
      <3>2. QED
        BY <1>1, <3>1, ErrorTells, Zenon
    <2>3. answer = Some(error_pdu(id, SERVICE_READ_PROPERTY, 2, 32))
      BY <2>1, Zenon DEF ERROR_CLASS_PROPERTY, ERROR_CODE_UNKNOWN_PROPERTY
    <2>4. Served(m) = Says(m.id, None, Some(<<2, 32>>), None)
      BY <1>2, <1>11, ServedSays, Zenon DEF p
    <2>5. QED
      BY <2>2, <2>3, <2>4, SaysServed, Zenon DEF id, p
  <1>12. QED
    BY <1>8, <1>9, <1>10, <1>11, Zenon

\* The answers to a read with an array index.
LEMMA ElementTells ==
    ASSUME NEW m \in Messages, m.kind = "read", NEW f, invoke_id(f) = Some(m.id),
           <<m.p.object, m.p.property>> \in DOMAIN Peer.served, Given(m.p.array_index)
    PROVE  TellsServed(ArrayElement(f, m.p, FlattenSeq(Peer.served[<<m.p.object, m.p.property>>])), m)
  <1> DEFINE p == m.p
             id == m.id
             key == <<p.object, p.property>>
             seqs == Peer.served[key]
             n == p.array_index[1]
             k == Len(seqs)
             answer == ArrayElement(f, p, FlattenSeq(seqs))
             length == application_unsigned(k)
  <1>1. id \in Octet /\ Readable(p)
    BY ReadsReadable, Zenon
  <1>2. n \in Nat /\ Some(n) = p.array_index
    BY <1>1, ZenonT(60) DEF Readable, Some, Given
  <1>3. seqs \in Seq(Octets) /\ \A i \in 1..k : Primitive(seqs[i])
    BY ServedElements, Zenon
  <1>4. invoke_id(f)[1] = id
    BY DEF Some
  <1> HIDE DEF p, id, seqs, n
  <1>5. k \in Nat /\ \A i \in 1..k : seqs[i] \in Octets
    BY <1>3
  <1>6. application_elements(FlattenSeq(seqs)) = seqs
    BY <1>3, ElementsRoundTrip, Zenon
  <1> HIDE DEF k
  <1>7. answer =
          CASE n = 0 -> Some(read_property_ack(id, p.object, p.property, Some(n), length))
            [] n > 0 /\ n <= k -> Some(read_property_ack(id, p.object, p.property, Some(n), seqs[n]))
            [] OTHER -> PropertyError(f, ERROR_CODE_INVALID_ARRAY_INDEX)
    BY <1>4, <1>6, Zenon DEF ArrayElement, n, k
  <1>8. CASE n = 0
    <2>1. n \notin 1..k /\ ~(n > k) /\ ~(n > 0 /\ n <= k)
      BY <1>5, <1>8
    <2>2. answer = Some(read_property_ack(id, p.object, p.property, p.array_index, length))
      BY <1>2, <1>7, <1>8, <2>1, Zenon
    <2>3. length \in Octets /\ Primitive(length)
      BY <1>5, OwnPrimitives, Zenon
    <2> HIDE DEF length
    <2>4. Tells(answer, id, Some(length), None, None)
      BY <1>1, <2>2, <2>3, PrimitiveTells, Zenon
    <2>5. Served(m) = Says(m.id, Some(length), None, None)
      BY <1>8, <2>1, ServedSays, Zenon DEF p, n, k, seqs, length
    <2>6. QED
      BY <2>4, <2>5, SaysServed, Zenon DEF p, id, seqs
  <1>9. CASE n > 0 /\ n <= k
    <2>1. n # 0 /\ n \in 1..k /\ ~(n > k)
      BY <1>2, <1>5, <1>9
    <2>2. answer = Some(read_property_ack(id, p.object, p.property, p.array_index, seqs[n]))
      BY <1>2, <1>7, <1>9, <2>1, Zenon
    <2>3. seqs[n] \in Octets /\ Primitive(seqs[n])
      BY <1>3, <1>5, <2>1, Zenon DEF k
    <2>4. Tells(answer, id, Some(seqs[n]), None, None)
      BY <1>1, <2>2, <2>3, PrimitiveTells, Zenon
    <2>5. Served(m) = Says(m.id, Some(seqs[n]), None, None)
      BY <2>1, ServedSays, Zenon DEF p, n, k, seqs
    <2>6. QED
      BY <2>4, <2>5, SaysServed, Zenon DEF p, id, seqs
  <1>10. CASE n > k
    <2>1. n # 0 /\ n \notin 1..k /\ ~(n > 0 /\ n <= k)
      BY <1>2, <1>5, <1>10
    <2>2. answer = PropertyError(f, ERROR_CODE_INVALID_ARRAY_INDEX)
      BY <1>7, <2>1, Zenon
    <2>3. answer = Some(error_pdu(id, SERVICE_READ_PROPERTY, 2, 42))
      BY <1>4, <2>2, Zenon DEF PropertyError, ERROR_CLASS_PROPERTY, ERROR_CODE_INVALID_ARRAY_INDEX
    <2>4. Tells(answer, id, None, Some(<<2, 42>>), None)
      <3>1. 2 \in Nat /\ 42 \in Nat /\ 2 < 256 /\ 42 < 256
        OBVIOUS
      <3>2. Tells(Some(error_pdu(id, SERVICE_READ_PROPERTY, 2, 42)), id, None, Some(<<2, 42>>), None)
        BY <1>1, <3>1, ErrorTells, Zenon
      <3>3. QED
        BY <2>3, <3>2, Zenon
    <2>5. Served(m) = Says(m.id, None, Some(<<2, 42>>), None)
      BY <1>10, <2>1, ServedSays, Zenon DEF p, n, k, seqs
    <2>6. QED
      BY <2>4, <2>5, SaysServed, Zenon DEF p, id, seqs
  <1>11. n = 0 \/ (n > 0 /\ n <= k) \/ n > k
    BY <1>2, <1>5
  <1>12. QED
    BY <1>8, <1>9, <1>10, <1>11, Zenon

\* The answers to a read of an object the server lists.
LEMMA ServerTells ==
    ASSUME NEW m \in Messages, m.kind = "read", NEW f, invoke_id(f) = Some(m.id)
    PROVE  TellsServed(ServerReadProperty(f, Some(m.p)), m)
  <1> DEFINE p == m.p
             id == m.id
             key == <<p.object, p.property>>
             seqs == Peer.served[key]
             answer == ServerReadProperty(f, Some(p))
  <1>1. id \in Octet /\ Readable(p)
    BY ReadsReadable, Zenon
  <1>2. invoke_id(f)[1] = id /\ Given(Some(p)) /\ Some(p)[1] = p
    BY DEF Some, Given, None
  <1>3. CASE ~Listed(p.object)
    <2>1. answer = DeviceReadProperty(f, Some(p))
      BY <1>2, <1>3, Zenon DEF ServerReadProperty
    <2>2. QED
      BY <1>3, <2>1, DeviceTells, Zenon
  <1>4. CASE Listed(p.object) /\ ~Given(p.array_index) /\ key \in Peer.refused
    <2>1. answer = Some(abort_pdu(id, 4))
      BY <1>2, <1>4, Zenon DEF ServerReadProperty
    <2>2. 4 \in Octet
      BY OctetIs
    <2>3. Tells(answer, id, None, None, Some(4))
      BY <1>1, <2>1, <2>2, AbortTells, Zenon
    <2>4. Served(m) = Says(m.id, None, None, Some(4))
      BY <1>4, ServedSays, Zenon
    <2>5. QED
      BY <2>3, <2>4, SaysServed, Zenon
  <1>5. CASE Listed(p.object) /\ key \notin DOMAIN Peer.served /\ (Given(p.array_index) \/ key \notin Peer.refused)
    <2>1. Value(p.object, p.property) = None /\ ~Given(None)
      BY <1>5, Zenon DEF Value, Given
    <2>2. answer = PropertyError(f, ERROR_CODE_UNKNOWN_PROPERTY)
      BY <1>2, <1>5, <2>1, Zenon DEF ServerReadProperty
    <2>3. answer = Some(error_pdu(id, SERVICE_READ_PROPERTY, 2, 32))
      BY <1>2, <2>2, Zenon DEF PropertyError, ERROR_CLASS_PROPERTY, ERROR_CODE_UNKNOWN_PROPERTY
    <2>4. Tells(Some(error_pdu(id, SERVICE_READ_PROPERTY, 2, 32)), id, None, Some(<<2, 32>>), None)
      <3>1. 2 \in Nat /\ 32 \in Nat /\ 2 < 256 /\ 32 < 256
        OBVIOUS
      <3>2. QED
        BY <1>1, <3>1, ErrorTells, Zenon
    <2>5. Served(m) = Says(m.id, None, Some(<<2, 32>>), None)
      BY <1>5, ServedSays, Zenon
    <2>6. QED
      BY <2>3, <2>4, <2>5, SaysServed, Zenon
  <1>6. CASE key \in DOMAIN Peer.served /\ (Given(p.array_index) \/ key \notin Peer.refused)
    <2> DEFINE value == FlattenSeq(seqs)
    <2>1. Value(p.object, p.property) = Some(value) /\ Given(Some(value)) /\ Some(value)[1] = value
      <3>1. Value(p.object, p.property) = Some(value)
        BY <1>6, Zenon DEF Value
      <3>2. Given(Some(value)) /\ Some(value)[1] = value
        BY DEF Some, Given, None
      <3>3. QED
        BY <3>1, <3>2, Zenon
    <2>2. Listed(p.object)
      BY <1>6, ServedListed, Zenon
    <2>3. CASE Given(p.array_index)
      <3>1. answer = ArrayElement(f, p, value)
        BY <1>2, <2>1, <2>2, <2>3, Zenon DEF ServerReadProperty
      <3>2. QED
        BY <1>6, <2>3, <3>1, ElementTells, Zenon
    <2>4. CASE ~Given(p.array_index)
      <3>1. p.array_index = None /\ key \notin Peer.refused
        BY <1>6, <2>4, Zenon DEF Given
      <3>2. answer = Some(read_property_ack(id, p.object, p.property, p.array_index, value))
        BY <1>2, <2>1, <2>2, <2>4, <3>1, Zenon DEF ServerReadProperty
      <3>3. Elements(value, seqs, Len(seqs)) /\ Len(seqs) \in Nat
        <4>1. Elements(value, seqs, Len(seqs)) /\ seqs \in Seq(Octets)
          BY <1>6, ServedElements, Zenon
        <4> HIDE DEF seqs
        <4>2. QED
          BY <4>1
      <3>4. Tells(answer, id, Some(value), None, None)
        BY <1>1, <3>2, <3>3, AckTells, Zenon
      <3>5. Served(m) = Says(m.id, Some(value), None, None)
        BY <1>6, <2>4, <3>1, ServedSays, Zenon
      <3>6. QED
        BY <3>4, <3>5, SaysServed, Zenon
    <2>5. QED
      BY <2>3, <2>4, Zenon
  <1>7. QED
    BY <1>3, <1>4, <1>5, <1>6, Zenon

\* The peer takes a read request for what it is.
LEMMA ReadTaken ==
    ASSUME NEW m \in Messages, m.kind = "read", NEW f, f.network_message = None, f.payload = Encoded(m)
    PROVE  invoke_id(f) = Some(m.id) /\ ServerAnswer(f) = ServerReadProperty(f, Some(m.p))
  <1> DEFINE apdu == Encoded(m)
             p == m.p
  <1>1. m.id \in Octet /\ Readable(p) /\ apdu = read_property_request(m.id, p.object, p.property, p.array_index)
    BY ReadsReadable, Zenon
  <1>2. /\ apdu \in Octets /\ apdu[1] = 0 /\ apdu[3] = m.id /\ apdu[4] = SERVICE_READ_PROPERTY
        /\ Len(apdu) = 4 + Len(ReferenceOf(p))
    <2> DEFINE request == read_property_request(m.id, p.object, p.property, p.array_index)
    <2> HIDE DEF apdu, p
    <2>1. /\ request \in Octets /\ request[1] = 0 /\ request[3] = m.id /\ request[4] = SERVICE_READ_PROPERTY
          /\ Len(request) = 4 + Len(ReferenceOf(p))
      BY <1>1, ReadRequestTags, Zenon
    <2> HIDE DEF request
    <2>2. QED
      BY <1>1, <2>1, Zenon DEF request
  <1>3. parse_read_property_request(apdu) = Some(p)
    BY ReadMeant, Zenon
  <1>4. Len(ReferenceOf(p)) \in Nat
    <2>1. ReferenceOf(p) \in Octets
      BY <1>1, ReferenceIsOctets, Zenon
    <2>2. QED
      BY <2>1, OctetsAre
  <1> HIDE DEF apdu, p
  <1>5. Len(apdu) > 2 /\ Len(apdu) > 3 /\ Len(apdu) >= 1 /\ apdu[1] \div 16 = 0
    BY <1>2, <1>4
  <1>6. \A types : IsPdu(f, types) <=> 0 \in types
    <2>1. f.payload \in Octets /\ Len(f.payload) >= 1 /\ f.payload[1] \div 16 = 0
      BY <1>2, <1>5, Zenon DEF apdu
    <2>2. QED
      BY <2>1, PduIs, Zenon
  <1>7. /\ ~IsPdu(f, Answers) /\ ~IsPdu(f, {PDU_SIMPLE_ACK, PDU_COMPLEX_ACK, PDU_ERROR})
        /\ IsPdu(f, {PDU_CONFIRMED_REQUEST})
    <2>1. /\ 0 \notin Answers /\ 0 \notin {PDU_SIMPLE_ACK, PDU_COMPLEX_ACK, PDU_ERROR}
          /\ 0 \in {PDU_CONFIRMED_REQUEST}
      BY DEF PDU_SIMPLE_ACK, PDU_COMPLEX_ACK, PDU_ERROR, PDU_REJECT, PDU_ABORT, Answers, PDU_CONFIRMED_REQUEST
    <2>2. QED
      BY <1>6, <2>1, Zenon
  <1>8. f.payload = apdu
    BY DEF apdu
  <1>9. invoke_id(f) = Some(m.id)
    BY <1>2, <1>5, <1>7, <1>8, Zenon DEF invoke_id
  <1>10. service(f) = Some(SERVICE_READ_PROPERTY)
    BY <1>2, <1>5, <1>7, <1>8, Zenon DEF service
  <1>11. Some(SERVICE_READ_PROPERTY) # Some(SERVICE_READ_PROPERTY_MULTIPLE)
    BY DEF Some, SERVICE_READ_PROPERTY, SERVICE_READ_PROPERTY_MULTIPLE
  <1>12. ServerAnswer(f) = ServerReadProperty(f, Some(p))
    BY <1>3, <1>7, <1>8, <1>10, <1>11, Zenon DEF ServerAnswer
  <1>13. QED
    BY <1>9, <1>12, Zenon DEF p

\* A read of the simulated server, for every object, property and array index and whatever
\* is served: the answer the server makes tells the client that reads it the whole value, the
\* element asked for, the length of the array or the error the server documents, under the
\* invoke id of the request.
THEOREM ReadOfServer ==
    ASSUME NEW m \in Messages, m.kind = "read",
           NEW f, f.network_message = None, f.payload = Encoded(m),
           NEW g, g.network_message = None, g.payload = ServerAnswer(f)[1]
    PROVE  Given(ServerAnswer(f)) /\ ClientReads(g) = Served(m)
  BY ReadTaken, ServerTells, Zenon DEF TellsServed

-----------------------------------------------------------------------------
(* What the client reads is what is served                                  *)

\* A property reference is three short tags.
LEMMA ReferenceShort ==
    ASSUME NEW p, Readable(p)
    PROVE  Len(ReferenceOf(p)) \in Nat /\ Len(ReferenceOf(p)) <= 15
  <1> DEFINE o == object_id(p.object)
             v == unsigned_octets(p.property)
             x == unsigned_octets(p.array_index[1])
             T1 == Context(0, Len(o)) \o o
             T2 == Context(1, Len(v)) \o v
             T3 == Context(2, Len(x)) \o x
             last == Optional(p.array_index, T3)
  <1>0. /\ p.object \in Nat \X Nat /\ p.object[1] < 1024 /\ p.object[2] <= MAX_INSTANCE
        /\ p.property \in Nat /\ (Given(p.array_index) => p.array_index[1] \in Nat)
    BY SMT DEF Readable, Given
  <1>1. o \in Octets /\ Len(o) = 4
    BY <1>0, ObjectReadBack
  <1>2. \A k : (k \in 1..4 => k \in 0..4) /\ (k = 4 => k \in 0..4)
    BY SMT
  <1>3. v \in Octets /\ Len(v) \in 0..4
    BY <1>0, <1>2, UnsignedOctets, Zenon
  <1>4. Given(p.array_index) => x \in Octets /\ Len(x) \in 0..4
    BY <1>0, <1>2, UnsignedOctets, Zenon
  <1>5. ReferenceOf(p) = (T1 \o T2) \o last
    BY <1>1, Zenon DEF ReferenceOf, Reference, context_object_id, context_unsigned, Optional
  <1> HIDE DEF o, v, x
  <1>6. 0 \in Nat /\ 0 <= 14 /\ 1 \in Nat /\ 1 <= 14 /\ 2 \in Nat /\ 2 <= 14
    OBVIOUS
  <1>7. T1 \in Octets /\ Len(T1) = 1 + Len(o)
    BY <1>1, <1>2, <1>6, ValueOctets, Zenon
  <1>8. T2 \in Octets /\ Len(T2) = 1 + Len(v)
    BY <1>3, <1>6, ValueOctets, Zenon
  <1>9. last \in Octets /\ Len(last) <= 5
    <2>1. CASE Given(p.array_index)
      <3>1. T3 \in Octets /\ Len(T3) = 1 + Len(x)
        BY <1>4, <1>6, <2>1, ValueOctets, Zenon
      <3>2. last = T3
        BY <2>1, Zenon DEF Optional
      <3>3. Len(x) \in 0..4
        BY <1>4, <2>1, Zenon
      <3> DEFINE k == Len(x)
      <3> HIDE DEF T3, last, k
      <3>4. Len(T3) = 1 + k /\ k \in 0..4
        BY <3>1, <3>3, Zenon DEF k
      <3>5. Len(T3) <= 5
        BY <3>4, SMT
      <3>6. QED
        BY <3>1, <3>2, <3>5, Zenon
    <2>2. CASE ~Given(p.array_index)
      <3>1. last = <<>>
        BY <2>2, Zenon DEF Optional
      <3>2. <<>> \in Octets /\ Len(<<>>) = 0
        BY OctetsAre
      <3> HIDE DEF last
      <3>3. QED
        BY <3>1, <3>2
    <2>3. QED
      BY <2>1, <2>2, Zenon
  <1> HIDE DEF T1, T2, last
  <1>10. T1 \o T2 \in Octets /\ Len(T1 \o T2) = Len(T1) + Len(T2) /\ Len(T1) \in Nat /\ Len(T2) \in Nat
    BY <1>7, <1>8, HoldsAfter, Zenon
  <1>11. /\ Len((T1 \o T2) \o last) = Len(T1 \o T2) + Len(last) /\ Len(T1 \o T2) \in Nat
         /\ Len(last) \in Nat
    BY <1>9, <1>10, HoldsAfter, Zenon
  <1> DEFINE whole == (T1 \o T2) \o last
             part == T1 \o T2
  <1> HIDE DEF whole, part
  <1>12. Len(whole) \in Nat /\ Len(whole) <= 15
    <2>1. Len(whole) = Len(part) + Len(last) /\ Len(part) = Len(T1) + Len(T2)
      BY <1>10, <1>11, Zenon DEF whole, part
    <2> DEFINE k == Len(v)
    <2> HIDE DEF k
    <2>2. k \in 0..4 /\ Len(T2) = 1 + k
      BY <1>3, <1>8, Zenon DEF k
    <2>3. Len(T1) = 5
      BY <1>1, <1>7
    <2>4. Len(T2) <= 5
      BY <2>2, SMT
    <2>5. QED
      BY <1>9, <1>10, <1>11, <2>1, <2>3, <2>4, SMT
  <1>13. QED
    BY <1>5, <1>12, Zenon DEF whole

\* A BVLL header is four octets.
LEMMA BvllLength ==
    ASSUME NEW function \in Octet, NEW body \in Octets
    PROVE  Len(bvll(function, body)) = 4 + Len(body) /\ Len(body) \in Nat
  <1> DEFINE head == <<129, function>>
             length == ToBytes(4 + Len(body), 2)
  <1>1. head \in Octets /\ Len(head) = 2
    <2>1. 129 \in Octet
      BY OctetIs, SMT
    <2>2. head \in Octets
      BY <2>1, HeaderOctets, SMT
    <2>3. QED
      BY <2>2, SMT
  <1>2. Len(body) \in Nat
    BY OctetsAre
  <1>3. length \in Octets /\ Len(length) = 2
    <2>1. 4 + Len(body) \in Int
      BY <1>2
    <2>2. QED
      BY <2>1, ToBytesOctets
  <1>4. bvll(function, body) = (head \o length) \o body
    BY Zenon DEF bvll
  <1> HIDE DEF head, length
  <1>5. head \o length \in Octets /\ Len(head \o length) = Len(head) + Len(length)
    BY <1>1, <1>3, HoldsAfter, Zenon
  <1> DEFINE front == head \o length
  <1> HIDE DEF front
  <1>6. front \in Octets /\ Len(front) = 4
    BY <1>1, <1>3, <1>5 DEF front
  <1>7. Len(front \o body) = Len(front) + Len(body)
    BY <1>6, HoldsAfter, Zenon
  <1>8. QED
    BY <1>2, <1>4, <1>6, <1>7, Zenon DEF front

\* A read request is short.
LEMMA ReadShort ==
    ASSUME NEW m \in Messages, m.kind = "read"
    PROVE  Encoded(m) \in Octets /\ Len(Encoded(m)) \in Nat /\ Len(Encoded(m)) <= 19
  <1> DEFINE p == m.p
             apdu == Encoded(m)
             request == read_property_request(m.id, p.object, p.property, p.array_index)
  <1>1. m.id \in Octet /\ Readable(p) /\ apdu = request
    BY ReadsReadable, Zenon
  <1> HIDE DEF apdu, p
  <1>2. request \in Octets /\ Len(request) = 4 + Len(ReferenceOf(p))
    BY <1>1, ReadRequestTags, Zenon
  <1>3. Len(ReferenceOf(p)) \in Nat /\ Len(ReferenceOf(p)) <= 15
    BY <1>1, ReferenceShort, Zenon
  <1> HIDE DEF request
  <1>4. QED
    BY <1>1, <1>2, <1>3 DEF apdu

\* The datagram of a request that is not segmented fits what is received of one, whatever
\* the route.
LEMMA ShortFits ==
    ASSUME NEW apdu \in Octets, Len(apdu) \in Nat, Unsegmented(apdu), NEW r \in Routes
    PROVE  Len(Carried(npdu(apdu, r), r)) \in Nat /\ Len(Carried(npdu(apdu, r), r)) <= RECEIVE_SIZE
  <1> DEFINE n == npdu(apdu, r)
             d == Address(r.dnet, r.dadr)
             s == Address(r.snet, r.sadr)
  <1>1. apdu \in Octets /\ Len(apdu) \in Nat /\ Len(apdu) <= 1476
    BY SMT DEF Unsegmented
  <1>2. /\ WellAddressed(r) /\ (r.via = "forwarded" => r.originating \in Octets /\ Len(r.originating) = 6)
        /\ Len(r.dadr) \in Nat /\ Len(r.dadr) <= 255 /\ Len(r.sadr) \in Nat /\ Len(r.sadr) <= 255
    BY RouteAddressed, SMT
  <1>3. Pci(r) \in Octets /\ Len(Pci(r)) \in Nat /\ Len(Pci(r)) <= 519
    <2> DEFINE hop == IF Given(r.dnet) THEN 1 ELSE 0
    <2>1. Pci(r) \in Octets /\ Len(Pci(r)) = 2 + Len(d) + Len(s) + hop
      BY <1>2, PciOctets, Zenon
    <2>2. Len(d) \in Nat /\ Len(d) <= 258 /\ Len(s) \in Nat /\ Len(s) <= 258
      <3>1. ASSUME NEW net, NEW address, IsAddress(net, address), Len(address) \in Nat, Len(address) <= 255
            PROVE  Len(Address(net, address)) \in Nat /\ Len(Address(net, address)) <= 258
        <4>1. Len(Address(net, address)) = IF Given(net) THEN 3 + Len(address) ELSE 0
          BY <3>1, AddressOctets, Zenon
        <4> DEFINE k == Len(Address(net, address))
                   j == Len(address)
        <4> HIDE DEF k, j
        <4>2. k = IF Given(net) THEN 3 + j ELSE 0
          BY <4>1, Zenon DEF k, j
        <4>3. j \in Nat /\ j <= 255
          BY <3>1, SMT DEF j
        <4>4. k \in Nat /\ k <= 258
          BY <4>2, <4>3, SMT
        <4>5. QED
          BY <4>4, SMT DEF k
      <3>2. IsAddress(r.dnet, r.dadr) /\ IsAddress(r.snet, r.sadr)
        BY <1>2, SMT DEF WellAddressed
      <3> HIDE DEF d, s
      <3>3. Len(d) \in Nat /\ Len(d) <= 258
        BY <1>2, <3>1, <3>2, SMT DEF d
      <3>4. Len(s) \in Nat /\ Len(s) <= 258
        BY <1>2, <3>1, <3>2, SMT DEF s
      <3>5. QED
        BY <3>3, <3>4, SMT
    <2> HIDE DEF d, s
    <2>3. hop \in Nat /\ hop <= 1
      OBVIOUS
    <2> HIDE DEF hop
    <2>4. QED
      BY <2>1, <2>2, <2>3, SMT
  <1> HIDE DEF d, s
  <1>4. n \in Octets /\ Len(n) \in Nat /\ Len(n) <= 1995
    <2>1. n = Pci(r) \o apdu
      BY <1>1, <1>2, NpduIs, SMT
    <2>2. Pci(r) \o apdu \in Octets /\ Len(Pci(r) \o apdu) = Len(Pci(r)) + Len(apdu)
      BY <1>1, <1>3, HoldsAfter, SMT
    <2> HIDE DEF n
    <2>3. Len(n) = Len(Pci(r)) + Len(apdu) /\ n \in Octets
      BY <2>1, <2>2, Zenon
    <2>4. QED
      BY <1>1, <1>3, <2>3, SMT
  <1> HIDE DEF n
  <1> DEFINE datagram == Carried(n, r)
  <1>5. \A function \in {4, 9, 10, 11} : function \in Octet
    BY OctetIs, SMT
  <1>6. Len(datagram) \in Nat /\ Len(datagram) <= 2005
    <2>1. CASE r.via = "forwarded"
      <3> DEFINE body == r.originating \o n
      <3>1. body \in Octets /\ Len(body) = Len(r.originating) + Len(n)
        <4>1. r.originating \in Octets
          BY <1>2, <2>1, SMT
        <4>2. n \in Octets
          BY <1>4, SMT
        <4>3. QED
          BY <4>1, <4>2, HoldsAfter, Zenon
      <3>2. datagram = bvll(4, body)
        BY <2>1, SMT DEF Carried, forwarded_npdu
      <3> HIDE DEF body
      <3>3. Len(bvll(4, body)) = 4 + Len(body)
        BY <1>5, <3>1, BvllLength, SMT
      <3> HIDE DEF datagram
      <3>4. Len(datagram) = 4 + Len(body)
        BY <3>2, <3>3, Zenon
      <3>5. Len(body) = 6 + Len(n)
        <4>1. Len(r.originating) = 6
          BY <1>2, <2>1, SMT
        <4>2. QED
          BY <3>1, <4>1, Zenon
      <3>6. QED
        BY <1>4, <3>4, <3>5, SMT
    <2>2. CASE r.via # "forwarded"
      <3>1. PICK function \in {9, 10, 11} : datagram = bvll(function, n)
        BY <2>2, SMT DEF Carried, bvlc, distribute_broadcast_to_network
      <3>2. function \in Octet
        BY <1>5, SMT
      <3>3. Len(bvll(function, n)) = 4 + Len(n)
        BY <1>4, <3>2, BvllLength, SMT
      <3> HIDE DEF datagram
      <3>4. Len(datagram) = 4 + Len(n)
        BY <3>1, <3>3, Zenon
      <3>5. QED
        BY <1>4, <3>4, SMT
    <2>3. QED
      BY <2>1, <2>2, Zenon
  <1> HIDE DEF datagram
  <1>7. Len(datagram) \in Nat /\ Len(datagram) <= RECEIVE_SIZE
    BY <1>6, SMT DEF RECEIVE_SIZE
  <1>8. QED
    BY <1>7, Zenon DEF datagram, n

-----------------------------------------------------------------------------
(* Who-Is and I-Am                                                          *)

\* The limits of a Who-Is: none, or two numbers of 32 bits.
IsLimits(limits) ==
    limits = None \/ (/\ limits = <<<<limits[1][1], limits[1][2]>>>>
                      /\ limits[1][1] \in Nat /\ Fits(limits[1][1], 4)
                      /\ limits[1][2] \in Nat /\ Fits(limits[1][2], 4))

WhoIsTag(n, t) ==
    t.kind = "value" /\ t.context \in BOOLEAN /\ t.body = unsigned_octets(n)
IsWhoIs(apdu, low, high) ==
    /\ apdu \in Octets /\ Len(apdu) <= 12 /\ Len(apdu) >= 2 /\ apdu[1] = 16 /\ apdu[2] = 8
    /\ \E s, t : /\ Tags(apdu, 3) = <<s, t>>
                 /\ WhoIsTag(low, s) /\ WhoIsTag(high, t)
\* The tags of a Who-Is with limits.
LEMMA WhoIsTags ==
    ASSUME NEW low \in Nat, NEW high \in Nat
    PROVE  IsWhoIs(<<16, 8>> \o (context_unsigned(0, low) \o context_unsigned(1, high)), low, high)
  <1> DEFINE head == <<16, 8>>
             u == unsigned_octets(low)
             v == unsigned_octets(high)
             T1 == Context(0, Len(u)) \o u
             T2 == Context(1, Len(v)) \o v
             body == T1 \o T2
             apdu == head \o body
  <1>1. head \in Octets /\ Len(head) = 2 /\ head[1] = 16 /\ head[2] = 8
    <2>1. 16 \in Octet /\ 8 \in Octet
      BY OctetIs
    <2>2. head \in Octets
      BY <2>1, HeaderOctets
    <2>3. QED
      BY <2>2
  <1>2. \A k : k \in 1..4 => k \in 0..4 /\ k \in Nat
    BY SMT
  <1>3. u \in Octets /\ Len(u) \in 0..4 /\ v \in Octets /\ Len(v) \in 0..4
    BY <1>2, UnsignedOctets, Zenon
  <1>4. context_unsigned(0, low) = T1 /\ context_unsigned(1, high) = T2
    BY Zenon DEF context_unsigned
  <1>5. 0 \in Nat /\ 0 <= 14 /\ 1 \in Nat /\ 1 <= 14
    OBVIOUS
  <1> HIDE DEF u, v, head
  <1>6. T1 \in Octets /\ Len(T1) = 1 + Len(u) /\ T2 \in Octets /\ Len(T2) = 1 + Len(v)
    BY <1>3, <1>5, ValueOctets, Zenon
  <1> HIDE DEF T1, T2
  <1>7. body \in Octets /\ Len(body) = Len(T1) + Len(T2) /\ Len(T1) \in Nat /\ Len(T2) \in Nat
    BY <1>6, HoldsAfter, Zenon
  <1>8. /\ apdu \in Octets /\ Len(apdu) = Len(head) + Len(body) /\ Holds(apdu, Len(head), body)
        /\ \A i \in 1..Len(head) : apdu[i] = head[i]
    <2> HIDE DEF body
    <2>1. QED
      BY <1>1, <1>7, HoldsAfter, Zenon
  <1>9. Holds(apdu, 2, T1) /\ Holds(apdu, 2 + Len(T1), T2)
    <2> HIDE DEF apdu
    <2>1. Holds(apdu, 2, T1 \o T2) /\ 2 \in Nat
      BY <1>1, <1>8
    <2>2. QED
      BY <1>6, <1>8, <2>1, HoldsBoth, Zenon
  <1> HIDE DEF body, apdu
  <1> DEFINE j == Len(u)
             k == Len(v)
             s == ValueTag(0, u, 2 + 1)
             at == 2 + 1 + j
             t == ValueTag(1, v, at + 1)
             end == at + 1 + k
  <1>10. j \in Nat /\ j <= 4 /\ k \in Nat /\ k <= 4
    <2>1. \A i \in 0..4 : i \in Nat /\ i <= 4
      BY SMT
    <2>2. QED
      BY <1>3, <2>1, Zenon
  <1>11. Len(T1) = 1 + j /\ Len(T2) = 1 + k
    BY <1>6, Zenon
  <1>12. Tags(apdu, 2 + 1) = <<s>> \o Tags(apdu, at + 1)
    <2>1. Holds(apdu, 2, Context(0, Len(u)) \o u) /\ 2 \in Nat
      BY <1>9 DEF T1
    <2>2. apdu \in Octets /\ u \in Octets /\ Len(u) \in 0..4
      BY <1>3, <1>8, Zenon
    <2> DEFINE two == 2
    <2> HIDE DEF two
    <2>3. Holds(apdu, two, Context(0, Len(u)) \o u) /\ two \in Nat
      BY <2>1, Zenon DEF two
    <2>4. Tags(apdu, two + 1) = <<ValueTag(0, u, two + 1)>> \o Tags(apdu, (two + 1 + Len(u)) + 1)
      BY <1>5, <2>2, <2>3, TagsGoOn, ZenonT(60)
    <2>5. QED
      BY <2>4, Zenon DEF two
  <1> HIDE DEF j, k, s
  <1>13. at \in Nat /\ 2 + Len(T1) = at
    BY <1>10, <1>11
  <1>14. Tags(apdu, at + 1) = <<t>> \o Tags(apdu, end + 1)
    <2> HIDE DEF at
    <2>1. Holds(apdu, at, Context(1, Len(v)) \o v)
      BY <1>9, <1>13, Zenon DEF T2
    <2>2. apdu \in Octets /\ v \in Octets /\ Len(v) \in 0..4 /\ at \in Nat
      BY <1>3, <1>8, <1>13, Zenon
    <2>3. Tags(apdu, at + 1) = <<ValueTag(1, v, at + 1)>> \o Tags(apdu, (at + 1 + Len(v)) + 1)
      BY <1>5, <2>1, <2>2, TagsGoOn, ZenonT(60)
    <2>4. QED
      BY <2>3, Zenon DEF k
  <1>15. Len(apdu) = end /\ Len(apdu) <= 12 /\ Len(apdu) >= 2 /\ apdu[1] = 16 /\ apdu[2] = 8
    BY <1>1, <1>7, <1>8, <1>10, <1>11
  <1>16. Tags(apdu, end + 1) = <<>>
    <2> HIDE DEF end
    <2>1. QED
      BY <1>8, <1>15, TagsEnd, Zenon
  <1>17. Tags(apdu, 3) = <<s, t>>
    <2> HIDE DEF t, end, at
    <2>1. <<t>> \o <<>> = <<t>> /\ 2 + 1 = 3
      OBVIOUS
    <2>2. <<s>> \o <<t>> = <<s, t>>
      BY Pair
    <2>3. QED
      BY <1>12, <1>14, <1>16, <2>1, <2>2, Zenon
  <1>18. WhoIsTag(low, s) /\ WhoIsTag(high, t)
    BY DEF WhoIsTag, ValueTag, s, u, v
  <1>19. IsWhoIs(apdu, low, high)
    BY <1>8, <1>15, <1>17, <1>18, Zenon DEF IsWhoIs
  <1>20. QED
    BY <1>4, <1>19, Zenon DEF apdu, head, body

Asked(limits) == \A l \in ToSet(limits) : l[1] <= Peer.instance /\ Peer.instance <= l[2]
\* The octets of a Who-Is, and whom it is for.
LEMMA WhoIsAsks ==
    ASSUME NEW limits, IsLimits(limits), NEW f, f.payload = who_is(limits)
    PROVE  /\ f.payload \in Octets /\ Len(f.payload) <= 12 /\ Len(f.payload) >= 2
           /\ f.payload[1] = 16 /\ f.payload[2] = 8
           /\ InRange(f) <=> Asked(limits)
  <1> DEFINE body == context_unsigned(0, limits[1][1]) \o context_unsigned(1, limits[1][2])
             head == <<16, 8>>
  <1>1. f.payload = head \o Optional(limits, body)
    <2>1. 16 * PDU_UNCONFIRMED_REQUEST = 16 /\ SERVICE_WHO_IS = 8
      BY DEF PDU_UNCONFIRMED_REQUEST, SERVICE_WHO_IS
    <2>2. QED
      BY <2>1, Zenon DEF who_is
  <1>2. CASE limits = None
    <2>1. f.payload = head \o <<>>
      BY <1>1, <1>2, Zenon DEF Optional, Given
    <2>2. head \o <<>> = head /\ Len(head) = 2 /\ head[1] = 16 /\ head[2] = 8
      OBVIOUS
    <2>3. head \in Octets
      <3>1. 16 \in Octet /\ 8 \in Octet
        BY OctetIs
      <3>2. QED
        BY <3>1, HeaderOctets
    <2> HIDE DEF head
    <2>4. Tags(f.payload, Len(head) + 1) = <<>>
      BY <2>1, <2>2, <2>3, TagsEnd, Zenon
    <2>5. Len(head) + 1 = 3 /\ Len(head) <= 12 /\ Len(head) >= 2 /\ Len(<<>>) # 2
      BY <2>2
    <2>6. ValuesAmong(Tags(f.payload, 3), BOOLEAN) = <<>>
      BY <2>4, <2>5, TwoValues, Zenon
    <2>7. InRange(f)
      BY <2>5, <2>6, Zenon DEF InRange
    <2>8. Asked(limits)
      <3>1. ToSet(<<>>) = {}
        BY DEF ToSet
      <3>2. QED
        BY <1>2, <3>1, Zenon DEF Asked, None
    <2>9. QED
      BY <2>1, <2>2, <2>3, <2>5, <2>7, <2>8, Zenon
  <1>3. CASE limits # None
    <2> DEFINE low == limits[1][1]
               high == limits[1][2]
    <2>1. low \in Nat /\ high \in Nat /\ Fits(low, 4) /\ Fits(high, 4) /\ limits = <<<<low, high>>>>
      BY <1>3, Zenon DEF IsLimits
    <2>2. f.payload = head \o body
      BY <1>1, <1>3, Zenon DEF Optional, Given
    <2> HIDE DEF low, high
    <2>3. IsWhoIs(f.payload, low, high)
      BY <2>1, <2>2, WhoIsTags, Zenon DEF low, high
    <2>4. PICK s, t : /\ Tags(f.payload, 3) = <<s, t>>
                      /\ WhoIsTag(low, s) /\ WhoIsTag(high, t)
      BY <2>3, Zenon DEF IsWhoIs
    <2>5. ValuesAmong(Tags(f.payload, 3), BOOLEAN) = <<s, t>>
      BY <2>4, TwoValues, ZenonT(60) DEF WhoIsTag
    <2>6. FromBytes(s.body) = low /\ FromBytes(t.body) = high
      BY <2>1, <2>4, UnsignedReadBack, Zenon DEF WhoIsTag
    <2>7. Len(<<s, t>>) = 2 /\ <<s, t>>[1] = s /\ <<s, t>>[2] = t
      OBVIOUS
    <2>8. InRange(f) <=> low <= Peer.instance /\ Peer.instance <= high
      BY <2>5, <2>6, <2>7, Zenon DEF InRange
    <2>9. Asked(limits) <=> low <= Peer.instance /\ Peer.instance <= high
      <3>1. ToSet(<<<<low, high>>>>) = {<<low, high>>} /\ <<low, high>>[1] = low /\ <<low, high>>[2] = high
        BY DEF ToSet
      <3>2. QED
        BY <2>1, <3>1, Zenon DEF Asked
    <2>10. QED
      BY <2>3, <2>8, <2>9, Zenon DEF IsWhoIs
  <1>4. QED
    BY <1>2, <1>3, Zenon

\* What data holds, it holds with more behind it.
LEMMA HoldsLonger ==
    ASSUME NEW data \in Octets, NEW more \in Octets, NEW at \in Nat, NEW v \in Octets, Holds(data, at, v)
    PROVE  Holds(data \o more, at, v) /\ data \o more \in Octets /\ Len(data \o more) >= Len(data)
  <1> DEFINE both == data \o more
  <1>1. /\ both \in Octets /\ Len(both) = Len(data) + Len(more) /\ Len(data) \in Nat /\ Len(more) \in Nat
        /\ \A i \in 1..Len(data) : both[i] = data[i]
    BY HoldsAfter, Zenon
  <1> HIDE DEF both
  <1>2. at + Len(v) <= Len(data) /\ \A i \in 1..Len(v) : data[at + i] = v[i]
    BY Zenon DEF Holds
  <1>3. Len(v) \in Nat
    BY OctetsAre
  <1>4. at + Len(v) <= Len(both) /\ Len(both) >= Len(data)
    BY <1>1, <1>2, <1>3
  <1>5. \A i \in 1..Len(v) : both[at + i] = v[i]
    <2>1. \A i \in 1..Len(v) : at + i \in 1..Len(data)
      BY <1>1, <1>2, <1>3
    <2>2. QED
      BY <1>1, <1>2, <2>1, Zenon
  <1>6. QED
    BY <1>1, <1>4, <1>5, Zenon DEF Holds, both

\* An I-Am is read as the instance of the device that sent it.
LEMMA IAmRoundTrip ==
    ASSUME NEW instance \in Nat, instance <= MAX_INSTANCE
    PROVE  /\ i_am(instance, 389) \in Octets
           /\ i_am_device_instance(i_am(instance, 389)) = Some(instance)
  <1> DEFINE device == <<OBJECT_TYPE_DEVICE, instance>>
             body == object_id(device)
             a == application_object_id(device)
             max == application_unsigned(1476)
             segmentation == application_enumerated(3)
             vendor == application_unsigned(389)
             head == <<16 * PDU_UNCONFIRMED_REQUEST, SERVICE_I_AM>>
             x == head \o a
             y == x \o max
             z == y \o segmentation
             apdu == z \o vendor
  <1>1. device \in Nat \X Nat /\ device[1] < 1024 /\ device[2] <= MAX_INSTANCE /\ device[2] = instance
        /\ device[1] = OBJECT_TYPE_DEVICE
    BY SMT DEF OBJECT_TYPE_DEVICE
  <1>2. head \in Octets /\ Len(head) = 2 /\ head[1] = 16 /\ head[2] = 0
    <2>1. 16 * PDU_UNCONFIRMED_REQUEST \in Octet /\ SERVICE_I_AM \in Octet
      BY OctetIs DEF PDU_UNCONFIRMED_REQUEST, SERVICE_I_AM
    <2>2. head \in Octets
      BY <2>1, HeaderOctets
    <2>3. QED
      BY <2>2 DEF PDU_UNCONFIRMED_REQUEST, SERVICE_I_AM
  <1>3. i_am(instance, 389) = apdu
    BY SMT DEF i_am
  <1>4. max \in Octets /\ segmentation \in Octets /\ vendor \in Octets
    <2>1. 1476 \in Nat /\ 389 \in Nat /\ 3 \in Nat
      BY SMT
    <2>2. QED
      BY <2>1, ApplicationNumbers, SMT
  <1> HIDE DEF device, head, max, segmentation, vendor
  <1>5. body \in Octets /\ Len(body) = 4 /\ AsObject(body) = device
    BY <1>1, ObjectReadBack, SMT
  <1>6. a = Application(12, Len(body)) \o body
    BY <1>5, Zenon DEF application_object_id
  <1> HIDE DEF body, a
  <1> DEFINE t == ApplicationTag(12, body)
  <1>7. a \in Octets /\ Len(a) = Len(body) + 1 /\ read_tag(a, 1) = t
    <2>1. 12 \in Nat /\ 12 <= 14 /\ 12 # 1 /\ Len(body) \in 0..4
      BY <1>5
    <2>2. QED
      BY <1>5, <1>6, <2>1, ShortApplicationTag, Zenon
  <1>8. /\ x \in Octets /\ Len(x) = Len(head) + Len(a) /\ Holds(x, Len(head), a) /\ Holds(x, 0, head)
    BY <1>2, <1>7, HoldsAfter, Zenon
  <1>9. 2 \in Nat /\ 0 \in Nat /\ Holds(x, 2, a)
    <2> HIDE DEF x
    <2>1. QED
      BY <1>2, <1>8
  <1> HIDE DEF x
  <1>10. y \in Octets /\ Len(y) >= Len(x) /\ Holds(y, 2, a) /\ Holds(y, 0, head)
    BY <1>2, <1>4, <1>7, <1>8, <1>9, HoldsLonger, Zenon
  <1> HIDE DEF y
  <1>11. z \in Octets /\ Len(z) >= Len(y) /\ Holds(z, 2, a) /\ Holds(z, 0, head)
    BY <1>2, <1>4, <1>7, <1>9, <1>10, HoldsLonger, Zenon
  <1> HIDE DEF z
  <1>12. apdu \in Octets /\ Len(apdu) >= Len(z) /\ Holds(apdu, 2, a) /\ Holds(apdu, 0, head)
    BY <1>2, <1>4, <1>7, <1>9, <1>11, HoldsLonger, Zenon
  <1> HIDE DEF apdu
  <1>13. Len(apdu) \in Nat /\ Len(apdu) >= 7 /\ ~(Len(apdu) < 7)
    <2>1. Len(x) = 7 /\ Len(y) \in Nat /\ Len(z) \in Nat /\ Len(apdu) \in Nat
      BY <1>2, <1>5, <1>7, <1>8, <1>10, <1>11, <1>12, OctetsAre
    <2>2. QED
      BY <1>10, <1>11, <1>12, <2>1
  <1>14. apdu[1] = 16 /\ apdu[2] = 0 /\ apdu[1] \div 16 = PDU_UNCONFIRMED_REQUEST /\ apdu[2] = SERVICE_I_AM
    <2>1. \A i \in 1..Len(head) : apdu[0 + i] = head[i]
      BY <1>12, Zenon DEF Holds
    <2>2. apdu[1] = head[1] /\ apdu[2] = head[2]
      BY <1>2, <2>1
    <2>3. QED
      BY <1>2, <2>2 DEF PDU_UNCONFIRMED_REQUEST, SERVICE_I_AM
  <1>15. read_tag(apdu, 3) = Moved(t, 2)
    <2>1. t # Raised /\ t.next <= Len(a) + 1
      <3>1. t.next = Len(body) + 2 /\ t.kind = "value" /\ Raised.kind = "raise"
        BY DEF ApplicationTag, Raised
      <3> HIDE DEF t
      <3>2. QED
        BY <1>5, <1>7, <3>1
    <2>2. 1 \in 1..Len(a) /\ 2 + 1 = 3
      BY <1>5, <1>7
    <2> HIDE DEF t
    <2>3. read_tag(apdu, 2 + 1) = Moved(read_tag(a, 1), 2)
      BY <1>7, <1>9, <1>12, <2>1, <2>2, ReadTagMoved, Zenon
    <2>4. QED
      BY <1>7, <2>2, <2>3, Zenon
  <1> DEFINE tag == Moved(t, 2)
  <1>16. tag.context = FALSE /\ tag.number = 12 /\ tag.body = body
    BY DEF Moved, ApplicationTag
  <1> HIDE DEF tag
  <1>17. i_am_device_instance(apdu) = Some(device[2])
    <2>1. read_tag(apdu, 3) = tag
      BY <1>15, Zenon DEF tag
    <2>2. /\ ~(Len(apdu) < 7) /\ ~(apdu[1] \div 16 # PDU_UNCONFIRMED_REQUEST) /\ ~(apdu[2] # SERVICE_I_AM)
          /\ ~tag.context /\ ~(tag.number # 12) /\ ~(Len(tag.body) # 4)
          /\ ~(AsObject(tag.body)[1] # OBJECT_TYPE_DEVICE) /\ AsObject(tag.body) = device
      BY <1>1, <1>5, <1>13, <1>14, <1>16, Zenon
    <2>3. QED
      BY <2>1, <2>2, Zenon DEF i_am_device_instance
  <1>18. QED
    BY <1>1, <1>3, <1>12, <1>17, ZenonT(60)

-----------------------------------------------------------------------------
(* Reads and Who-Is are answered with what is served                        *)

\* A Who-Is of the wire tests is given no limits or both.
LEMMA WhoIsLimits ==
    ASSUME NEW m \in Messages, m.kind = "who-is"
    PROVE  IsLimits(m.p.limits) /\ Encoded(m) = who_is(m.p.limits)
  <1> DEFINE limits == m.p.limits
  <1>1. limits \in Seq(Nat \X Nat)
    BY MessagesAssumption
  <1>2. Len(limits) <= 1 /\ \A l \in ToSet(limits) : Unsigned32(l[1]) /\ Unsigned32(l[2])
    BY WhoIsAssumption, Zenon
  <1>3. Encoded(m) = who_is(limits)
    BY DEF Encoded
  <1> HIDE DEF limits
  <1>4. ASSUME NEW n \in Nat, Unsigned32(n) PROVE Fits(n, 4)
    <2>1. n < 4294967296
      BY <1>4, SMT DEF Unsigned32
    <2>2. QED
      BY <2>1, SMT DEF Fits
  <1>5. IsLimits(limits)
    <2> DEFINE k == Len(limits)
    <2>1. k \in Nat /\ k <= 1
      BY <1>1, <1>2
    <2> HIDE DEF k
    <2>2. k = 0 \/ k = 1
      BY <2>1
    <2>3. CASE k = 0
      <3>1. limits = None
        BY <1>1, <2>3 DEF k, None
      <3>2. QED
        BY <3>1, Zenon DEF IsLimits
    <2>4. CASE k = 1
      <3> DEFINE l == limits[1]
      <3>1. limits = <<l>> /\ l \in Nat \X Nat /\ l \in ToSet(limits)
        BY <1>1, <2>4 DEF k, ToSet
      <3>2. Unsigned32(l[1]) /\ Unsigned32(l[2])
        BY <1>2, <3>1, Zenon
      <3> HIDE DEF l
      <3>3. l[1] \in Nat /\ l[2] \in Nat /\ l = <<l[1], l[2]>>
        BY <3>1
      <3>4. Fits(l[1], 4) /\ Fits(l[2], 4)
        BY <1>4, <3>2, <3>3, Zenon
      <3>5. limits = <<<<l[1], l[2]>>>>
        BY <3>1, <3>3, Zenon
      <3>6. QED
        BY <3>3, <3>4, <3>5, Zenon DEF IsLimits, l
    <2>5. QED
      BY <2>2, <2>3, <2>4, Zenon
  <1>6. QED
    BY <1>3, <1>5, Zenon DEF limits

\* The requests with one answer that the peer makes of what it serves: what is read in the
\* answer, what should be, and whether there is an answer at all.
Singles == {"read", "who-is"}
Outcome(m, f) == IF m.kind = "who-is" THEN i_am_device_instance(f.payload) ELSE ClientReads(f)
Due(m) == IF m.kind = "who-is" THEN Some(Peer.instance) ELSE Served(m)
Answerable(m) == m.kind = "who-is" => Asked(m.p.limits)
AnswersDue(m, answer) ==
    /\ Given(answer) <=> Answerable(m)
    /\ Given(answer) => \A g : g.network_message = None /\ g.payload = answer[1] => Outcome(m, g) = Due(m)

\* A Who-Is is answered with an I-Am, if the instance is asked for.
LEMMA WhoIsAnswered ==
    ASSUME NEW m \in Messages, m.kind = "who-is", NEW f, f.network_message = None, f.payload = Encoded(m)
    PROVE  AnswersDue(m, ServerAnswer(f))
  <1> DEFINE limits == m.p.limits
  <1>1. IsLimits(limits) /\ Encoded(m) = who_is(limits)
    BY WhoIsLimits, Zenon
  <1> HIDE DEF limits
  <1>2. f.payload = who_is(limits)
    BY <1>1, Zenon
  <1>3. /\ f.payload \in Octets /\ Len(f.payload) <= 12 /\ Len(f.payload) >= 2
        /\ f.payload[1] = 16 /\ f.payload[2] = 8
        /\ InRange(f) <=> Asked(limits)
    BY <1>1, <1>2, WhoIsAsks, Zenon
  <1> DEFINE apdu == f.payload
  <1> HIDE DEF apdu
  <1>4. Len(apdu) \in Nat
    BY <1>3, OctetsAre DEF apdu
  <1>5. Len(apdu) >= 1 /\ Len(apdu) > 1 /\ apdu[1] \div 16 = 1
    BY <1>3, <1>4 DEF apdu
  <1>6. \A types : IsPdu(f, types) <=> 1 \in types
    <2>1. f.payload \in Octets /\ Len(f.payload) >= 1 /\ f.payload[1] \div 16 = 1
      BY <1>3, <1>5, Zenon DEF apdu
    <2>2. QED
      BY <2>1, PduIs, Zenon
  <1>7. ~IsPdu(f, {PDU_CONFIRMED_REQUEST}) /\ IsPdu(f, {PDU_UNCONFIRMED_REQUEST})
        /\ ~IsPdu(f, {PDU_SIMPLE_ACK, PDU_COMPLEX_ACK, PDU_ERROR})
    <2>1. /\ 1 \notin {PDU_CONFIRMED_REQUEST} /\ 1 \in {PDU_UNCONFIRMED_REQUEST}
          /\ 1 \notin {PDU_SIMPLE_ACK, PDU_COMPLEX_ACK, PDU_ERROR}
      BY DEF PDU_SIMPLE_ACK, PDU_COMPLEX_ACK, PDU_ERROR, PDU_CONFIRMED_REQUEST, PDU_UNCONFIRMED_REQUEST
    <2>2. QED
      BY <1>6, <2>1, Zenon
  <1>8. service(f) = Some(SERVICE_WHO_IS)
    <2>1. f.payload = apdu /\ apdu[2] = 8 /\ SERVICE_WHO_IS = 8
      BY <1>3 DEF apdu, SERVICE_WHO_IS
    <2>2. QED
      BY <1>5, <1>7, <2>1, Zenon DEF service
  <1>9. ServerAnswer(f) = DeviceWhoIs(f)
    BY <1>7, <1>8, Zenon DEF ServerAnswer
  <1> DEFINE answer == i_am(Peer.instance, 389)
  <1>10. CASE Asked(limits)
    <2>1. ServerAnswer(f) = Some(answer)
      BY <1>3, <1>9, <1>10, Zenon DEF DeviceWhoIs
    <2>2. i_am_device_instance(answer) = Some(Peer.instance)
      <3>1. MAX_INSTANCE \in Int
        BY SMT DEF MAX_INSTANCE
      <3>2. Peer.instance \in 0..MAX_INSTANCE-1
        BY PeerAssumption, Zenon
      <3>3. Peer.instance \in Nat /\ Peer.instance <= MAX_INSTANCE
        BY <3>1, <3>2, SMT
      <3>4. QED
        BY <3>3, IAmRoundTrip, ZenonT(60)
    <2> HIDE DEF answer
    <2>3. Given(Some(answer)) /\ Some(answer)[1] = answer
      BY DEF Given, Some, None
    <2>4. QED
      BY <1>10, <2>1, <2>2, <2>3, Zenon DEF AnswersDue, Outcome, Due, Answerable, limits
  <1>11. CASE ~Asked(limits)
    <2>1. ServerAnswer(f) = None
      BY <1>3, <1>9, <1>11, Zenon DEF DeviceWhoIs
    <2>2. ~Given(None)
      BY Zenon DEF Given
    <2>3. QED
      BY <1>11, <2>1, <2>2, Zenon DEF AnswersDue, Answerable, limits
  <1>12. QED
    BY <1>10, <1>11, Zenon

\* A request is answered with what is due.
LEMMA RequestServed ==
    ASSUME NEW m \in Messages, m.kind \in Singles, NEW f, f.network_message = None, f.payload = Encoded(m)
    PROVE  AnswersDue(m, ServerAnswer(f))
  <1>1. CASE m.kind = "who-is"
    BY <1>1, WhoIsAnswered, Zenon
  <1>2. CASE m.kind = "read"
    <2>1. m.kind # "who-is"
      BY <1>2
    <2>2. TellsServed(ServerAnswer(f), m)
      BY <1>2, ReadTaken, ServerTells, Zenon
    <2>3. QED
      BY <2>1, <2>2, Zenon DEF TellsServed, AnswersDue, Outcome, Due, Answerable
  <1>3. QED
    BY <1>1, <1>2, Zenon DEF Singles

\* A read and a Who-Is fit in what is received of a datagram.
LEMMA RequestFits ==
    ASSUME NEW m \in Messages, m.kind \in Singles, NEW r \in Routes
    PROVE  /\ Encoded(m) \in Octets /\ Datagram(m, r) = Carried(npdu(Encoded(m), r), r)
           /\ Len(Datagram(m, r)) \in Nat /\ Len(Datagram(m, r)) <= RECEIVE_SIZE
  <1> DEFINE apdu == Encoded(m)
  <1>1. apdu \in Octets /\ Len(apdu) \in Nat /\ Len(apdu) <= 19
    <2>1. CASE m.kind = "read"
      BY <2>1, ReadShort, Zenon
    <2>2. CASE m.kind = "who-is"
      <3> DEFINE f == [payload |-> apdu]
      <3>1. f.payload = apdu
        OBVIOUS
      <3>2. IsLimits(m.p.limits) /\ apdu = who_is(m.p.limits)
        BY <2>2, WhoIsLimits, Zenon
      <3> HIDE DEF f, apdu
      <3>3. f.payload \in Octets /\ Len(f.payload) <= 12
        BY <3>1, <3>2, WhoIsAsks, Zenon
      <3>4. apdu \in Octets /\ Len(apdu) <= 12
        BY <3>1, <3>3, Zenon
      <3>5. QED
        BY <3>4, OctetsAre
    <2>3. QED
      BY <2>1, <2>2, Zenon DEF Singles
  <1>2. m.kind # "table" /\ m.kind # "networks"
    BY DEF Singles
  <1>3. Datagram(m, r) = Carried(npdu(apdu, r), r)
    BY <1>2, Zenon DEF Datagram, Addressing
  <1> HIDE DEF apdu
  <1>4. Len(Carried(npdu(apdu, r), r)) \in Nat /\ Len(Carried(npdu(apdu, r), r)) <= RECEIVE_SIZE
    <2>1. Unsegmented(apdu)
      BY <1>1, SMT DEF Unsegmented
    <2>2. QED
      BY <1>1, <2>1, ShortFits, Zenon
  <1>5. QED
    BY <1>1, <1>3, <1>4, Zenon DEF apdu

\* The peer's frame holds the request under way.
Arrived == frame.network_message = None /\ frame.payload = Encoded(message)
SingleUnderWay == stage # "idle" /\ message.kind \in Singles
\* The inductive invariant: ReadsWhatIsServed speaks of the result only; it rests on what
\* the peer answered, and that on the request having arrived whole.
ServedParts ==
    /\ stage \in {"received", "answered"} => Arrived
    /\ stage \in {"answered", "silent"} => (stage = "answered" <=> Answerable(message))
    /\ stage = "returned" /\ ~cut => Outcome(message, frame) = Due(message)
    /\ stage = "read" /\ ~cut => result = Due(message)
ServedInv == WireInv /\ (SingleUnderWay => ServedParts)

\* A request arrives whole, and so does its answer if none of it is lost.
LEMMA ServedInvReceive ==
    ASSUME ServedInv, NEW size \in {RECEIVE_SIZE} \cup CutSizes, Receive(size)
    PROVE  ServedInv'
  <1>1. WireInv /\ WireInv'
    BY WireInvReceive DEF ServedInv
  <1>2. /\ stage \in {"sent", "answered"}
        /\ stage' = IF stage = "sent" THEN "received" ELSE "returned"
        /\ frame' = Frame(Slice(wire, 1, size)) /\ message' = message /\ route' = route
        /\ cut' = (Len(wire) > size)
    BY Zenon DEF Receive
  <1>3. SUFFICES ASSUME message.kind \in Singles PROVE ServedParts'
    BY <1>1, <1>2, Zenon DEF ServedInv, SingleUnderWay
  <1>4. message \in Messages /\ route \in Routes
    BY <1>1, <1>2 DEF WireInv
  <1>5. size = RECEIVE_SIZE
    <2>1. message.kind # "multiple ack" /\ message.kind # "read multiple"
      <3>1. \A kind \in Singles : kind # "multiple ack" /\ kind # "read multiple"
        BY Zenon DEF Singles
      <3>2. QED
        BY <1>3, <3>1, Zenon
    <2>2. <<stage, message.kind>> \notin {<<"sent", "multiple ack">>, <<"answered", "read multiple">>}
      BY <2>1, Zenon
    <2>3. QED
      BY <2>2, Zenon DEF Receive
  <1> DEFINE f == Frame(Slice(wire, 1, size))
  <1>6. CASE stage = "sent"
    <2>1. wire = Datagram(message, route) /\ stage' = "received"
      BY <1>1, <1>2, <1>6 DEF WireInv
    <2> DEFINE payload == Encoded(message)
    <2>2. /\ payload \in Octets /\ wire = Carried(npdu(payload, route), route)
          /\ Len(wire) <= RECEIVE_SIZE
      BY <1>3, <1>4, <2>1, RequestFits, Zenon
    <2> HIDE DEF payload
    <2>3. ReadBack(wire, size, payload, route)
      BY <1>4, <2>2, FrameRoundTrip
    <2>4. f.network_message = None /\ f.payload = payload
      BY <1>5, <2>2, <2>3, Zenon DEF ReadBack
    <2> HIDE DEF f
    <2>5. Arrived'
      <3>1. frame' = f /\ Encoded(message)' = payload
        BY <1>2 DEF f, payload
      <3>2. QED
        BY <2>4, <3>1, Zenon DEF Arrived
    <2>6. QED
      BY <2>1, <2>5 DEF ServedParts
  <1>7. CASE stage = "answered"
    <2> DEFINE apdu == ServerAnswer(frame)[1]
    <2>1. stage' = "returned"
      BY <1>2, <1>7
    <2>2. FromSource /\ Given(ServerAnswer(frame)) /\ wire = Reply(frame, apdu)
      BY <1>1, <1>7 DEF WireInv
    <2>3. Arrived
      BY <1>3, <1>7 DEF ServedInv, SingleUnderWay, ServedParts
    <2>4. AnswersDue(message, ServerAnswer(frame))
      BY <1>3, <1>4, <2>3, RequestServed, Zenon DEF Arrived
    <2>5. apdu \in Octets
      BY <2>2, AnswerOctets DEF FromSource
    <2>6. f.network_message = None => (f.payload = apdu => Outcome(message, f) = Due(message))
      BY <2>2, <2>4, Zenon DEF AnswersDue
    <2> HIDE DEF apdu
    <2>7. f.network_message = None /\ wire \in Octets /\ (Len(wire) <= size => f.payload = apdu)
      <3>1. AsReplied(wire, size, apdu, route)
        BY <1>4, <2>2, <2>5, ReplyReads, Zenon DEF FromSource
      <3>2. QED
        BY <3>1, Zenon DEF AsReplied
    <2>8. ~cut' => Len(wire) <= size
      <3>1. Len(wire) \in Nat /\ size \in Nat
        BY <1>4, <2>7, OctetsAre, Sizes, Zenon
      <3>2. ~(Len(wire) > size) => Len(wire) <= size
        BY <3>1
      <3>3. QED
        BY <1>2, <3>2, Zenon
    <2>9. ~cut' => Outcome(message, f) = Due(message)
      BY <2>6, <2>7, <2>8, Zenon
    <2>10. Outcome(message, frame)' = Outcome(message, f) /\ Due(message)' = Due(message)
      BY <1>2
    <2> HIDE DEF f
    <2>11. QED
      BY <2>1, <2>9, <2>10 DEF ServedParts
  <1>8. QED
    BY <1>2, <1>6, <1>7, Zenon

\* The peer answers what is due, and the client reads it.
LEMMA ServedInvOthers ==
    ASSUME ServedInv, [WireNext]_wireVars,
           \A size \in {RECEIVE_SIZE} \cup CutSizes : ~Receive(size)
    PROVE  ServedInv'
  <1>1. WireInv /\ WireInv'
    BY WireInvSend, WireInvReceive, WireInvAnswer, WireInvOthers DEF WireNext, ServedInv
  <1>2. SUFFICES ASSUME SingleUnderWay' PROVE ServedParts'
    BY <1>1, Zenon DEF ServedInv
  <1>3. ASSUME NEW m \in Messages, NEW r \in Routes, Send(m, r) PROVE ServedParts'
    <2>1. stage' = "sent"
      BY <1>3 DEF Send
    <2>2. QED
      BY <2>1 DEF ServedParts
  <1>4. CASE Decode
    <2>1. stage' = "decoded"
      BY <1>4, Zenon DEF Decode
    <2>2. QED
      BY <2>1 DEF ServedParts
  <1>5. CASE Answer
    <2> DEFINE answer == ServerAnswer(frame)
    <2>1. /\ stage = "received" /\ message' = message /\ frame' = frame
          /\ stage' = IF Given(answer) THEN "answered" ELSE "silent"
      BY <1>5, Zenon DEF Answer
    <2>2. message.kind \in Singles
      BY <1>2, <2>1, Zenon DEF SingleUnderWay
    <2>3. Arrived /\ message \in Messages
      BY <1>1, <2>1, <2>2 DEF ServedInv, SingleUnderWay, ServedParts, WireInv
    <2>4. Given(answer) <=> Answerable(message)
      BY <2>2, <2>3, RequestServed, Zenon DEF Arrived, AnswersDue
    <2>5. Arrived'
      BY <2>1, <2>3 DEF Arrived
    <2>6. Answerable(message)' <=> Answerable(message)
      BY <2>1
    <2> HIDE DEF answer
    <2>7. QED
      BY <2>1, <2>4, <2>5, <2>6 DEF ServedParts
  <1>6. CASE Read
    <2>1. /\ stage = "returned" /\ stage' = "read" /\ message' = message /\ cut' = cut /\ frame' = frame
          /\ result' = CASE message.kind = "read multiple" -> parse_read_property_multiple_ack(frame)
                         [] message.kind = "who-is" -> i_am_device_instance(frame.payload)
                         [] OTHER -> [value |-> value_octets(frame), error |-> error(frame),
                                      abort |-> abort_reason(frame), id |-> invoke_id(frame)]
      BY <1>6, Zenon DEF Read
    <2>2. message.kind \in Singles
      BY <1>2, <2>1, Zenon DEF SingleUnderWay
    <2>3. ~cut => Outcome(message, frame) = Due(message)
      BY <2>1, <2>2 DEF ServedInv, SingleUnderWay, ServedParts
    <2>4. result' = Outcome(message, frame)
      <3>1. message.kind # "read multiple" /\ (message.kind = "read" => message.kind # "who-is")
        <4>1. \A kind \in Singles : kind # "read multiple" /\ (kind = "read" => kind # "who-is")
          BY Zenon DEF Singles
        <4>2. QED
          BY <2>2, <4>1, Zenon
      <3>2. CASE message.kind = "who-is"
        BY <2>1, <3>1, <3>2, Zenon DEF Outcome
      <3>3. CASE message.kind # "who-is"
        BY <2>1, <3>1, <3>3, Zenon DEF Outcome, ClientReads
      <3>4. QED
        BY <3>2, <3>3, Zenon
    <2>5. Due(message)' = Due(message)
      BY <2>1
    <2>6. QED
      BY <2>1, <2>3, <2>4, <2>5 DEF ServedParts
  <1>7. CASE Finish
    <2>1. stage' = "idle"
      BY <1>7, Zenon DEF Finish
    <2>2. QED
      BY <1>2, <2>1 DEF SingleUnderWay
  <1>8. CASE UNCHANGED wireVars
    <2>1. /\ stage' = stage /\ message' = message /\ route' = route /\ wire' = wire /\ cut' = cut
          /\ frame' = frame /\ result' = result
      BY <1>8 DEF wireVars
    <2>2. SingleUnderWay /\ ServedParts
      BY <1>2, <2>1, Zenon DEF SingleUnderWay, ServedInv
    <2>3. ServedParts' <=> ServedParts
      BY <2>1 DEF ServedParts, Arrived
    <2>4. QED
      BY <2>2, <2>3, Zenon
  <1>9. QED
    BY <1>3, <1>4, <1>5, <1>6, <1>7, <1>8 DEF WireNext

\* peer.py: for every read and Who-Is of the wire tests, however it is addressed and
\* carried and whatever the simulated server serves: the client reads the whole value, the
\* element asked for, the length of the array or the error the server documents, if no part
\* of the answer is lost; a Who-Is brings an I-Am exactly when the instance is in its range.
THEOREM SinglesReadWhatIsServed == WireSpec => [](SingleUnderWay => ReadsWhatIsServed)
  <1>1. WireInit => ServedInv
    BY WireInvInit DEF WireInit, ServedInv, SingleUnderWay
  <1>2. ServedInv /\ [WireNext]_wireVars => ServedInv'
    BY ServedInvReceive, ServedInvOthers
  <1>3. ServedInv => (SingleUnderWay => ReadsWhatIsServed)
    <2>1. SUFFICES ASSUME ServedParts, SingleUnderWay PROVE ReadsWhatIsServed
      BY Zenon DEF ServedInv
    <2>2. message.kind = "read" \/ message.kind = "who-is"
      BY <2>1, Zenon DEF SingleUnderWay, Singles
    <2>3. ASSUME stage = "read", ~cut
          PROVE  CASE message.kind = "read" -> result = Served(message)
                   [] message.kind = "read multiple" ->
                        WholeProperties(message.p.specs) => result = Some(ServedEach(message))
                   [] message.kind = "who-is" -> result = Some(Peer.instance)
      <3>1. result = Due(message)
        BY <2>1, <2>3 DEF ServedParts
      <3>2. CASE message.kind = "read"
        BY <3>1, <3>2, Zenon DEF Due
      <3>3. CASE message.kind = "who-is"
        BY <3>1, <3>3, Zenon DEF Due
      <3>4. QED
        BY <2>2, <3>2, <3>3
    <2>4. ASSUME stage \in {"silent", "answered"}, message.kind = "who-is"
          PROVE  stage = "silent" <=> \E l \in ToSet(message.p.limits) :
                                         ~(l[1] <= Peer.instance /\ Peer.instance <= l[2])
      <3>1. stage = "answered" <=> Answerable(message)
        BY <2>1, <2>4 DEF ServedParts
      <3>2. Answerable(message) <=> Asked(message.p.limits)
        BY <2>4, Zenon DEF Answerable
      <3>3. stage = "silent" <=> ~(stage = "answered")
        BY <2>4
      <3>4. QED
        BY <3>1, <3>2, <3>3, Zenon DEF Asked
    <2>5. QED
      BY <2>3, <2>4, Zenon DEF ReadsWhatIsServed
  <1>4. QED
    BY <1>1, <1>2, <1>3, PTL DEF WireSpec

-----------------------------------------------------------------------------
(* Messages of a fixed form are read as they were meant                     *)

\* A Reject: the client has its reason.
LEMMA RejectSays ==
    ASSUME NEW id \in Octet, NEW reason \in Octet, NEW g, g.network_message = None,
           g.payload = reject_pdu(id, reason)
    PROVE  reject_reason(g) = Some(reason) /\ invoke_id(g) = Some(id) /\ g.payload \in Octets
  <1> DEFINE apdu == <<96, id, reason>>
  <1>1. g.payload = apdu
    BY DEF reject_pdu, PDU_REJECT
  <1>2. apdu \in Octets /\ Len(apdu) = 3 /\ apdu[1] = 96 /\ apdu[2] = id /\ apdu[3] = reason
    <2>1. 96 \in Octet
      BY OctetIs
    <2>2. apdu \in Octets
      BY <2>1, HeaderOctets
    <2>3. QED
      BY <2>2
  <1> HIDE DEF apdu
  <1>3. apdu[1] \div 16 = 6 /\ Len(apdu) >= 1 /\ Len(apdu) >= 3
    BY <1>2
  <1>4. \A types : IsPdu(g, types) <=> 6 \in types
    <2>1. g.payload \in Octets /\ Len(g.payload) >= 1 /\ g.payload[1] \div 16 = 6
      BY <1>1, <1>2, <1>3
    <2>2. QED
      BY <2>1, PduIs, Zenon
  <1>5. IsPdu(g, {PDU_REJECT}) /\ IsPdu(g, Answers)
    <2>1. 6 \in {PDU_REJECT} /\ 6 \in Answers
      BY DEF PDU_REJECT, Answers
    <2>2. QED
      BY <1>4, <2>1, Zenon
  <1>6. g.payload[2] = id /\ Len(g.payload) >= 3 /\ g.payload[3] = reason /\ g.payload \in Octets
    BY <1>1, <1>2, <1>3, Zenon
  <1>7. QED
    BY <1>5, <1>6, Zenon DEF reject_reason, Reason, invoke_id

\* What is read in an answer that refuses, with its invoke id.
Refusals == {"error", "reject", "abort"}
\* An answer that refuses is decoded to what was meant, with its invoke id.
LEMMA RefusalRead ==
    ASSUME NEW m \in Messages, m.kind \in Refusals, NEW g, g.network_message = None, g.payload = Encoded(m)
    PROVE  Decoded(m.kind, g) = Meant(m) /\ invoke_id(g) = Some(m.id) /\ g.payload \in Octets
  <1>1. m.id \in Octet
    BY AnswersAssumption, Zenon DEF Refusals
  <1>2. CASE m.kind = "error"
    <2> DEFINE class == m.p.error[1]
               code == m.p.error[2]
    <2>1. m.p.error \in Nat \X Nat /\ Unsigned32(class) /\ Unsigned32(code)
      BY <1>2, AnswersAssumption, Zenon
    <2>2. class \in Nat /\ code \in Nat /\ m.p.error = <<class, code>>
      BY <2>1
    <2>3. Fits(class, 4) /\ Fits(code, 4)
      <3>1. ASSUME NEW n \in Nat, Unsigned32(n) PROVE Fits(n, 4)
        <4>1. n < 4294967296
          BY <3>1, SMT DEF Unsigned32
        <4>2. QED
          BY <4>1, SMT DEF Fits
      <3>2. QED
        BY <2>1, <2>2, <3>1, Zenon
    <2>4. g.payload = error_pdu(m.id, SERVICE_READ_PROPERTY, class, code)
      BY <1>2, Zenon DEF Encoded, SERVICE_READ_PROPERTY
    <2> HIDE DEF class, code
    <2>5. ClientReads(g) = Says(m.id, None, Some(<<class, code>>), None) /\ g.payload \in Octets
      BY <1>1, <2>2, <2>3, <2>4, ErrorSays, Zenon
    <2>6. error(g) = Some(<<class, code>>) /\ invoke_id(g) = Some(m.id)
      BY <2>5 DEF ClientReads, Says
    <2>7. Meant(m) = Some(m.p.error) /\ Decoded(m.kind, g) = error(g)
      BY <1>2, Zenon DEF Meant, Decoded
    <2>8. QED
      BY <2>2, <2>5, <2>6, <2>7, Zenon
  <1>3. CASE m.kind \in {"reject", "abort"}
    <2>1. m.p.reason \in Octet
      BY <1>3, AnswersAssumption, Zenon
    <2>2. Meant(m) = Some(m.p.reason)
      BY <1>3, Zenon DEF Meant
    <2>3. CASE m.kind = "reject"
      <3>1. g.payload = reject_pdu(m.id, m.p.reason) /\ Decoded(m.kind, g) = reject_reason(g)
        BY <2>3, Zenon DEF Encoded, Decoded
      <3>2. QED
        BY <1>1, <2>1, <2>2, <3>1, RejectSays, ZenonT(60)
    <2>4. CASE m.kind = "abort"
      <3>1. g.payload = abort_pdu(m.id, m.p.reason) /\ Decoded(m.kind, g) = abort_reason(g)
        BY <2>4, Zenon DEF Encoded, Decoded
      <3>2. ClientReads(g) = Says(m.id, None, None, Some(m.p.reason)) /\ g.payload \in Octets
        BY <1>1, <2>1, <3>1, AbortSays, Zenon
      <3>3. abort_reason(g) = Some(m.p.reason) /\ invoke_id(g) = Some(m.id)
        BY <3>2 DEF ClientReads, Says
      <3>4. QED
        BY <2>2, <3>1, <3>2, <3>3, Zenon
    <2>5. QED
      BY <1>3, <2>3, <2>4, Zenon
  <1>4. QED
    BY <1>2, <1>3, Zenon DEF Refusals

\* An answer that carries a value is read as that value.
LEMMA AckRead ==
    ASSUME NEW m \in Messages, m.kind = "ack", NEW g, g.network_message = None, g.payload = Encoded(m)
    PROVE  Decoded(m.kind, g) = Meant(m) /\ g.payload \in Octets
  <1> DEFINE p == m.p
             value == p.value
             tags == Tags(value, 1)
  <1>1. m.id \in Octet /\ Referable(p) /\ value \in Octets /\ Enclosable(value)
    BY AnswersAssumption, Zenon
  <1>2. /\ g.payload = read_property_ack(m.id, p.object, p.property, p.array_index, value)
        /\ Meant(m) = Some(value) /\ Decoded(m.kind, g) = value_octets(g)
    BY Zenon DEF Encoded, Meant, Decoded
  <1> HIDE DEF p, value
  <1>3. /\ \A i \in 1..Len(tags) : tags[i].kind # "raise" /\ tags[i].next <= Len(value) + 1
        /\ Nesting(tags, 1, Len(tags)) = 0 /\ \A k \in 0..Len(tags) : Nesting(tags, 1, k) >= 0
    BY <1>1, Zenon DEF Enclosable
  <1>4. Whole(value, 1)
    <2>1. Raised.kind = "raise"
      BY DEF Raised
    <2>2. QED
      BY <1>3, <2>1, Zenon DEF Whole
  <1>5. Balanced(Tags(value, 1), Len(Tags(value, 1)))
    BY <1>3, Zenon DEF Balanced
  <1>6. Readable(p)
    BY <1>1, ReferableReadable, Zenon
  <1>7. ClientReads(g) = Says(m.id, Some(value), None, None) /\ g.payload \in Octets
    BY <1>1, <1>2, <1>4, <1>5, <1>6, AckReads, Zenon
  <1>8. value_octets(g) = Some(value)
    BY <1>7 DEF ClientReads, Says
  <1>9. QED
    BY <1>2, <1>7, <1>8, Zenon

\* The messages of a fixed form: one list at most, and that a value's.
FixedForm == {"read", "ack", "i-am"} \cup Refusals
\* Such a message is decoded to what was meant.
LEMMA FixedRead ==
    ASSUME NEW m \in Messages, m.kind \in FixedForm, NEW g, g.network_message = None, g.payload = Encoded(m)
    PROVE  Decoded(m.kind, g) = Meant(m) /\ g.payload \in Octets
  <1>1. CASE m.kind = "read"
    <2>1. parse_read_property_request(Encoded(m)) = Some(m.p) /\ Encoded(m) \in Octets
      BY <1>1, ReadMeant, ReadShort, Zenon
    <2>2. Decoded(m.kind, g) = parse_read_property_request(g.payload) /\ Meant(m) = Some(m.p)
      BY <1>1, Zenon DEF Decoded, Meant
    <2>3. QED
      BY <2>1, <2>2, Zenon
  <1>2. CASE m.kind = "i-am"
    <2>1. m.p.instance \in Nat /\ m.p.instance <= MAX_INSTANCE
      BY <1>2, AnswersAssumption, Zenon
    <2>2. g.payload = i_am(m.p.instance, 389)
      BY <1>2, SMT DEF Encoded
    <2>3. Meant(m) = Some(m.p.instance) /\ Decoded(m.kind, g) = i_am_device_instance(g.payload)
      BY <1>2, Zenon DEF Decoded, Meant
    <2> DEFINE apdu == i_am(m.p.instance, 389)
    <2>4. apdu \in Octets /\ i_am_device_instance(apdu) = Some(m.p.instance)
      BY <2>1, IAmRoundTrip, Zenon
    <2> HIDE DEF apdu
    <2>5. g.payload = apdu
      BY <2>2, SMT DEF apdu
    <2>6. QED
      BY <2>3, <2>4, <2>5, Zenon
  <1>3. QED
    BY <1>1, <1>2, AckRead, RefusalRead, Zenon DEF FixedForm

\* A message under way: the receiver's frame is addressed as the message was routed and,
\* when nothing of the datagram was lost, holds what was encoded.
AsSent ==
    /\ \A field \in DOMAIN Plain : frame[field] = route[field]
    /\ ~cut => frame.payload = Encoded(message)
\* The inductive invariant: RoundTrip speaks of the decoded result only; it rests on
\* the frame the result was read in.
SentParts ==
    /\ stage \in {"received", "decoded"} => AsSent
    /\ stage = "decoded" => result = Decoded(message.kind, frame)
AnApdu(m) == Encoded(m) \in Octets /\ m.kind # "table" /\ m.kind # "networks"
ApduUnderWay == stage # "idle" /\ AnApdu(message)
SentInv == WireInv /\ (ApduUnderWay => SentParts)

\* A message that is an APDU arrives as it was sent.
LEMMA SentInvReceive ==
    ASSUME SentInv, NEW size \in {RECEIVE_SIZE} \cup CutSizes, Receive(size)
    PROVE  SentInv'
  <1>1. WireInv /\ WireInv'
    BY WireInvReceive DEF SentInv
  <1>2. /\ stage \in {"sent", "answered"}
        /\ stage' = IF stage = "sent" THEN "received" ELSE "returned"
        /\ frame' = Frame(Slice(wire, 1, size)) /\ message' = message /\ route' = route
        /\ cut' = (Len(wire) > size)
    BY Zenon DEF Receive
  <1>3. SUFFICES ASSUME AnApdu(message) PROVE SentParts'
    BY <1>1, <1>2, Zenon DEF SentInv, ApduUnderWay
  <1>4. CASE stage = "sent"
    <2>1. /\ message \in Messages /\ route \in Routes /\ wire = Datagram(message, route)
          /\ stage' = "received"
      BY <1>1, <1>2, <1>4 DEF WireInv
    <2> DEFINE payload == Encoded(message)
    <2>2. payload \in Octets
      BY <1>3, Zenon DEF AnApdu
    <2>3. wire = Carried(npdu(payload, route), route)
      BY <1>3, <2>1, Zenon DEF AnApdu, Datagram, Addressing
    <2> HIDE DEF payload
    <2>4. ReadBack(wire, size, payload, route)
      BY <2>1, <2>2, <2>3, FrameRoundTrip
    <2> DEFINE f == Frame(Slice(wire, 1, size))
    <2>5. /\ f.dnet = route.dnet /\ f.dadr = route.dadr /\ f.snet = route.snet /\ f.sadr = route.sadr
          /\ f.expecting_reply = route.expecting_reply /\ f.network_message = None
          /\ wire \in Octets /\ (Len(wire) <= size => f.payload = payload)
      BY <2>4, Zenon DEF ReadBack
    <2> HIDE DEF f
    <2>6. \A field \in DOMAIN Plain : f[field] = route[field]
      <3>1. route.network_message = None
        BY <2>1, RoutesAssumption, Zenon
      <3>2. DOMAIN Plain = {"network_message", "dnet", "dadr", "snet", "sadr", "expecting_reply"}
        BY DEF Plain
      <3>3. QED
        BY <2>5, <3>1, <3>2
    <2>7. ~cut' => f.payload = payload
      <3>1. Len(wire) \in Nat /\ size \in Nat
        BY <2>1, <2>5, OctetsAre, Sizes, Zenon
      <3>2. ~(Len(wire) > size) => Len(wire) <= size
        BY <3>1
      <3>3. QED
        BY <1>2, <2>5, <3>2, Zenon
    <2>8. AsSent'
      <3>1. frame' = f /\ Encoded(message)' = payload
        BY <1>2 DEF f, payload
      <3>2. QED
        BY <1>2, <2>6, <2>7, <3>1 DEF AsSent
    <2>9. QED
      BY <2>1, <2>8 DEF SentParts
  <1>5. CASE stage = "answered"
    <2>1. stage' = "returned"
      BY <1>2, <1>5
    <2>2. QED
      BY <2>1 DEF SentParts
  <1>6. QED
    BY <1>2, <1>4, <1>5, Zenon

\* The other steps leave the frame as it is, or forget it.
LEMMA SentInvOthers ==
    ASSUME SentInv, [WireNext]_wireVars,
           \A size \in {RECEIVE_SIZE} \cup CutSizes : ~Receive(size)
    PROVE  SentInv'
  <1>1. WireInv /\ WireInv'
    BY WireInvSend, WireInvReceive, WireInvAnswer, WireInvOthers DEF WireNext, SentInv
  <1>2. SUFFICES ASSUME ApduUnderWay' PROVE SentParts'
    BY <1>1, Zenon DEF SentInv
  <1>3. ASSUME NEW m \in Messages, NEW r \in Routes, Send(m, r) PROVE SentParts'
    <2>1. stage' = "sent"
      BY <1>3 DEF Send
    <2>2. QED
      BY <2>1 DEF SentParts
  <1>4. CASE Decode
    <2>1. /\ stage = "received" /\ stage' = "decoded" /\ result' = Decoded(message.kind, frame)
          /\ message' = message /\ route' = route /\ cut' = cut /\ frame' = frame
      BY <1>4, Zenon DEF Decode
    <2>2. ApduUnderWay
      BY <1>2, <2>1, Zenon DEF ApduUnderWay
    <2>3. AsSent
      BY <2>1, <2>2 DEF SentInv, SentParts
    <2>4. AsSent' <=> AsSent
      BY <2>1 DEF AsSent
    <2>5. Decoded(message.kind, frame)' = Decoded(message.kind, frame)
      BY <2>1
    <2>6. QED
      BY <2>1, <2>3, <2>4, <2>5, Zenon DEF SentParts
  <1>5. CASE Answer
    <2>1. stage' = "answered" \/ stage' = "silent"
      BY <1>5, Zenon DEF Answer
    <2>2. QED
      BY <2>1 DEF SentParts
  <1>6. CASE Read
    <2>1. stage' = "read"
      BY <1>6, Zenon DEF Read
    <2>2. QED
      BY <2>1 DEF SentParts
  <1>7. CASE Finish
    <2>1. stage' = "idle"
      BY <1>7, Zenon DEF Finish
    <2>2. QED
      BY <1>2, <2>1 DEF ApduUnderWay
  <1>8. CASE UNCHANGED wireVars
    <2>1. /\ stage' = stage /\ message' = message /\ route' = route /\ wire' = wire /\ cut' = cut
          /\ frame' = frame /\ result' = result
      BY <1>8 DEF wireVars
    <2>2. ApduUnderWay /\ SentParts
      BY <1>2, <2>1, Zenon DEF ApduUnderWay, SentInv
    <2>3. SentParts' <=> SentParts
      BY <2>1 DEF SentParts, AsSent
    <2>4. QED
      BY <2>2, <2>3, Zenon
  <1>9. QED
    BY <1>3, <1>4, <1>5, <1>6, <1>7, <1>8 DEF WireNext

\* So it is in every behaviour.
LEMMA SentInvHolds == WireSpec => []SentInv
  <1>1. WireInit => SentInv
    BY WireInvInit DEF WireInit, SentInv, ApduUnderWay
  <1>2. SentInv /\ [WireNext]_wireVars => SentInv'
    BY SentInvReceive, SentInvOthers
  <1>3. QED
    BY <1>1, <1>2, PTL DEF WireSpec

\* A message that arrived as it was sent is read as it was meant if its octets are.
LEMMA SentRoundTrip ==
    ASSUME SentInv, stage # "idle", AnApdu(message),
           ASSUME NEW g, g.network_message = None, g.payload = Encoded(message)
           PROVE  Decoded(message.kind, g) = Meant(message)
    PROVE  RoundTrip
  <1>1. SUFFICES ASSUME stage = "decoded", ~cut
                 PROVE  /\ result = Meant(message)
                        /\ \A field \in DOMAIN Plain : frame[field] = Addressing(message, route)[field]
    BY Zenon DEF RoundTrip
  <1>2. message \in Messages /\ route \in Routes
    BY DEF SentInv, WireInv
  <1>3. AsSent /\ result = Decoded(message.kind, frame)
    BY <1>1 DEF SentInv, SentParts, ApduUnderWay
  <1>4. frame.network_message = None /\ frame.payload = Encoded(message)
    <2>1. "network_message" \in DOMAIN Plain
      BY DEF Plain
    <2>2. route.network_message = None
      BY <1>2, RoutesAssumption, Zenon
    <2>3. QED
      BY <1>1, <1>3, <2>1, <2>2 DEF AsSent
  <1>5. result = Meant(message)
    BY <1>3, <1>4, Zenon
  <1>6. Addressing(message, route) = route
    BY Zenon DEF AnApdu, Addressing
  <1>7. QED
    BY <1>3, <1>5, <1>6, Zenon DEF AsSent

FixedUnderWay == stage # "idle" /\ message.kind \in FixedForm
\* What is decoded from a read, a ReadProperty-ACK, an Error, a Reject, an Abort or an
\* I-Am, whatever it says and however it is addressed and carried, is what was given to its
\* encoder, in a frame addressed as npdu() was asked to; the value of an ACK may hold
\* constructed values of any depth.
THEOREM FixedRoundTrip == WireSpec => [](FixedUnderWay => RoundTrip)
  <1>1. SentInv => (FixedUnderWay => RoundTrip)
    <2>1. SUFFICES ASSUME SentInv, FixedUnderWay PROVE RoundTrip
      OBVIOUS
    <2>2. message \in Messages /\ message.kind \in FixedForm /\ stage # "idle"
      BY <2>1, Zenon DEF SentInv, WireInv, FixedUnderWay
    <2>3. AnApdu(message)
      <3> DEFINE g == [network_message |-> None, payload |-> Encoded(message)]
      <3>1. g.network_message = None /\ g.payload = Encoded(message)
        OBVIOUS
      <3> HIDE DEF g
      <3>2. Encoded(message) \in Octets
        BY <2>2, <3>1, FixedRead, Zenon
      <3>3. \A kind \in FixedForm : kind # "table" /\ kind # "networks"
        BY Zenon DEF FixedForm, Refusals
      <3>4. QED
        BY <2>2, <3>2, <3>3, Zenon DEF AnApdu
    <2>4. ASSUME NEW g, g.network_message = None, g.payload = Encoded(message)
          PROVE  Decoded(message.kind, g) = Meant(message)
      BY <2>2, <2>4, FixedRead, Zenon
    <2>5. QED
      BY <2>1, <2>2, <2>3, <2>4, SentRoundTrip, Zenon
  <1>2. QED
    BY <1>1, SentInvHolds, PTL

\* Two refusals that look alike are the same.
LEMMA RefusalsDiffer ==
    ASSUME NEW m \in Messages, m.kind \in Refusals, NEW other \in Messages, other.kind = m.kind,
           Encoded(other) = Encoded(m)
    PROVE  other = m
  <1> DEFINE g == [network_message |-> None, payload |-> Encoded(m)]
  <1>1. g.network_message = None /\ g.payload = Encoded(m) /\ g.payload = Encoded(other)
    OBVIOUS
  <1> HIDE DEF g
  <1>2. Decoded(m.kind, g) = Meant(m) /\ invoke_id(g) = Some(m.id)
    BY <1>1, RefusalRead, Zenon
  <1>3. Decoded(m.kind, g) = Meant(other) /\ invoke_id(g) = Some(other.id)
    BY <1>1, RefusalRead, Zenon
  <1>4. Meant(m) = Meant(other) /\ m.id = other.id
    BY <1>2, <1>3 DEF Some
  <1>5. CASE m.kind = "error"
    <2>1. m = [kind |-> "error", id |-> m.id, p |-> [error |-> m.p.error]]
      BY <1>5, AnswersAssumption, Zenon
    <2>2. other = [kind |-> "error", id |-> other.id, p |-> [error |-> other.p.error]]
      BY <1>5, AnswersAssumption, Zenon
    <2>3. Meant(m) = Some(m.p.error) /\ Meant(other) = Some(other.p.error)
      BY <1>5, Zenon DEF Meant
    <2>4. m.p.error = other.p.error
      <3>1. Some(m.p.error) = Some(other.p.error)
        BY <1>4, <2>3, Zenon
      <3>2. QED
        BY <3>1 DEF Some
    <2>5. QED
      BY <1>4, <2>1, <2>2, <2>4
  <1>6. CASE m.kind \in {"reject", "abort"}
    <2>1. m = [kind |-> m.kind, id |-> m.id, p |-> [reason |-> m.p.reason]]
      BY <1>6, AnswersAssumption, Zenon
    <2>2. other = [kind |-> other.kind, id |-> other.id, p |-> [reason |-> other.p.reason]]
      BY <1>6, AnswersAssumption, Zenon
    <2>3. Meant(m) = Some(m.p.reason) /\ Meant(other) = Some(other.p.reason)
      BY <1>6, Zenon DEF Meant
    <2>4. m.p.reason = other.p.reason
      <3>1. Some(m.p.reason) = Some(other.p.reason)
        BY <1>4, <2>3, Zenon
      <3>2. QED
        BY <3>1 DEF Some
    <2>5. m.kind = other.kind
      OBVIOUS
    <2>6. QED
      BY <1>4, <2>1, <2>2, <2>4, <2>5
  <1>7. QED
    BY <1>5, <1>6, Zenon DEF Refusals

DistinctForm == {"read"} \cup Refusals
\* No two reads look alike on the wire, and no two refusals: the receiver can tell a missing
\* array index, a shorter number, another object, reason or invoke id from what was meant.
THEOREM FixedUnambiguous ==
    WireSpec => [](stage # "idle" /\ message.kind \in DistinctForm => Unambiguous)
  <1>1. WireInv => (stage # "idle" /\ message.kind \in DistinctForm => Unambiguous)
    <2>1. SUFFICES ASSUME WireInv, stage # "idle", message.kind \in DistinctForm PROVE Unambiguous
      OBVIOUS
    <2>2. message \in Messages
      BY <2>1 DEF WireInv
    <2>3. ASSUME NEW other \in Messages, other.kind = message.kind, Encoded(other) = Encoded(message)
          PROVE  other = message
      BY <2>1, <2>2, <2>3, ReadsDiffer, RefusalsDiffer, Zenon DEF DistinctForm
    <2>4. QED
      BY <2>3, Zenon DEF Unambiguous
  <1>2. QED
    BY <1>1, WireInvHolds, PTL

ReadUnderWay == stage # "idle" /\ message.kind = "read"
\* The request of every read is octets and a complete sequence of tags: no number is wider
\* than its place and no tag is cut short or runs over.
THEOREM ReadsWellFormed == WireSpec => [](ReadUnderWay => WellFormed)
  <1>1. WireInv => (ReadUnderWay => WellFormed)
    <2>1. SUFFICES ASSUME WireInv, ReadUnderWay PROVE WellFormed
      OBVIOUS
    <2>2. message \in Messages /\ message.kind = "read"
      BY <2>1 DEF WireInv, ReadUnderWay
    <2>3. QED
      BY <2>2, ReadComplete, Zenon DEF WellFormed
  <1>2. QED
    BY <1>1, WireInvHolds, PTL
=============================================================================
