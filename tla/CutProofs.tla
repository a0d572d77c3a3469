----------------------------- MODULE CutProofs -----------------------------
(***************************************************************************)
(* Answers about several properties, for every message, address and        *)
(* simulated server: what a ReadPropertyMultiple and its acknowledgement   *)
(* say, that an answer of which the end is lost never gives the client a   *)
(* wrong result, and that one that arrives whole gives every result.       *)
(***************************************************************************)
EXTENDS WireProofs

-----------------------------------------------------------------------------
(* An answer whose end was lost                                            *)

\* Of n octets that arrived, s is a tag and t the same one of all that was sent: the
\* headers are the same, the contents too unless they run over, and only a value can.
TagAgrees(t, s, n) ==
    /\ SameHeader(t, s, 0) /\ s.start <= n
    /\ s.kind # "value" => s.next <= n + 1
    /\ s.next <= n + 1 => t = s
\* The tags of the part are the first ones of the whole, and only the last runs over.
Agree(part, all, n) ==
    /\ Len(part) <= Len(all)
    /\ \A i \in 1..Len(part) : TagAgrees(all[i], part[i], n)
    /\ \A i \in 1..Len(part) : i < Len(part) => part[i].next <= n + 1

\* One more tag before the others.
LEMMA AgreeStep ==
    ASSUME NEW A, NEW B, NEW part \in Seq(A), NEW all \in Seq(B), NEW n \in Nat,
           NEW s \in A, NEW t \in B, TagAgrees(t, s, n), Agree(part, all, n),
           part = <<>> \/ s.next <= n + 1
    PROVE  Agree(<<s>> \o part, <<t>> \o all, n)
  <1> DEFINE p == <<s>> \o part
             a == <<t>> \o all
  <1>1. /\ Len(p) = 1 + Len(part) /\ p[1] = s /\ \A i \in 1..Len(part) : p[1 + i] = part[i]
        /\ Len(a) = 1 + Len(all) /\ a[1] = t /\ \A i \in 1..Len(all) : a[1 + i] = all[i]
        /\ Len(part) \in Nat /\ Len(all) \in Nat
    OBVIOUS
  <1> HIDE DEF p, a
  <1>2. Len(part) <= Len(all)
    BY DEF Agree
  <1>3. Len(p) <= Len(a)
    BY <1>1, <1>2
  <1>4. ASSUME NEW i \in 1..Len(p)
        PROVE  TagAgrees(a[i], p[i], n) /\ (i < Len(p) => p[i].next <= n + 1)
    <2>1. CASE i = 1
      <3>1. TagAgrees(a[i], p[i], n)
        BY <1>1, <2>1, Zenon
      <3>2. i < Len(p) => part # <<>>
        BY <1>1, <2>1
      <3>3. QED
        BY <1>1, <2>1, <3>1, <3>2, Zenon
    <2>2. CASE i # 1
      <3> DEFINE j == i - 1
      <3>1. j \in 1..Len(part) /\ j \in 1..Len(all) /\ i = 1 + j /\ (i < Len(p) => j < Len(part))
        BY <1>1, <1>2, <1>4, <2>2
      <3> HIDE DEF j
      <3>2. p[i] = part[j] /\ a[i] = all[j]
        BY <1>1, <3>1, Zenon
      <3>3. TagAgrees(all[j], part[j], n) /\ (j < Len(part) => part[j].next <= n + 1)
        BY <3>1, Zenon DEF Agree
      <3>4. QED
        BY <3>1, <3>2, <3>3, Zenon
    <2>3. QED
      BY <2>1, <2>2
  <1>5. QED
    BY <1>3, <1>4, Zenon DEF Agree, p, a

\* No tag from a place on raises.
Unbroken(v, p) == \A i \in 1..Len(Tags(v, p)) : Tags(v, p)[i].kind # "raise"

\* The first of the tags that do not raise, and the others.
LEMMA UnbrokenStep ==
    ASSUME NEW v \in Octets, NEW p \in 1..Len(v), Unbroken(v, p)
    PROVE  /\ read_tag(v, p) # Raised /\ read_tag(v, p).kind # "raise"
           /\ read_tag(v, p).next \in Nat /\ read_tag(v, p).next > p
           /\ Tags(v, p) = <<read_tag(v, p)>> \o Tags(v, read_tag(v, p).next)
           /\ Unbroken(v, read_tag(v, p).next)
  <1> DEFINE tag == read_tag(v, p)
             n == Len(v)
             rest == Tags(v, tag.next)
  <1>1. n \in Nat /\ p \in Place /\ ~(p > n) /\ p \in Nat
    BY OctetsAre DEF Place
  <1>2. Tags(v, p) = IF p > n THEN <<>> ELSE IF tag.kind = "raise" THEN <<tag>> ELSE <<tag>> \o rest
    BY <1>1, TagsFrom, Zenon
  <1>3. Tags(v, p) \in Seq(AllTags(v)) /\ tag \in AllTags(v)
    BY <1>1, TagsFrom, Zenon DEF AllTags
  <1>4. tag.kind # "raise"
    <2>1. SUFFICES ASSUME tag.kind = "raise" PROVE FALSE
      BY Zenon
    <2>2. Tags(v, p) = <<tag>>
      BY <1>1, <1>2, <2>1, Zenon
    <2> HIDE DEF tag
    <2>3. 1 \in 1..Len(Tags(v, p)) /\ Tags(v, p)[1] = tag
      BY <2>2
    <2>4. QED
      BY <2>1, <2>3, Zenon DEF Unbroken
  <1>5. tag # Raised
    BY <1>4 DEF Raised
  <1>6. tag.next \in Nat /\ tag.next > p
    BY <1>5, ReadTag
  <1>7. Tags(v, p) = <<tag>> \o rest
    BY <1>1, <1>2, <1>4, Zenon
  <1>8. rest \in Seq(AllTags(v))
    <2>1. tag.next \in Place
      BY <1>1, <1>6 DEF Place
    <2>2. QED
      BY <2>1, TagsFrom, Zenon
  <1> HIDE DEF tag, rest
  <1>9. /\ Len(Tags(v, p)) = 1 + Len(rest) /\ Len(rest) \in Nat
        /\ \A i \in 1..Len(rest) : Tags(v, p)[1 + i] = rest[i]
    BY <1>3, <1>7, <1>8
  <1>10. \A i \in 1..Len(rest) : rest[i].kind # "raise"
    <2>1. TAKE i \in 1..Len(rest)
    <2>2. 1 + i \in 1..Len(Tags(v, p))
      BY <1>9
    <2>3. QED
      BY <1>9, <2>2, Zenon DEF Unbroken
  <1>11. Unbroken(v, tag.next)
    BY <1>10, Zenon DEF Unbroken, rest
  <1>12. QED
    BY <1>4, <1>5, <1>6, <1>7, <1>11, Zenon DEF tag, rest

\* The octets hold themselves.
LEMMA HoldsSelf ==
    ASSUME NEW v \in Octets
    PROVE  Holds(v, 0, v)
  <1>1. Len(v) \in Nat
    BY OctetsAre
  <1>2. 0 + Len(v) <= Len(v) /\ \A i \in 1..Len(v) : 0 + i = i
    BY <1>1
  <1>3. QED
    BY <1>2, Zenon DEF Holds

\* A tag of the octets that arrived and the tag at its place in all that was sent.
LEMMA TagAgreesHere ==
    ASSUME NEW data \in Octets, NEW v \in Octets, Holds(data, 0, v),
           NEW p \in 1..Len(v), read_tag(v, p) # Raised
    PROVE  TagAgrees(read_tag(data, p), read_tag(v, p), Len(v))
  <1> DEFINE t == read_tag(data, p)
             s == read_tag(v, p)
             n == Len(v)
  <1>1. 0 \in Nat /\ n \in Nat /\ p \in Nat /\ 0 + p = p /\ p <= n
    BY OctetsAre
  <1>2. HeaderHeld(t, s, 0, n)
    <2>1. HeaderHeld(read_tag(data, 0 + p), s, 0, n)
      BY <1>1, ReadTagHeld, Zenon
    <2>2. QED
      BY <1>1, <2>1, Zenon
  <1>3. HeaderHeld(s, s, 0, n)
    <2>1. HeaderHeld(read_tag(v, 0 + p), s, 0, n)
      BY <1>1, HoldsSelf, ReadTagHeld, Zenon
    <2>2. QED
      BY <1>1, <2>1, Zenon
  <1>4. s.start = p
    BY ReadTag, Zenon
  <1> HIDE DEF t, s, n
  <1>5. s.start <= n
    BY <1>1, <1>4
  <1>6. s.next <= n + 1 => t = s
    BY <1>2, <1>3, Zenon DEF HeaderHeld
  <1>7. QED
    BY <1>2, <1>5, <1>6, Zenon DEF HeaderHeld, TagAgrees, t, s, n

\* The tags of the octets that arrived, when none raises, are the first tags of all
\* that was sent; only the last can run over the end, and only if it is a value.
LEMMA CutTags ==
    ASSUME NEW data \in Octets, NEW v \in Octets, Holds(data, 0, v),
           NEW p \in Place, Unbroken(v, p)
    PROVE  Agree(Tags(v, p), Tags(data, p), Len(v))
  <1> DEFINE n == Len(v)
             Claim(q) == Agree(Tags(v, q), Tags(data, q), n)
             S == {k \in 0..n : \A q \in Place : q >= n + 1 - k /\ Unbroken(v, q) => Claim(q)}
  <1>1. n \in Nat /\ Len(data) \in Nat /\ 0 + n <= Len(data)
    BY OctetsAre, Zenon DEF Holds
  <1>2. ASSUME NEW q \in Place PROVE Tags(v, q) \in Seq(AllTags(v)) /\ Tags(data, q) \in Seq(AllTags(data))
    BY TagsFrom, Zenon
  <1>3. ASSUME NEW q \in Place, q > n PROVE Tags(v, q) = <<>> /\ Claim(q)
    <2>1. Tags(v, q) = <<>>
      BY <1>3, TagsFrom, Zenon
    <2> DEFINE all == Tags(data, q)
    <2>2. all \in Seq(AllTags(data))
      BY <1>2
    <2> HIDE DEF all
    <2>3. Agree(<<>>, all, n)
      BY <2>2 DEF Agree
    <2>4. QED
      BY <2>1, <2>3, Zenon DEF all
  <1>4. 0 \in S
    <2> HIDE DEF Claim
    <2>1. \A q \in Place : q >= n + 1 - 0 => q > n
      BY <1>1 DEF Place
    <2>2. 0 \in 0..n
      BY <1>1
    <2>3. QED
      BY <1>3, <2>1, <2>2
  <1>5. ASSUME NEW k \in 0..n, k < n, k \in S PROVE k + 1 \in S
    <2>1. \A q \in Place : q >= n + 1 - k /\ Unbroken(v, q) => Claim(q)
      BY <1>5
    <2>2. ASSUME NEW q \in Place, q >= n + 1 - (k + 1), Unbroken(v, q), ~(q >= n + 1 - k) PROVE Claim(q)
      <3>1. q \in 1..n /\ q \in Nat /\ ~(q > n) /\ ~(q > Len(data))
        BY <1>1, <1>5, <2>2 DEF Place
      <3> DEFINE s == read_tag(v, q)
                 t == read_tag(data, q)
                 next == s.next
      <3>2. /\ s # Raised /\ s.kind # "raise" /\ next \in Nat /\ next > q
            /\ Tags(v, q) = <<s>> \o Tags(v, next) /\ Unbroken(v, next)
        BY <2>2, <3>1, UnbrokenStep, Zenon
      <3>3. TagAgrees(t, s, n)
        BY <3>1, <3>2, TagAgreesHere, Zenon
      <3>4. s \in AllTags(v) /\ t \in AllTags(data)
        <4>1. q \in 1..Len(data)
          BY <1>1, <3>1
        <4>2. QED
          BY <3>1, <4>1, Zenon DEF AllTags
      <3> HIDE DEF s, t
      <3>5. t.kind = s.kind /\ t.next = 0 + next
        BY <3>3, Zenon DEF TagAgrees, SameHeader
      <3>6. t.next = next
        <4> HIDE DEF next
        <4>1. QED
          BY <3>2, <3>5
      <3>7. Tags(data, q) = <<t>> \o Tags(data, next)
        <4>1. Tags(data, q) = IF q > Len(data) THEN <<>>
                ELSE IF t.kind = "raise" THEN <<t>> ELSE <<t>> \o Tags(data, t.next)
          BY TagsFrom, Zenon DEF t
        <4>2. QED
          BY <3>1, <3>2, <3>5, <3>6, <4>1, Zenon
      <3>8. next \in Place /\ next >= n + 1 - k
        <4> HIDE DEF next
        <4>1. QED
          BY <1>1, <1>5, <2>2, <3>1, <3>2 DEF Place
      <3>9. Claim(next)
        BY <2>1, <3>2, <3>8, Zenon
      <3>10. Tags(v, next) = <<>> \/ s.next <= n + 1
        <4>1. next > n => Tags(v, next) = <<>>
          BY <1>3, <3>8, Zenon
        <4> DEFINE empty == Tags(v, next) = <<>>
        <4> HIDE DEF empty, next
        <4>2. empty \/ next <= n + 1
          BY <1>1, <3>2, <4>1 DEF empty
        <4>3. QED
          BY <4>2, Zenon DEF empty, next
      <3> DEFINE part == Tags(v, next)
                 all == Tags(data, next)
      <3>11. part \in Seq(AllTags(v)) /\ all \in Seq(AllTags(data)) /\ Agree(part, all, n)
        BY <1>2, <3>8, <3>9, Zenon
      <3> HIDE DEF part, all
      <3>12. part = <<>> \/ s.next <= n + 1
        BY <3>10, Zenon DEF part
      <3>13. Agree(<<s>> \o part, <<t>> \o all, n)
        BY <1>1, <3>3, <3>4, <3>11, <3>12, AgreeStep
      <3>14. QED
        BY <3>2, <3>7, <3>13, Zenon DEF part, all
    <2> HIDE DEF Claim
    <2>3. QED
      BY <1>1, <1>5, <2>1, <2>2 DEF Place
  <1>6. \A k \in 0..n : k \in S
    <2> HIDE DEF S, n
    <2>1. QED
      BY <1>1, <1>4, <1>5, UpTo
  <1>7. Claim(p)
    <2> HIDE DEF Claim
    <2>1. n \in S /\ p >= n + 1 - n
      BY <1>1, <1>6 DEF Place
    <2>2. QED
      BY <2>1
  <1>8. QED
    BY <1>7, Zenon
\* How deep a place is nested depends on the kinds of the tags alone.
LEMMA SameNesting ==
    ASSUME NEW a, NEW b, NEW i, NEW j, \A k \in i..j : a[k].kind = b[k].kind
    PROVE  Nesting(a, i, j) = Nesting(b, i, j)
  <1>1. /\ {k \in i..j : a[k].kind = "open"} = {k \in i..j : b[k].kind = "open"}
        /\ {k \in i..j : a[k].kind = "close"} = {k \in i..j : b[k].kind = "close"}
    OBVIOUS
  <1>2. QED
    BY <1>1, Zenon DEF Nesting

\* The greatest of some indices, and the least.
LEMMA Greatest ==
    ASSUME NEW n \in Nat, NEW S \in SUBSET (0..n), S # {}
    PROVE  Max(S) \in S /\ \A y \in S : y <= Max(S)
  <1> DEFINE T == {n - x : x \in S}
             R == OpToRel(<, Nat)
  <1>1. IsWellFoundedOn(R, Nat)
    BY NatLessThanWellFounded
  <1>2. T \subseteq Nat /\ T # {}
    OBVIOUS
  <1> HIDE DEF R
  <1>3. PICK t \in T : \A u \in T : ~(<<u, t>> \in R)
    BY <1>1, <1>2, WFMin
  <1>4. \A u \in T : ~(u < t)
    BY <1>2, <1>3 DEF R, OpToRel
  <1>5. PICK g \in S : t = n - g
    BY <1>3
  <1>6. \A y \in S : y <= g
    <2>1. TAKE y \in S
    <2>2. n - y \in T /\ y \in Int /\ g \in Int
      OBVIOUS
    <2>3. ~(n - y < n - g)
      BY <1>4, <1>5, <2>2
    <2>4. QED
      BY <2>2, <2>3
  <1>7. Max(S) = CHOOSE x \in S : \A y \in S : x >= y
    BY Zenon DEF Max
  <1>8. \E x \in S : \A y \in S : x >= y
    BY <1>6
  <1>9. Max(S) \in S /\ \A y \in S : Max(S) >= y
    BY <1>7, <1>8, Zenon
  <1> DEFINE m == Max(S)
  <1> HIDE DEF m
  <1>10. m \in S /\ \A y \in S : m >= y
    BY <1>9 DEF m
  <1>11. m \in S /\ \A y \in S : y <= m
    BY <1>10
  <1>12. QED
    BY <1>11 DEF m

\* The least of them.
LEMMA Least ==
    ASSUME NEW n \in Nat, NEW S \in SUBSET (0..n), S # {}
    PROVE  Min(S) \in S /\ \A y \in S : Min(S) <= y
  <1> DEFINE R == OpToRel(<, Nat)
  <1>1. IsWellFoundedOn(R, Nat)
    BY NatLessThanWellFounded
  <1>2. S \subseteq Nat
    OBVIOUS
  <1> HIDE DEF R
  <1>3. PICK t \in S : \A u \in S : ~(<<u, t>> \in R)
    BY <1>1, <1>2, WFMin
  <1>4. \A u \in S : ~(u < t)
    BY <1>2, <1>3 DEF R, OpToRel
  <1>5. \A u \in S : t <= u
    BY <1>2, <1>4
  <1>6. Min(S) = CHOOSE x \in S : \A y \in S : x <= y
    BY Zenon DEF Min
  <1>7. \E x \in S : \A y \in S : x <= y
    BY <1>5
  <1>8. QED
    BY <1>6, <1>7, Zenon

\* Tags with their places: what each has of the tag it was made of.
LEMMA StructuredIs ==
    ASSUME NEW data \in Octets, NEW p \in Place
    PROVE  LET tags == Tags(data, p)
               T == Structured(data, p)
           IN  /\ Len(T) = Len(tags) /\ Len(T) \in Nat
               /\ \A i \in 1..Len(T) :
                    /\ T[i] = Placed(tags[i], i, Nesting(tags, 1, i - 1))
                    /\ T[i].kind = tags[i].kind
  <1> DEFINE tags == Tags(data, p)
             T == Structured(data, p)
  <1>1. tags \in Seq(AllTags(data))
    BY TagsFrom, Zenon
  <1>2. T = [i \in 1..Len(tags) |-> Placed(tags[i], i, Nesting(tags, 1, i - 1))]
    BY Zenon DEF Structured
  <1> HIDE DEF tags, T
  <1>3. Len(tags) \in Nat
    BY <1>1
  <1>4. Len(T) = Len(tags) /\ \A i \in 1..Len(tags) : T[i] = Placed(tags[i], i, Nesting(tags, 1, i - 1))
    BY <1>2, <1>3
  <1>5. \A tag, at, depth : Placed(tag, at, depth).kind = tag.kind
    BY DEF Placed
  <1>6. ASSUME NEW i \in 1..Len(T)
        PROVE  T[i] = Placed(tags[i], i, Nesting(tags, 1, i - 1)) /\ T[i].kind = tags[i].kind
    <2>1. T[i] = Placed(tags[i], i, Nesting(tags, 1, i - 1))
      BY <1>4, <1>6
    <2>2. QED
      BY <1>5, <2>1, ZenonT(60)
  <1>7. Len(T) = Len(tags) /\ Len(T) \in Nat
    BY <1>3, <1>4
  <1>8. QED
    BY <1>6, <1>7, Zenon DEF tags, T

PlacedAgree(part, all, n) ==
    /\ Len(part) \in Nat /\ Len(all) \in Nat /\ Len(part) <= Len(all)
    /\ \A i \in 1..Len(part) : all[i].kind = part[i].kind /\ all[i].start = part[i].start
                               /\ part[i].start \in Nat /\ part[i].start <= n
                               /\ part[i].next \in Nat /\ part[i].next >= 1
    /\ \A i \in 1..Len(part) : part[i].kind # "value" => \A j \in 1..i : all[j] = part[j]
\* The placed tags of a part that arrived are the first ones of the whole, up to any
\* that is not a value.
LEMMA CutStructured ==
    ASSUME NEW data \in Octets, NEW v \in Octets, Holds(data, 0, v), NEW p \in Place,
           ~Broken(Structured(v, p))
    PROVE  PlacedAgree(Structured(v, p), Structured(data, p), Len(v))
  <1> DEFINE n == Len(v)
             s == Tags(v, p)
             t == Tags(data, p)
             C == Structured(v, p)
             T == Structured(data, p)
  <1>1. /\ Len(C) = Len(s) /\ Len(C) \in Nat
        /\ \A i \in 1..Len(C) : C[i] = Placed(s[i], i, Nesting(s, 1, i - 1)) /\ C[i].kind = s[i].kind
    BY StructuredIs, Zenon
  <1>2. /\ Len(T) = Len(t) /\ Len(T) \in Nat
        /\ \A i \in 1..Len(T) : T[i] = Placed(t[i], i, Nesting(t, 1, i - 1)) /\ T[i].kind = t[i].kind
    BY StructuredIs, Zenon
  <1>3. \A i \in 1..Len(C) : s[i].kind # "raise"
    BY <1>1, Zenon DEF Broken
  <1>4. Agree(s, t, n)
    <2>1. Unbroken(v, p)
      BY <1>1, <1>3, Zenon DEF Unbroken
    <2>2. QED
      BY <2>1, CutTags, Zenon
  <1>5. n \in Nat /\ \A i \in 1..Len(C) : s[i].start \in Nat /\ s[i].next \in Nat /\ s[i].next >= 1
    <2>1. n \in Nat /\ Len(s) \in Nat
      BY <1>1, OctetsAre
    <2>2. s \in Seq(AllTags(v))
      BY TagsFrom, Zenon
    <2>3. ASSUME NEW i \in 1..Len(C) PROVE s[i].start \in Nat /\ s[i].next \in Nat /\ s[i].next >= 1
      <3> HIDE DEF s, C
      <3>1. s[i] \in AllTags(v)
        BY <1>1, <2>2, <2>3
      <3>2. PICK q \in 1..Len(v) : s[i] = read_tag(v, q)
        BY <3>1, Zenon DEF AllTags
      <3>3. read_tag(v, q) # Raised
        BY <1>3, <2>3, <3>2 DEF Raised
      <3>4. s[i].start = q /\ s[i].next \in Nat /\ s[i].next > q
        BY <3>2, <3>3, ReadTag, Zenon
      <3>5. QED
        BY <3>4
    <2>4. QED
      BY <2>1, <2>3
  <1>6. ASSUME NEW i \in 1..Len(C) PROVE i \in 1..Len(T) /\ TagAgrees(t[i], s[i], n)
    <2>1. Len(s) <= Len(t)
      BY <1>4, Zenon DEF Agree
    <2>2. i \in 1..Len(s)
      BY <1>1, <1>6, Zenon
    <2>3. TagAgrees(t[i], s[i], n)
      BY <1>4, <2>2, Zenon DEF Agree
    <2> HIDE DEF s, t, C, T
    <2>4. QED
      BY <1>1, <1>2, <2>1, <2>2, <2>3
  <1> HIDE DEF n, s, t, C, T
  <1>7. ASSUME NEW i \in 1..Len(C) PROVE T[i].kind = C[i].kind /\ t[i].kind = s[i].kind
    <2>1. t[i].kind = s[i].kind
      BY <1>6, <1>7, Zenon DEF TagAgrees, SameHeader
    <2>2. QED
      BY <1>1, <1>2, <1>6, <1>7, <2>1, Zenon
  <1>8. ASSUME NEW i \in 1..Len(C)
        PROVE  /\ T[i].start = C[i].start /\ C[i].start \in Nat /\ C[i].start <= n
               /\ C[i].next \in Nat /\ C[i].next >= 1
    <2>1. s[i].kind # "raise" /\ t[i].kind # "raise"
      BY <1>3, <1>7, <1>8, Zenon
    <2>2. C[i].start = s[i].start /\ C[i].next = s[i].next
      <3>1. C[i] = Placed(s[i], i, Nesting(s, 1, i - 1))
        BY <1>1, <1>8, Zenon
      <3>2. QED
        BY <2>1, <3>1 DEF Placed
    <2>3. T[i].start = t[i].start
      <3>1. T[i] = Placed(t[i], i, Nesting(t, 1, i - 1))
        BY <1>2, <1>6, <1>8, Zenon
      <3>2. QED
        BY <2>1, <3>1 DEF Placed
    <2>4. t[i].start = 0 + s[i].start /\ s[i].start <= n /\ s[i].start \in Nat
      BY <1>5, <1>6, <1>8, Zenon DEF TagAgrees, SameHeader
    <2>5. t[i].start = s[i].start
      BY <2>4
    <2>6. QED
      BY <1>5, <1>8, <2>2, <2>3, <2>4, <2>5, Zenon
  <1>9. ASSUME NEW i \in 1..Len(C), C[i].kind # "value", NEW j \in 1..i PROVE T[j] = C[j]
    <2>1. j \in 1..Len(C) /\ (j < i => j < Len(s)) /\ j \in 1..Len(s) /\ (j < i \/ j = i)
      BY <1>1, <1>9
    <2>2. s[j].next <= n + 1
      <3>1. CASE j < i
        <4>1. j < Len(s) /\ j \in 1..Len(s)
          BY <2>1, <3>1
        <4>2. \A k \in 1..Len(s) : k < Len(s) => s[k].next <= n + 1
          BY <1>4, Zenon DEF Agree
        <4>3. QED
          BY <4>1, <4>2
      <3>2. CASE j = i
        <4>1. s[j].kind # "value"
          BY <1>1, <1>9, <3>2, Zenon
        <4>2. QED
          BY <1>6, <2>1, <4>1, Zenon DEF TagAgrees
      <3>3. QED
        BY <2>1, <3>1, <3>2
    <2>3. t[j] = s[j]
      BY <1>6, <2>1, <2>2, Zenon DEF TagAgrees
    <2>4. Nesting(t, 1, j - 1) = Nesting(s, 1, j - 1)
      <3>1. \A k \in 1..j - 1 : k \in 1..Len(C)
        BY <1>1, <2>1
      <3>2. \A k \in 1..j - 1 : t[k].kind = s[k].kind
        BY <1>7, <3>1, Zenon
      <3>3. QED
        BY <3>2, SameNesting
    <2>5. C[j] = Placed(s[j], j, Nesting(s, 1, j - 1)) /\ T[j] = Placed(t[j], j, Nesting(t, 1, j - 1))
      BY <1>1, <1>2, <1>6, <2>1, Zenon
    <2>6. QED
      BY <2>3, <2>4, <2>5, Zenon
  <1>10. Len(C) <= Len(T)
    <2>1. Len(s) <= Len(t)
      BY <1>4, Zenon DEF Agree
    <2>2. QED
      BY <1>1, <1>2, <2>1, Zenon
  <1>11. PlacedAgree(C, T, n)
    BY <1>1, <1>2, <1>7, <1>8, <1>9, <1>10, Zenon DEF PlacedAgree
  <1>12. QED
    BY <1>11, Zenon DEF C, T, n
\* Octets between two places of the part that arrived are the same in the whole.
LEMMA StartHeld ==
    ASSUME NEW data \in Octets, NEW v \in Octets, Holds(data, 0, v),
           NEW from \in Nat, from >= 1, NEW to \in Int, to <= Len(v)
    PROVE  SubSeq(data, from, to) = SubSeq(v, from, to)
  <1>1. CASE from <= to + 1
    <2>1. SubSeq(data, 0 + from, 0 + to) = SubSeq(v, from, to)
      <3>1. 0 \in Nat
        OBVIOUS
      <3>2. QED
        BY <1>1, <3>1, PartMoved, Zenon
    <2>2. 0 + from = from /\ 0 + to = to
      OBVIOUS
    <2>3. QED
      BY <2>1, <2>2, Zenon
  <1>2. CASE ~(from <= to + 1)
    <2>1. to < from /\ from \in Int
      BY <1>2
    <2>2. SubSeq(data, from, to) = <<>> /\ SubSeq(v, from, to) = <<>>
      BY <2>1, SubSeqEmpty
    <2>3. QED
      BY <2>2
  <1>3. QED
    BY <1>1, <1>2

\* A field among tags that are the same.
LEMMA SameField ==
    ASSUME NEW part, NEW all, NEW i \in Nat, \A j \in 1..i : all[j] = part[j],
           NEW a \in 1..i, NEW depths, NEW number
    PROVE  Field(all, a, i, depths, number) = Field(part, a, i, depths, number)
  <1> DEFINE P(tags, j) == IsValue(tags[j], number) /\ tags[j].depth \in depths
             found(tags) == {j \in a..i : P(tags, j)}
  <1>1. \A j \in a..i : j \in 1..i
    OBVIOUS
  <1>2. found(all) = found(part)
    <2>1. \A j \in a..i : P(all, j) <=> P(part, j)
      BY <1>1, Zenon
    <2> HIDE DEF P
    <2>2. QED
      BY <2>1
  <1>3. found(part) # {} => Max(found(part)) \in 1..i
    <2> DEFINE F == found(part)
    <2>1. F \subseteq a..i
      OBVIOUS
    <2> HIDE DEF F
    <2>2. F \in SUBSET (0..i)
      BY <2>1
    <2>3. F # {} => Max(F) \in F
      BY <2>2, Greatest
    <2>4. F # {} => Max(F) \in 1..i
      BY <1>1, <2>1, <2>3
    <2>5. QED
      BY <2>4 DEF F
  <1> HIDE DEF found
  <1>4. found(part) # {} => all[Max(found(all))].body = part[Max(found(part))].body
    BY <1>2, <1>3, Zenon
  <1>5. /\ Field(all, a, i, depths, number) = IF found(all) = {} THEN None ELSE Some(all[Max(found(all))].body)
        /\ Field(part, a, i, depths, number) = IF found(part) = {} THEN None ELSE Some(part[Max(found(part))].body)
    BY Zenon DEF Field, found
  <1>6. CASE found(part) = {}
    BY <1>2, <1>5, <1>6, Zenon
  <1>7. CASE found(part) # {}
    BY <1>2, <1>4, <1>5, <1>7, Zenon
  <1>8. QED
    BY <1>6, <1>7

\* The key of an entry depends on the tags up to it.
LEMMA SameKey ==
    ASSUME NEW part, NEW all, NEW i \in Nat, i >= 1, \A j \in 1..i : all[j] = part[j]
    PROVE  EntryKey(all, i) = EntryKey(part, i)
  <1> DEFINE found(tags) == {j \in 1..i : IsValue(tags[j], 2) /\ tags[j].depth = 1}
             q == PropertyOf(part, i)
  <1>1. found(all) = found(part)
    <2> DEFINE P(tags, j) == IsValue(tags[j], 2) /\ tags[j].depth = 1
    <2>1. \A j \in 1..i : P(all, j) <=> P(part, j)
      BY Zenon
    <2>2. /\ found(all) = {j \in 1..i : P(all, j)}
          /\ found(part) = {j \in 1..i : P(part, j)}
      BY Zenon
    <2> HIDE DEF P, found
    <2>3. QED
      BY <2>1, <2>2
  <1>2. PropertyOf(all, i) = q
    BY <1>1, Zenon DEF PropertyOf
  <1>3. q \in 1..i
    <2> DEFINE F == {1} \cup found(part)
    <2>1. F \subseteq 1..i /\ F # {}
      OBVIOUS
    <2>2. q = Max(F)
      BY Zenon DEF PropertyOf
    <2> HIDE DEF F, q
    <2>3. F \in SUBSET (0..i)
      BY <2>1
    <2>4. Max(F) \in F
      BY <2>1, <2>3, Greatest
    <2>5. QED
      BY <2>1, <2>2, <2>4
  <1>4. 1 \in 1..i
    OBVIOUS
  <1> HIDE DEF q
  <1>5. /\ Field(all, 1, i, {0}, 0) = Field(part, 1, i, {0}, 0)
        /\ Field(all, 1, i, {1}, 2) = Field(part, 1, i, {1}, 2)
        /\ Field(all, q, i, {1}, 3) = Field(part, q, i, {1}, 3)
    BY <1>3, <1>4, SameField
  <1>6. QED
    BY <1>2, <1>5, Zenon DEF EntryKey, q

\* A value that is closed in the part that arrived is closed there in the whole.
LEMMA SameClosed ==
    ASSUME NEW part, NEW all, NEW n, PlacedAgree(part, all, n), NEW i \in 1..Len(part),
           ClosedBy(part, i) # 0
    PROVE  ClosedBy(all, i) = ClosedBy(part, i) /\ ClosedBy(part, i) \in i..Len(part)
  <1> DEFINE closes(tags) == {j \in i..Len(tags) : Nesting(tags, i, j) = 0}
             c == Min(closes(part))
             P == closes(part)
             A == closes(all)
             m == Len(part)
             l == Len(all)
  <1>1. m \in Nat /\ l \in Nat /\ m <= l /\ i \in 1..m
    BY Zenon DEF PlacedAgree
  <1>2. ClosedBy(part, i) = IF P = {} THEN 0 ELSE c
    BY Zenon DEF ClosedBy
  <1>3. ClosedBy(all, i) = IF A = {} THEN 0 ELSE Min(A)
    BY Zenon DEF ClosedBy
  <1>4. P # {} /\ P \subseteq i..m
    <2>1. P # {}
      BY <1>2, Zenon
    <2>2. P \subseteq i..m
      OBVIOUS
    <2>3. QED
      BY <2>1, <2>2
  <1>5. c \in P /\ \A y \in P : c <= y
    <2>1. P \in SUBSET (0..m)
      BY <1>1, <1>4
    <2> HIDE DEF P
    <2>2. Min(P) \in P /\ \A y \in P : Min(P) <= y
      BY <1>1, <1>4, <2>1, Least
    <2>3. QED
      BY <2>2, Zenon DEF P
  <1>6. ASSUME NEW j \in i..m PROVE Nesting(all, i, j) = Nesting(part, i, j)
    <2>1. \A k \in i..j : k \in 1..m
      BY <1>1, <1>6
    <2>2. \A k \in i..j : all[k].kind = part[k].kind
      BY <2>1, Zenon DEF PlacedAgree
    <2>3. QED
      BY <2>2, SameNesting
  <1>7. \A j \in i..m : j \in A <=> j \in P
    <2>1. TAKE j \in i..m
    <2>2. j \in i..l
      BY <1>1
    <2>3. QED
      BY <1>6, <2>2, Zenon
  <1>8. A \subseteq i..l
    OBVIOUS
  <1> HIDE DEF A, P, c, m, l
  <1>9. c \in A /\ \A y \in A : c <= y
    <2>1. c \in i..m
      BY <1>4, <1>5
    <2>2. c \in A
      BY <1>5, <1>7, <2>1
    <2>3. ASSUME NEW y \in A PROVE c <= y
      <3>1. y \in Int /\ y >= i
        BY <1>1, <1>8
      <3>2. CASE y \in i..m
        BY <1>5, <1>7, <3>2
      <3>3. CASE ~(y \in i..m)
        BY <1>1, <2>1, <3>1, <3>3
      <3>4. QED
        BY <3>2, <3>3
    <2>4. QED
      BY <2>2, <2>3
  <1>10. Min(A) = c
    <2>1. Min(A) = CHOOSE x \in A : \A y \in A : x <= y
      BY Zenon DEF Min
    <2>2. \A y \in A : y \in Int
      BY <1>1, <1>8
    <2>3. \A x \in A : (\A y \in A : x <= y) => x = c
      BY <1>9, <2>2
    <2>4. QED
      BY <1>9, <2>1, <2>3, Zenon
  <1>11. ClosedBy(part, i) = c /\ ClosedBy(all, i) = c
    BY <1>2, <1>3, <1>4, <1>9, <1>10, Zenon
  <1>12. c \in i..m
    BY <1>4, <1>5
  <1>13. QED
    BY <1>11, <1>12, Zenon DEF m

SameEntry(data, all, v, part, i) ==
    /\ i \in Entries(all) /\ EntryKey(all, i) = EntryKey(part, i)
    /\ EntryResult(data, all, i) = EntryResult(v, part, i)
\* What an entry of the part that arrived says: the key and the result of the
\* same entry of the whole.
LEMMA CutEntry ==
    ASSUME NEW data \in Octets, NEW v \in Octets, Holds(data, 0, v),
           NEW part, NEW all, PlacedAgree(part, all, Len(v)),
           NEW i \in Entries(part), ClosedBy(part, i) # 0
    PROVE  SameEntry(data, all, v, part, i)
  <1> DEFINE n == Len(v)
             c == ClosedBy(part, i)
  <1>1. i \in 1..Len(part) /\ part[i].kind = "open" /\ part[i].number \in {4, 5} /\ part[i].depth = 1
    BY Zenon DEF Entries
  <1>2. Len(part) \in Nat /\ Len(all) \in Nat /\ Len(part) <= Len(all)
    BY Zenon DEF PlacedAgree
  <1>3. \A j \in 1..i : all[j] = part[j]
    <2>1. part[i].kind # "value"
      BY <1>1
    <2>2. QED
      BY <1>1, <2>1, Zenon DEF PlacedAgree
  <1>4. i \in Nat /\ i >= 1 /\ i \in 1..i /\ i \in 1..Len(all)
    BY <1>1, <1>2
  <1>5. all[i] = part[i]
    BY <1>3, <1>4
  <1>6. i \in Entries(all)
    BY <1>1, <1>4, <1>5, Zenon DEF Entries
  <1>7. EntryKey(all, i) = EntryKey(part, i)
    BY <1>3, <1>4, SameKey
  <1>8. ClosedBy(all, i) = c /\ c \in i..Len(part) /\ c # 0
    BY <1>1, SameClosed, Zenon
  <1> HIDE DEF c
  <1>9. c \in 1..Len(part)
    BY <1>1, <1>2, <1>8
  <1>10. /\ all[c].start = part[c].start /\ part[c].start \in Nat /\ part[c].start <= n
         /\ part[i].next \in Nat /\ part[i].next >= 1
    BY <1>1, <1>9, Zenon DEF PlacedAgree
  <1>11. Inside(data, all, i) = Inside(v, part, i)
    <2> DEFINE from == part[i].next
               to == part[c].start - 1
    <2>1. Inside(data, all, i) = SubSeq(data, from, to)
      BY <1>5, <1>8, <1>10, Zenon DEF Inside
    <2>2. Inside(v, part, i) = SubSeq(v, from, to)
      BY <1>8, Zenon DEF Inside, c
    <2>3. from \in Nat /\ from >= 1 /\ to \in Int /\ to <= Len(v)
      BY <1>10, OctetsAre
    <2> HIDE DEF from, to
    <2>4. QED
      BY <2>1, <2>2, <2>3, StartHeld, Zenon
  <1>12. EntryResult(data, all, i) = EntryResult(v, part, i)
    BY <1>5, <1>11, Zenon DEF EntryResult
  <1>13. QED
    BY <1>6, <1>7, <1>12, Zenon DEF SameEntry

\* The entry a result is taken from.
LEMMA ResultFrom ==
    ASSUME NEW apdu, NEW tags, Len(tags) \in Nat, NEW key \in DOMAIN ResultsOf(apdu, tags)
    PROVE  \E i \in Entries(tags) : EntryKey(tags, i) = key /\ ResultsOf(apdu, tags)[key] = EntryResult(apdu, tags, i)
  <1> DEFINE E == Entries(tags)
             keys == {EntryKey(tags, i) : i \in E}
             S == {i \in E : EntryKey(tags, i) = key}
  <1>1. ResultsOf(apdu, tags) = [k \in keys |-> EntryResult(apdu, tags, Max({i \in E : EntryKey(tags, i) = k}))]
    BY Zenon DEF ResultsOf
  <1>2. E \subseteq 1..Len(tags)
    BY Zenon DEF Entries
  <1> HIDE DEF E
  <1>3. key \in keys /\ ResultsOf(apdu, tags)[key] = EntryResult(apdu, tags, Max(S))
    BY <1>1, Zenon
  <1>4. S # {} /\ S \in SUBSET (0..Len(tags))
    <2>1. PICK i \in E : key = EntryKey(tags, i)
      BY <1>3, Zenon
    <2>2. i \in S
      BY <2>1
    <2>3. S \subseteq E
      OBVIOUS
    <2> HIDE DEF S
    <2>4. QED
      BY <1>2, <2>2, <2>3
  <1>5. Max(S) \in S
    <2> HIDE DEF S
    <2>1. QED
      BY <1>4, Greatest
  <1>6. Max(S) \in E /\ EntryKey(tags, Max(S)) = key
    BY <1>5, Zenon
  <1>7. QED
    BY <1>3, <1>6, Zenon DEF E

\* An entry has its key among the results.
LEMMA EntryHasKey ==
    ASSUME NEW apdu, NEW tags, NEW i \in Entries(tags)
    PROVE  EntryKey(tags, i) \in DOMAIN ResultsOf(apdu, tags)
  <1> DEFINE E == Entries(tags)
             keys == {EntryKey(tags, k) : k \in E}
  <1>1. ResultsOf(apdu, tags) = [k \in keys |-> EntryResult(apdu, tags, Max({j \in E : EntryKey(tags, j) = k}))]
    BY Zenon DEF ResultsOf
  <1> HIDE DEF E
  <1>2. DOMAIN ResultsOf(apdu, tags) = keys
    BY <1>1, Zenon
  <1>3. EntryKey(tags, i) \in keys
    BY Zenon DEF E
  <1>4. QED
    BY <1>2, <1>3, Zenon

\* Entries with one key have one result.
Consistent(apdu, tags) ==
    \A i, j \in Entries(tags) :
      EntryKey(tags, i) = EntryKey(tags, j) => EntryResult(apdu, tags, i) = EntryResult(apdu, tags, j)
\* Some of the results, each as it is.
Among(some, results) ==
    \A key \in DOMAIN some : key \in DOMAIN results /\ some[key] = results[key]

\* Any octets at all, of which the end was lost: unless the parser of a
\* ReadPropertyMultiple-ACK refuses what is left, every result it gives is the
\* result the whole would have given for that key.
THEOREM CutResults ==
    ASSUME NEW data \in Octets, NEW v \in Octets, Holds(data, 0, v), NEW p \in Place,
           ~Broken(Structured(v, p)), ~Unclosed(Structured(v, p)),
           Consistent(data, Structured(data, p))
    PROVE  Among(ResultsOf(v, Structured(v, p)), ResultsOf(data, Structured(data, p)))
  <1> DEFINE C == Structured(v, p)
             T == Structured(data, p)
             some == ResultsOf(v, C)
             all == ResultsOf(data, T)
  <1>1. PlacedAgree(C, T, Len(v))
    BY CutStructured, Zenon
  <1>2. Len(C) \in Nat /\ Len(T) \in Nat
    BY <1>1, Zenon DEF PlacedAgree
  <1>3. ASSUME NEW key \in DOMAIN some PROVE key \in DOMAIN all /\ some[key] = all[key]
    <2>1. PICK i \in Entries(C) : EntryKey(C, i) = key /\ some[key] = EntryResult(v, C, i)
      BY <1>2, <1>3, ResultFrom, Zenon
    <2>2. ClosedBy(C, i) # 0
      BY Zenon DEF Unclosed
    <2>3. SameEntry(data, T, v, C, i)
      BY <1>1, <2>2, CutEntry, Zenon
    <2>4. i \in Entries(T) /\ EntryKey(T, i) = key /\ EntryResult(data, T, i) = some[key]
      BY <2>1, <2>3, Zenon DEF SameEntry
    <2>5. key \in DOMAIN all
      BY <2>4, EntryHasKey, Zenon
    <2>6. PICK j \in Entries(T) : EntryKey(T, j) = key /\ all[key] = EntryResult(data, T, j)
      BY <1>2, <2>5, ResultFrom, Zenon
    <2>7. EntryResult(data, T, i) = EntryResult(data, T, j)
      BY <2>4, <2>6, Zenon DEF Consistent
    <2>8. QED
      BY <2>4, <2>5, <2>6, <2>7, Zenon
  <1>4. QED
    BY <1>3, Zenon DEF Among
-----------------------------------------------------------------------------
(* An answer that grows                                                    *)

\* The nesting at the end of tags that are first those of one sequence and then
\* those of another.
KindsOf(tags, s, c, n, m) ==
    (\A i \in 1..n : tags[i].kind = s[i].kind) /\ \A k \in 1..m : tags[n + k].kind = c[k].kind
NestingAdds(tags, s, c, n, m) ==
    \A k \in 0..m : /\ Nesting(tags, 1, n + k) = Nesting(s, 1, n) + Nesting(c, 1, k)
                    /\ Nesting(s, 1, n) \in Int /\ Nesting(c, 1, k) \in Int
\* It is the sum.
LEMMA NestingSum ==
    ASSUME NEW tags, NEW s, NEW c, NEW n \in Nat, NEW m \in Nat, KindsOf(tags, s, c, n, m)
    PROVE  NestingAdds(tags, s, c, n, m)
  <1> USE DEF KindsOf, NestingAdds
  <1> DEFINE S == {k \in 0..m : Nesting(tags, 1, n + k) = Nesting(s, 1, n) + Nesting(c, 1, k)}
  <1>1. \A t : \A j \in Nat : /\ Nesting(t, 1, 0) = 0 /\ Nesting(t, 1, j) \in Int
                             /\ Nesting(t, 1, j + 1) = Nesting(t, 1, j) + Depth(t[j + 1])
    <2>1. TAKE t
    <2>2. TAKE j \in Nat
    <2>3. 1 \in Int /\ j \in Int /\ 1 <= j + 1 /\ 1 - 1 = 0
      OBVIOUS
    <2>4. /\ Nesting(t, 1, 1 - 1) = 0 /\ Nesting(t, 1, j) \in Int
          /\ Nesting(t, 1, j + 1) = Nesting(t, 1, j) + Depth(t[j + 1])
      BY <2>3, NestingStep, Zenon
    <2>5. QED
      BY <2>3, <2>4, Zenon
  <1>2. 0 \in S
    <2>1. Nesting(tags, 1, n) = Nesting(s, 1, n)
      BY SameNesting
    <2>2. Nesting(c, 1, 0) = 0 /\ Nesting(s, 1, n) \in Int /\ n + 0 = n /\ 0 \in Nat
      BY <1>1
    <2>3. QED
      BY <2>1, <2>2
  <1>3. ASSUME NEW k \in 0..m, k < m, k \in S PROVE k + 1 \in S
    <2>1. Nesting(tags, 1, n + k) = Nesting(s, 1, n) + Nesting(c, 1, k)
      BY <1>3
    <2>2. n + k \in Nat /\ k \in Nat /\ (n + k) + 1 = n + (k + 1) /\ k + 1 \in 1..m /\ k + 1 \in 0..m
      BY <1>3
    <2>3. /\ Nesting(tags, 1, (n + k) + 1) = Nesting(tags, 1, n + k) + Depth(tags[(n + k) + 1])
          /\ Nesting(c, 1, k + 1) = Nesting(c, 1, k) + Depth(c[k + 1])
          /\ Nesting(c, 1, k) \in Int /\ Nesting(s, 1, n) \in Int
      BY <1>1, <2>2, Zenon
    <2>4. Depth(tags[n + (k + 1)]) = Depth(c[k + 1])
      BY <2>2, Zenon DEF Depth
    <2>5. Depth(c[k + 1]) \in Int
      BY DEF Depth
    <2>6. Nesting(tags, 1, n + (k + 1)) = Nesting(s, 1, n) + Nesting(c, 1, k + 1)
      BY <2>1, <2>2, <2>3, <2>4, <2>5
    <2>7. QED
      BY <2>2, <2>6
  <1>4. \A k \in 0..m : k \in S
    <2> HIDE DEF S
    <2>1. QED
      BY <1>2, <1>3, UpTo
  <1>5. \A k \in 0..m : k \in Nat
    OBVIOUS
  <1>6. QED
    BY <1>1, <1>4, <1>5

\* Tags that are not moved.
LEMMA NotMoved ==
    ASSUME NEW v \in Octets, NEW p \in 1..Len(v) + 1, Whole(v, p)
    PROVE  MovedTags(Tags(v, p), 0) = Tags(v, p)
  <1> DEFINE M == MovedTags(Tags(v, p), 0)
             n == Len(v)
  <1>1. n \in Nat /\ 0 \in Nat /\ p \in Place /\ 0 + p = p /\ (0 + n) + 1 = n + 1
    BY OctetsAre DEF Place
  <1>2. Tags(v, 0 + p) = M \o Tags(v, (0 + n) + 1)
    BY <1>1, HoldsSelf, TagsMovedFrom, Zenon
  <1>3. Tags(v, n + 1) = <<>>
    BY TagsEnd, Zenon
  <1>4. Tags(v, p) = M \o <<>>
    BY <1>1, <1>2, <1>3, Zenon
  <1>5. Tags(v, p) \in Seq(AllTags(v))
    BY <1>1, TagsFrom, Zenon
  <1> DEFINE T == Tags(v, p)
  <1>6. M \in Seq({Moved(T[i], 0) : i \in 1..Len(T)})
    <2>1. M = [i \in 1..Len(T) |-> Moved(T[i], 0)]
      BY Zenon DEF MovedTags
    <2> HIDE DEF T, M
    <2>2. Len(T) \in Nat
      BY <1>5 DEF T
    <2>3. QED
      BY <2>1, <2>2
  <1> HIDE DEF M
  <1>7. M \o <<>> = M
    BY <1>6
  <1>8. QED
    BY <1>4, <1>7, Zenon DEF M

\* The placed tags U of octets that hold T's and then those of a part: T itself, and
\* the part's tags c, moved and as deep as they are there and T's end is.
GrownBy(T, U, c, at, d) ==
    /\ Len(T) \in Nat /\ Len(c) \in Nat /\ Len(U) = Len(T) + Len(c)
    /\ \A i \in 1..Len(T) : U[i] = T[i]
    /\ \A k \in 1..Len(c) : U[Len(T) + k] = Placed(Moved(c[k], at), Len(T) + k, d + Nesting(c, 1, k - 1))
DepthAt(data, p) == Nesting(Tags(data, p), 1, Len(Tags(data, p)))
\* What the tags of two sequences of octets are, one after the other.
LEMMA Grown ==
    ASSUME NEW data \in Octets, NEW chunk \in Octets, NEW p \in 1..Len(data) + 1,
           Whole(data, p), Whole(chunk, 1)
    PROVE  /\ Whole(data \o chunk, p)
           /\ GrownBy(Structured(data, p), Structured(data \o chunk, p), Tags(chunk, 1), Len(data), DepthAt(data, p))
           /\ DepthAt(data \o chunk, p) = DepthAt(data, p) + DepthAt(chunk, 1)
           /\ DepthAt(data, p) \in Int /\ DepthAt(chunk, 1) \in Int
  <1> DEFINE whole == data \o chunk
             at == Len(data)
             l == Len(chunk)
             s == Tags(data, p)
             c == Tags(chunk, 1)
             mc == MovedTags(c, at)
             u == Tags(whole, p)
             n == Len(s)
             m == Len(c)
  <1>1. /\ whole \in Octets /\ Len(whole) = at + l /\ Holds(whole, 0, data) /\ Holds(whole, at, chunk)
        /\ at \in Nat /\ l \in Nat
    BY HoldsAfter, Zenon
  <1>2. p \in Place /\ 0 + p = p /\ (0 + at) + 1 = at + 1 /\ 0 \in Nat /\ 1 \in Place
    BY <1>1 DEF Place
  <1> HIDE DEF whole
  <1>3. u = s \o Tags(whole, at + 1)
    <2>1. Tags(whole, 0 + p) = MovedTags(s, 0) \o Tags(whole, (0 + at) + 1)
      BY <1>1, <1>2, TagsMovedFrom, Zenon
    <2>2. MovedTags(s, 0) = s
      BY NotMoved, Zenon
    <2>3. QED
      BY <1>2, <2>1, <2>2, Zenon
  <1>4. Tags(whole, at + 1) = mc \o Tags(whole, (at + l) + 1)
    BY <1>1, TagsMoved, Zenon
  <1>5. Tags(whole, (at + l) + 1) = <<>>
    <2>1. Tags(whole, Len(whole) + 1) = <<>>
      BY <1>1, TagsEnd, Zenon
    <2>2. QED
      BY <1>1, <2>1, Zenon
  <1>6. s \in Seq(AllTags(data)) /\ c \in Seq(AllTags(chunk)) /\ u \in Seq(AllTags(whole))
    BY <1>1, <1>2, TagsFrom, Zenon
  <1>7. n \in Nat /\ m \in Nat
    <2> HIDE DEF s, c
    <2>1. QED
      BY <1>6
  <1> DEFINE K == {Moved(c[i], at) : i \in 1..m}
  <1>8. mc \in Seq(K) /\ Len(mc) = m /\ \A k \in 1..m : mc[k] = Moved(c[k], at)
    <2>1. mc = [k \in 1..m |-> Moved(c[k], at)]
      BY Zenon DEF MovedTags
    <2> HIDE DEF mc, c, m
    <2>2. QED
      BY <1>7, <2>1
  <1> HIDE DEF mc, K
  <1>9. u = s \o mc
    <2>1. mc \o <<>> = mc
      BY <1>8
    <2>2. QED
      BY <1>3, <1>4, <1>5, <2>1, Zenon
  <1>10. /\ Len(u) = n + m /\ \A i \in 1..n : u[i] = s[i]
         /\ \A k \in 1..m : u[n + k] = Moved(c[k], at)
    <2> HIDE DEF s, u, c, m
    <2>1. Len(u) = n + m /\ (\A i \in 1..n : u[i] = s[i]) /\ \A k \in 1..Len(mc) : u[n + k] = mc[k]
      <3>1. /\ Len(s \o mc) = Len(s) + Len(mc) /\ \A i \in 1..Len(s) : (s \o mc)[i] = s[i]
            /\ \A k \in 1..Len(mc) : (s \o mc)[Len(s) + k] = mc[k]
        <4> DEFINE A == AllTags(data)
        <4>1. s \in Seq(A) /\ mc \in Seq(K)
          BY <1>6, <1>8
        <4> HIDE DEF A
        <4>2. QED
          BY <4>1, OneThenOther
      <3>2. QED
        BY <1>8, <1>9, <3>1, Zenon DEF n
    <2>2. ASSUME NEW k \in 1..m PROVE u[n + k] = Moved(c[k], at)
      BY <1>8, <2>1, <2>2, Zenon
    <2>3. QED
      BY <2>1, <2>2, Zenon
  <1>11. \A i \in 1..n : s[i] # Raised /\ s[i].next <= at + 1 /\ s[i].next \in Nat
    <2>1. TAKE i \in 1..n
    <2>2. s[i] # Raised /\ s[i].next <= at + 1
      BY Zenon DEF Whole
    <2>3. s[i] \in AllTags(data)
      <3> HIDE DEF s
      <3>1. QED
        BY <1>6 DEF n
    <2>4. PICK q \in 1..Len(data) : s[i] = read_tag(data, q)
      BY <2>3, Zenon DEF AllTags
    <2>5. s[i].next \in Nat
      BY <2>2, <2>4, ReadTag, Zenon
    <2>6. QED
      BY <2>2, <2>5
  <1>12. \A k \in 1..m : c[k] # Raised /\ c[k].next <= l + 1 /\ c[k].next \in Nat
    <2>1. TAKE k \in 1..m
    <2>2. c[k] # Raised /\ c[k].next <= l + 1
      BY Zenon DEF Whole
    <2>3. c[k] \in AllTags(chunk)
      <3> HIDE DEF c
      <3>1. QED
        BY <1>6 DEF m
    <2>4. PICK q \in 1..Len(chunk) : c[k] = read_tag(chunk, q)
      BY <2>3, Zenon DEF AllTags
    <2>5. c[k].next \in Nat
      BY <2>2, <2>4, ReadTag, Zenon
    <2>6. QED
      BY <2>2, <2>5
  <1>13. \A tag, by : Moved(tag, by).kind = tag.kind /\ Moved(tag, by).next = by + tag.next /\ Moved(tag, by) # Raised
    <2>1. TAKE tag, by
    <2>2. DOMAIN Moved(tag, by) # DOMAIN Raised
      BY DEF Moved, Raised
    <2>3. Moved(tag, by) # Raised
      BY <2>2, Zenon
    <2>4. QED
      BY <2>3 DEF Moved
  <1> HIDE DEF s, c, u, n, m
  <1>14. ASSUME NEW i \in 1..n + m PROVE u[i] # Raised /\ u[i].next <= (at + l) + 1
    <2>1. CASE i \in 1..n
      <3>1. u[i] = s[i] /\ s[i] # Raised /\ s[i].next <= at + 1 /\ s[i].next \in Nat
        BY <1>10, <1>11, <2>1, Zenon
      <3> DEFINE x == s[i].next
      <3> HIDE DEF at, l, x
      <3>2. x <= at + 1 /\ x \in Nat /\ at \in Nat /\ l \in Nat
        BY <1>1, <3>1 DEF x
      <3>3. x <= (at + l) + 1
        BY <3>2
      <3>4. QED
        BY <3>1, <3>3, Zenon DEF x
    <2>2. CASE ~(i \in 1..n)
      <3> DEFINE k == i - n
                 x == c[k].next
      <3>1. k \in 1..m /\ i = n + k
        BY <1>7, <1>14, <2>2
      <3>2. u[i] = Moved(c[k], at) /\ c[k].next <= l + 1 /\ c[k].next \in Nat
        BY <1>10, <1>12, <3>1, Zenon
      <3>3. u[i] # Raised /\ u[i].next = at + x
        BY <1>13, <3>2, Zenon
      <3>4. x <= l + 1 /\ x \in Nat /\ at \in Nat /\ l \in Nat
        BY <1>1, <3>2, Zenon
      <3> HIDE DEF at, l, x
      <3>5. at + x <= (at + l) + 1
        BY <3>4
      <3>6. QED
        BY <3>3, <3>5, Zenon
    <2>3. QED
      BY <2>1, <2>2
  <1>15. Whole(whole, p)
    BY <1>1, <1>10, <1>14, Zenon DEF Whole, u
  <1>16. \A i \in 1..n : u[i].kind = s[i].kind
    BY <1>10, Zenon
  <1>17. ASSUME NEW k \in 1..m PROVE u[n + k].kind = c[k].kind
    <2>1. u[n + k] = Moved(c[k], at)
      BY <1>10, <1>17, Zenon
    <2>2. QED
      BY <1>13, <2>1, Zenon
  <1>18. \A k \in 0..m : /\ Nesting(u, 1, n + k) = Nesting(s, 1, n) + Nesting(c, 1, k)
                         /\ Nesting(s, 1, n) \in Int /\ Nesting(c, 1, k) \in Int
    <2>1. \A k \in 1..m : u[n + k].kind = c[k].kind
      BY <1>17
    <2>2. KindsOf(u, s, c, n, m)
      BY <1>16, <2>1, Zenon DEF KindsOf
    <2>3. NestingAdds(u, s, c, n, m)
      BY <1>7, <2>2, NestingSum, Zenon
    <2>4. QED
      BY <2>3, Zenon DEF NestingAdds
  <1> DEFINE T == Structured(data, p)
             U == Structured(whole, p)
             d == Nesting(s, 1, n)
  <1>19. Len(T) = n /\ \A i \in 1..n : T[i] = Placed(s[i], i, Nesting(s, 1, i - 1))
    BY <1>2, StructuredIs, Zenon DEF s, n
  <1>20. Len(U) = n + m /\ \A i \in 1..n + m : U[i] = Placed(u[i], i, Nesting(u, 1, i - 1))
    <2>1. Len(U) = Len(u) /\ \A i \in 1..Len(U) : U[i] = Placed(u[i], i, Nesting(u, 1, i - 1))
      BY <1>1, <1>2, StructuredIs, Zenon DEF u
    <2>2. QED
      BY <1>10, <2>1, Zenon
  <1> HIDE DEF T, U, d
  <1>21. ASSUME NEW i \in 1..n PROVE U[i] = T[i]
    <2>1. Nesting(u, 1, i - 1) = Nesting(s, 1, i - 1)
      <3>1. \A k \in 1..i - 1 : k \in 1..n
        BY <1>7, <1>21
      <3>2. \A k \in 1..i - 1 : u[k].kind = s[k].kind
        BY <1>16, <3>1, Zenon
      <3>3. QED
        BY <3>2, SameNesting
    <2>2. i \in 1..n + m
      BY <1>7, <1>21
    <2>3. QED
      BY <1>10, <1>19, <1>20, <1>21, <2>1, <2>2, Zenon
  <1>22. ASSUME NEW k \in 1..m PROVE U[n + k] = Placed(Moved(c[k], at), n + k, d + Nesting(c, 1, k - 1))
    <2>1. n + k \in 1..n + m /\ k - 1 \in 0..m /\ (n + k) - 1 = n + (k - 1)
      BY <1>7, <1>22
    <2>2. U[n + k] = Placed(u[n + k], n + k, Nesting(u, 1, (n + k) - 1))
      BY <1>20, <2>1, Zenon
    <2>3. Nesting(u, 1, (n + k) - 1) = d + Nesting(c, 1, k - 1)
      BY <1>18, <2>1, Zenon DEF d
    <2>4. u[n + k] = Moved(c[k], at)
      BY <1>10, <1>22, Zenon
    <2>5. QED
      BY <2>2, <2>3, <2>4, Zenon
  <1>23. GrownBy(T, U, c, at, d)
    <2>1. Len(T) \in Nat /\ Len(c) \in Nat /\ Len(U) = Len(T) + Len(c)
      BY <1>7, <1>19, <1>20, Zenon DEF m
    <2>2. \A i \in 1..Len(T) : U[i] = T[i]
      BY <1>19, <1>21, Zenon
    <2>3. \A k \in 1..Len(c) : U[Len(T) + k] = Placed(Moved(c[k], at), Len(T) + k, d + Nesting(c, 1, k - 1))
      BY <1>19, <1>22, Zenon DEF m
    <2>4. QED
      BY <2>1, <2>2, <2>3, Zenon DEF GrownBy
  <1>24. m \in 0..m
    BY <1>7
  <1>25. /\ DepthAt(data, p) = d /\ DepthAt(chunk, 1) = Nesting(c, 1, m)
         /\ DepthAt(whole, p) = Nesting(u, 1, n + m)
    BY <1>10, Zenon DEF DepthAt, d, s, c, u, n, m
  <1>26. /\ Nesting(u, 1, n + m) = d + Nesting(c, 1, m) /\ d \in Int /\ Nesting(c, 1, m) \in Int
    BY <1>18, <1>24, Zenon DEF d
  <1>27. QED
    BY <1>15, <1>23, <1>25, <1>26, Zenon DEF T, U, c, at, whole

\* The first n tags are the same.
Begins(all, part, n) == \A i \in 1..n : all[i] = part[i]
\* The places where a field is, among the tags from a to b.
Found(tags, a, b, depths, number) ==
    {i \in a..b : IsValue(tags[i], number) /\ tags[i].depth \in depths}
\* No tag after n up to b is such a field.
NoField(tags, n, b, depths, number) ==
    \A i \in n + 1..b : ~(IsValue(tags[i], number) /\ tags[i].depth \in depths)

\* Tags after which the field does not come again: it is where it was.
LEMMA FoundKept ==
    ASSUME NEW T, NEW U, NEW n \in Nat, NEW b \in Nat, n <= b, Begins(U, T, n),
           NEW a \in Nat, a >= 1, NEW depths, NEW number, NoField(U, n, b, depths, number)
    PROVE  Found(U, a, b, depths, number) = Found(T, a, n, depths, number)
  <1> DEFINE P(tags, i) == IsValue(tags[i], number) /\ tags[i].depth \in depths
  <1>1. \A i \in n + 1..b : ~P(U, i)
    BY Zenon DEF NoField
  <1>2. \A i \in 1..n : P(U, i) <=> P(T, i)
    BY Zenon DEF Begins
  <1>3. \A tags, to : Found(tags, a, to, depths, number) = {i \in a..to : P(tags, i)}
    BY Zenon DEF Found
  <1> HIDE DEF P
  <1>4. {i \in a..b : P(U, i)} = {i \in a..n : P(T, i)}
    BY <1>1, <1>2
  <1>5. QED
    BY <1>3, <1>4, Zenon
\* And says what it said.
LEMMA FieldKept ==
    ASSUME NEW T, NEW U, NEW n \in Nat, NEW b \in Nat, n <= b, Begins(U, T, n),
           NEW a \in Nat, a >= 1, NEW depths, NEW number, NoField(U, n, b, depths, number)
    PROVE  Field(U, a, b, depths, number) = Field(T, a, n, depths, number)
  <1> DEFINE F == Found(T, a, n, depths, number)
  <1>1. Found(U, a, b, depths, number) = F
    BY FoundKept
  <1>2. /\ Field(U, a, b, depths, number) = IF F = {} THEN None ELSE Some(U[Max(F)].body)
        /\ Field(T, a, n, depths, number) = IF F = {} THEN None ELSE Some(T[Max(F)].body)
    BY <1>1, Zenon DEF Field, Found
  <1>3. F \subseteq a..n
    BY DEF Found
  <1> HIDE DEF F
  <1>4. F # {} => Max(F) \in 1..n
    <2>1. F \in SUBSET (0..n)
      BY <1>3
    <2>2. F # {} => Max(F) \in F
      BY <2>1, Greatest
    <2>3. \A x \in F : x \in 1..n
      BY <1>3
    <2>4. QED
      BY <2>2, <2>3, Zenon
  <1>5. CASE F = {}
    BY <1>2, <1>5, Zenon
  <1>6. CASE F # {}
    BY <1>2, <1>4, <1>6, Zenon DEF Begins
  <1>7. QED
    BY <1>5, <1>6

\* The last tag is the field.
LEMMA FieldLast ==
    ASSUME NEW U, NEW b \in Nat, NEW a \in Nat, a <= b, NEW depths, NEW number,
           IsValue(U[b], number), U[b].depth \in depths
    PROVE  /\ Max(Found(U, a, b, depths, number)) = b
           /\ Field(U, a, b, depths, number) = Some(U[b].body)
  <1> DEFINE F == Found(U, a, b, depths, number)
  <1>1. b \in a..b
    OBVIOUS
  <1>2. b \in F
    BY <1>1, Zenon DEF Found
  <1>3. F \subseteq a..b
    BY DEF Found
  <1>4. Field(U, a, b, depths, number) = IF F = {} THEN None ELSE Some(U[Max(F)].body)
    BY Zenon DEF Field, Found
  <1> HIDE DEF F
  <1>5. Max(F) = b
    <2>1. F \in SUBSET (0..b) /\ F # {}
      BY <1>2, <1>3
    <2>2. Max(F) \in F /\ \A y \in F : y <= Max(F)
      BY <2>1, Greatest
    <2>3. b <= Max(F) /\ Max(F) \in a..b
      BY <1>2, <1>3, <2>2
    <2>4. QED
      BY <2>3
  <1>6. F # {}
    BY <1>2
  <1>7. QED
    BY <1>4, <1>5, <1>6, Zenon DEF F

PropertyAt(tags, i) == Max({1} \cup Found(tags, 1, i, {1}, 2))
\* Which property the tags are about, when one came last and when none did.
LEMMA PropertyIs ==
    ASSUME NEW tags, NEW i
    PROVE  PropertyOf(tags, i) = PropertyAt(tags, i)
  <1>1. {j \in 1..i : IsValue(tags[j], 2) /\ tags[j].depth = 1} = Found(tags, 1, i, {1}, 2)
    <2> DEFINE P(j) == IsValue(tags[j], 2)
    <2>1. Found(tags, 1, i, {1}, 2) = {j \in 1..i : P(j) /\ tags[j].depth \in {1}}
      BY Zenon DEF Found
    <2>2. {j \in 1..i : IsValue(tags[j], 2) /\ tags[j].depth = 1} = {j \in 1..i : P(j) /\ tags[j].depth = 1}
      BY Zenon
    <2> HIDE DEF P
    <2>3. QED
      BY <2>1, <2>2
  <1>2. QED
    BY <1>1, Zenon DEF PropertyOf, PropertyAt

\* No tag that is all there is broken.
LEMMA WholeUnbroken ==
    ASSUME NEW data \in Octets, NEW p \in Place, Whole(data, p)
    PROVE  ~Broken(Structured(data, p))
  <1> DEFINE s == Tags(data, p)
             T == Structured(data, p)
  <1>1. /\ Len(T) = Len(s) /\ Len(T) \in Nat /\ \A i \in 1..Len(T) : T[i].kind = s[i].kind
    BY StructuredIs, Zenon
  <1>2. s \in Seq(AllTags(data))
    BY TagsFrom, Zenon
  <1>3. ASSUME NEW i \in 1..Len(T) PROVE T[i].kind # "raise"
    <2>1. i \in 1..Len(s)
      BY <1>1, <1>3
    <2>2. s[i] # Raised
      BY <2>1, Zenon DEF Whole
    <2>3. s[i] \in AllTags(data)
      <3> HIDE DEF s
      <3>1. QED
        BY <1>2, <2>1
    <2>4. PICK q \in 1..Len(data) : s[i] = read_tag(data, q)
      BY <2>3, Zenon DEF AllTags
    <2>5. s[i].kind # "raise"
      BY <2>2, <2>4, ReadTag, Zenon
    <2>6. QED
      BY <1>1, <1>3, <2>5, Zenon
  <1>4. QED
    BY <1>3, Zenon DEF Broken

\* Octets that are all there, whose every entry is closed and says one of the results R,
\* and whose object identifiers have their four octets.
Sized(t) == IsValue(t, 0) /\ t.depth = 0 => Len(t.body) = 4
SaysOneOf(data, T, i, R) ==
    ClosedBy(T, i) # 0 /\ <<EntryKey(T, i), EntryResult(data, T, i)>> \in R
Reading(data, p, R) ==
    /\ data \in Octets /\ p \in 1..Len(data) + 1 /\ Whole(data, p)
    /\ \A i \in Entries(Structured(data, p)) : SaysOneOf(data, Structured(data, p), i, R)
    /\ \A i \in 1..Len(Structured(data, p)) : Sized(Structured(data, p)[i])

\* What the entries said they say when more octets follow.
LEMMA ReadingGrows ==
    ASSUME NEW data, NEW p, NEW R, Reading(data, p, R), NEW chunk \in Octets, Whole(chunk, 1),
           \A i \in Entries(Structured(data \o chunk, p)) :
             i > Len(Structured(data, p)) => SaysOneOf(data \o chunk, Structured(data \o chunk, p), i, R),
           \A i \in 1..Len(Structured(data \o chunk, p)) :
             i > Len(Structured(data, p)) => Sized(Structured(data \o chunk, p)[i])
    PROVE  Reading(data \o chunk, p, R)
  <1> DEFINE whole == data \o chunk
             T == Structured(data, p)
             U == Structured(whole, p)
             c == Tags(chunk, 1)
  <1>1. data \in Octets /\ p \in 1..Len(data) + 1 /\ Whole(data, p)
    BY Zenon DEF Reading
  <1>2. /\ whole \in Octets /\ Len(whole) = Len(data) + Len(chunk) /\ Holds(whole, 0, data)
        /\ Len(data) \in Nat /\ Len(chunk) \in Nat
    BY <1>1, HoldsAfter, Zenon
  <1>3. Whole(whole, p) /\ GrownBy(T, U, c, Len(data), DepthAt(data, p))
    BY <1>1, Grown, Zenon
  <1>4. Len(T) \in Nat /\ Len(c) \in Nat /\ Len(U) = Len(T) + Len(c) /\ \A i \in 1..Len(T) : U[i] = T[i]
    BY <1>3, Zenon DEF GrownBy
  <1>5. p \in Place
    BY <1>1, <1>2 DEF Place
  <1>6. PlacedAgree(T, U, Len(data))
    BY <1>1, <1>2, <1>5, WholeUnbroken, CutStructured, Zenon
  <1>7. ASSUME NEW i \in Entries(U) PROVE SaysOneOf(whole, U, i, R)
    <2>1. CASE i > Len(T)
      BY <1>7, <2>1, Zenon
    <2>2. CASE ~(i > Len(T))
      <3>1. i \in 1..Len(U) /\ U[i].kind = "open" /\ U[i].number \in {4, 5} /\ U[i].depth = 1
        BY <1>7, Zenon DEF Entries
      <3> HIDE DEF T, U, c
      <3>2. i \in 1..Len(T)
        BY <1>4, <2>2, <3>1
      <3>3. U[i] = T[i]
        BY <1>4, <3>2
      <3>4. i \in Entries(T)
        BY <3>1, <3>2, <3>3, Zenon DEF Entries
      <3>5. ClosedBy(T, i) # 0 /\ <<EntryKey(T, i), EntryResult(data, T, i)>> \in R
        BY <3>4, Zenon DEF Reading, SaysOneOf, T
      <3>6. SameEntry(whole, U, data, T, i)
        BY <1>1, <1>2, <1>6, <3>4, <3>5, CutEntry, Zenon
      <3>7. ClosedBy(U, i) = ClosedBy(T, i)
        BY <1>6, <3>2, <3>5, SameClosed, Zenon
      <3>8. QED
        BY <3>5, <3>6, <3>7, Zenon DEF SameEntry, SaysOneOf
    <2>3. QED
      BY <2>1, <2>2
  <1>8. p \in 1..Len(whole) + 1
    BY <1>1, <1>2
  <1>9. ASSUME NEW i \in 1..Len(U) PROVE Sized(U[i])
    <2>1. CASE i > Len(T)
      BY <1>9, <2>1, Zenon
    <2>2. CASE ~(i > Len(T))
      <3>1. \A j \in 1..Len(T) : Sized(T[j])
        BY Zenon DEF Reading
      <3> HIDE DEF T, U, c
      <3>2. i \in 1..Len(T)
        BY <1>4, <1>9, <2>2
      <3>3. U[i] = T[i]
        BY <1>4, <3>2
      <3>4. QED
        BY <3>1, <3>2, <3>3, Zenon
    <2>3. QED
      BY <2>1, <2>2
  <1>10. QED
    BY <1>2, <1>3, <1>7, <1>8, <1>9, Zenon DEF Reading

OneMoreTag(data, chunk, p, t) ==
    LET T == Structured(data, p)
        U == Structured(data \o chunk, p)
    IN  /\ Len(T) \in Nat /\ Len(U) = Len(T) + 1 /\ \A i \in 1..Len(T) : U[i] = T[i]
        /\ U[Len(T) + 1] = Placed(Moved(t, Len(data)), Len(T) + 1, DepthAt(data, p))
        /\ DepthAt(data, p) \in Int /\ DepthAt(data \o chunk, p) = DepthAt(data, p) + Depth(t)
        /\ data \o chunk \in Octets /\ p \in 1..Len(data \o chunk) + 1 /\ Whole(data \o chunk, p)
\* One more tag: what the octets are then.
LEMMA OneTagMore ==
    ASSUME NEW data \in Octets, NEW p \in 1..Len(data) + 1, Whole(data, p),
           NEW chunk \in Octets, Whole(chunk, 1), NEW t, Tags(chunk, 1) = <<t>>
    PROVE  OneMoreTag(data, chunk, p, t)
  <1> DEFINE whole == data \o chunk
             T == Structured(data, p)
             U == Structured(whole, p)
             c == <<t>>
             d == DepthAt(data, p)
             n == Len(T)
  <1>1. /\ whole \in Octets /\ Len(whole) = Len(data) + Len(chunk)
        /\ Len(data) \in Nat /\ Len(chunk) \in Nat
    BY HoldsAfter, Zenon
  <1>2. /\ Whole(whole, p) /\ GrownBy(T, U, c, Len(data), d)
        /\ DepthAt(whole, p) = d + DepthAt(chunk, 1) /\ d \in Int
    BY Grown, Zenon
  <1>3. Len(c) = 1 /\ c[1] = t /\ 1 \in 1..1 /\ 1 - 1 = 0
    OBVIOUS
  <1>4. Nesting(c, 1, 0) = 0 /\ Nesting(c, 1, 1) = Depth(t)
    <2>1. 1 \in Int /\ 0 \in Int /\ 1 <= 0 + 1 /\ 0 + 1 = 1
      OBVIOUS
    <2> HIDE DEF c
    <2>2. Nesting(c, 1, 1 - 1) = 0 /\ Nesting(c, 1, 0 + 1) = Nesting(c, 1, 0) + Depth(c[0 + 1])
      BY <2>1, NestingStep, Zenon
    <2>3. Depth(t) \in Int
      BY DEF Depth
    <2>4. Nesting(c, 1, 0) = 0
      BY <1>3, <2>2, Zenon
    <2>5. Nesting(c, 1, 1) = 0 + Depth(t)
      BY <1>3, <2>1, <2>2, <2>4, Zenon
    <2> DEFINE e == Depth(t)
    <2> HIDE DEF e
    <2>6. 0 + e = e
      BY <2>3 DEF e
    <2>7. QED
      BY <2>4, <2>5, <2>6, Zenon DEF e
  <1>5. DepthAt(chunk, 1) = Depth(t)
    BY <1>3, <1>4, Zenon DEF DepthAt
  <1> HIDE DEF c, d, T, U
  <1>6. /\ n \in Nat /\ Len(U) = n + 1 /\ (\A i \in 1..n : U[i] = T[i])
        /\ U[n + 1] = Placed(Moved(t, Len(data)), n + 1, d + 0)
    BY <1>2, <1>3, <1>4, Zenon DEF GrownBy
  <1>7. d + 0 = d /\ p \in 1..Len(whole) + 1
    BY <1>1, <1>2
  <1>8. QED
    BY <1>1, <1>2, <1>5, <1>6, <1>7, Zenon DEF OneMoreTag, T, U, d

\* The octets of one context value: one tag.
LEMMA ContextValue ==
    ASSUME NEW tag \in Nat, tag <= 14, NEW body \in Octets, Len(body) \in 0..4
    PROVE  LET chunk == Context(tag, Len(body)) \o body
           IN  chunk \in Octets /\ Whole(chunk, 1) /\ Tags(chunk, 1) = <<ValueTag(tag, body, 1)>>
  <1> DEFINE chunk == Context(tag, Len(body)) \o body
             k == Len(body)
             t == ValueTag(tag, body, 1)
  <1>1. chunk \in Octets /\ Len(chunk) = 1 + k
    BY ValueOctets, Zenon
  <1>2. k \in Nat /\ 0 \in Nat /\ 0 + 1 = 1
    BY OctetsAre
  <1>3. Holds(chunk, 0, chunk)
    BY <1>1, HoldsSelf, Zenon
  <1>4. read_tag(chunk, 0 + 1) = ValueTag(tag, body, 0 + 1)
    BY <1>1, <1>2, <1>3, ValueTagRead, Zenon
  <1>5. read_tag(chunk, 1) = t
    BY <1>2, <1>4, Zenon
  <1>6. t.kind = "value" /\ t.next = 1 + 1 + k
    BY DEF ValueTag
  <1> HIDE DEF chunk, t, k
  <1>7. Len(chunk) >= 1 /\ t.next = Len(chunk) + 1
    BY <1>1, <1>2, <1>6
  <1>8. Tags(chunk, 1) = <<t>> /\ Primitive(chunk)
    <2>1. read_tag(chunk, 1).kind = "value" /\ read_tag(chunk, 1).next = Len(chunk) + 1
      BY <1>5, <1>6, <1>7, Zenon
    <2>2. Tags(chunk, 1) = <<read_tag(chunk, 1)>> /\ Primitive(chunk)
      BY <1>1, <1>7, <2>1, OneTag, Zenon
    <2>3. QED
      BY <1>5, <2>2, Zenon
  <1>9. Whole(chunk, 1)
    BY <1>1, <1>8, OneElement, ElementsWhole, Zenon
  <1>10. QED
    BY <1>1, <1>8, <1>9, Zenon DEF chunk, t, k

IsBoundary(t, tag, kind) ==
    t.kind = kind /\ t.number = tag /\ t.start = 1 /\ t.next = 2
\* The octet of an opening or a closing tag: one tag.
LEMMA Boundary ==
    ASSUME NEW tag \in Nat, tag <= 14, NEW lvt \in {6, 7}
    PROVE  LET chunk == Context(tag, lvt)
           IN  /\ chunk \in Octets /\ Len(chunk) = 1 /\ Whole(chunk, 1)
               /\ \E t : Tags(chunk, 1) = <<t>> /\ IsBoundary(t, tag, KindOf(lvt))
  <1> DEFINE chunk == Context(tag, lvt)
             t == read_tag(chunk, 1)
  <1>1. chunk \in Octets
    BY TagOctet
  <1>2. Len(chunk) = 1
    BY DEF Context
  <1>3. 0 \in Nat /\ 0 + 1 = 1 /\ 1 + 1 = 2
    OBVIOUS
  <1>4. BoundaryAt(chunk, 0, tag, KindOf(lvt))
    BY <1>1, <1>3, HoldsSelf, BoundaryGoesOn, Zenon
  <1> HIDE DEF chunk
  <1>5. /\ t.kind = KindOf(lvt) /\ t.number = tag /\ t.start = 1 /\ t.next = 2
        /\ Tags(chunk, 1) = <<t>> \o Tags(chunk, 2)
    BY <1>3, <1>4, Zenon DEF BoundaryAt
  <1>6. Tags(chunk, 2) = <<>>
    BY <1>1, <1>2, <1>3, TagsEnd, Zenon
  <1> HIDE DEF t
  <1>7. Tags(chunk, 1) = <<t>>
    <2>1. <<t>> \o <<>> = <<t>>
      OBVIOUS
    <2>2. QED
      BY <1>5, <1>6, <2>1, Zenon
  <1>8. Whole(chunk, 1)
    <2>1. Len(<<t>>) = 1 /\ <<t>>[1] = t /\ \A i \in 1..1 : i = 1
      OBVIOUS
    <2>2. t # Raised
      <3>1. t.kind # "raise"
        BY <1>5 DEF KindOf
      <3>2. Raised.kind = "raise"
        BY DEF Raised
      <3>3. QED
        BY <3>1, <3>2, Zenon
    <2>3. t.next <= Len(chunk) + 1
      BY <1>2, <1>5
    <2>4. QED
      BY <1>7, <2>1, <2>2, <2>3, Zenon DEF Whole
  <1>9. QED
    BY <1>1, <1>2, <1>5, <1>7, <1>8, Zenon DEF IsBoundary, chunk

\* A placed tag is what the tag is, at its depth.
PlacedLike(x, t, by, d) ==
    /\ x.kind = t.kind /\ x.number = t.number /\ x.body = t.body /\ x.depth = d
    /\ x.start = by + t.start /\ x.next = by + t.next
\* Placing a tag changes only where it is.
LEMMA PlacedIs ==
    ASSUME NEW t, NEW by, NEW at, NEW d, t.kind # "raise"
    PROVE  PlacedLike(Placed(Moved(t, by), at, d), t, by, d)
  <1> DEFINE m == Moved(t, by)
             x == Placed(m, at, d)
  <1>1. /\ m.kind = t.kind /\ m.number = t.number /\ m.body = t.body
        /\ m.start = by + t.start /\ m.next = by + t.next
    BY DEF Moved
  <1> HIDE DEF m
  <1>2. x = [number |-> m.number, context |-> m.context, kind |-> m.kind, body |-> m.body,
             start |-> m.start, next |-> m.next, at |-> at, depth |-> d]
    BY <1>1, Zenon DEF Placed
  <1> HIDE DEF x
  <1>3. /\ x.kind = m.kind /\ x.number = m.number /\ x.body = m.body /\ x.depth = d
        /\ x.start = m.start /\ x.next = m.next
    BY <1>2
  <1>4. QED
    BY <1>1, <1>3, Zenon DEF PlacedLike, m, x

\* A context value is a value wherever it is placed.
LEMMA PlacedValue ==
    ASSUME NEW tag, NEW body, NEW by, NEW at, NEW d
    PROVE  IsValue(Placed(Moved(ValueTag(tag, body, 1), by), at, d), tag)
  <1> DEFINE m == Moved(ValueTag(tag, body, 1), by)
             x == Placed(m, at, d)
  <1>1. m.kind = "value" /\ m.number = tag
    BY DEF Moved, ValueTag
  <1>2. m.context
    BY DEF Moved, ValueTag
  <1> HIDE DEF m
  <1>3. m.kind # "raise"
    BY <1>1
  <1>4. x = [number |-> m.number, context |-> m.context, kind |-> m.kind, body |-> m.body,
             start |-> m.start, next |-> m.next, at |-> at, depth |-> d]
    BY <1>3, Zenon DEF Placed
  <1> HIDE DEF x
  <1>5. x.kind = "value" /\ x.number = tag
    BY <1>1, <1>4
  <1>6. x.context
    BY <1>2, <1>4
  <1>7. QED
    BY <1>5, <1>6, Zenon DEF IsValue, x, m

ValueLast(data, chunk, p, R, tag, body) ==
    LET T == Structured(data, p)
        U == Structured(data \o chunk, p)
        x == U[Len(T) + 1]
    IN  /\ Len(T) \in Nat /\ Len(U) = Len(T) + 1 /\ Begins(U, T, Len(T))
        /\ x.kind = "value" /\ x.number = tag /\ x.depth = DepthAt(data, p) /\ x.body = body
        /\ IsValue(x, tag)
        /\ DepthAt(data \o chunk, p) = DepthAt(data, p)
        /\ Reading(data \o chunk, p, R)
\* A context value is put after what was read.
LEMMA ValueAdded ==
    ASSUME NEW data, NEW p, NEW R, Reading(data, p, R),
           NEW tag \in Nat, tag <= 14, NEW body \in Octets, Len(body) \in 0..4,
           tag = 0 => Len(body) = 4
    PROVE  ValueLast(data, Context(tag, Len(body)) \o body, p, R, tag, body)
  <1> DEFINE chunk == Context(tag, Len(body)) \o body
             t == ValueTag(tag, body, 1)
             T == Structured(data, p)
             U == Structured(data \o chunk, p)
             n == Len(T)
             x == U[n + 1]
             d == DepthAt(data, p)
  <1>1. data \in Octets /\ p \in 1..Len(data) + 1 /\ Whole(data, p)
    BY Zenon DEF Reading
  <1>2. chunk \in Octets /\ Whole(chunk, 1) /\ Tags(chunk, 1) = <<t>>
    BY ContextValue, Zenon
  <1>3. t.kind = "value" /\ t.number = tag /\ t.body = body
    BY DEF ValueTag
  <1> HIDE DEF chunk, t
  <1>5. OneMoreTag(data, chunk, p, t)
    BY <1>1, <1>2, OneTagMore, Zenon
  <1>6. /\ n \in Nat /\ Len(U) = n + 1 /\ (\A i \in 1..n : U[i] = T[i])
        /\ x = Placed(Moved(t, Len(data)), n + 1, d) /\ d \in Int
        /\ DepthAt(data \o chunk, p) = d + Depth(t)
    BY <1>5, Zenon DEF OneMoreTag
  <1>7. x.kind = "value" /\ x.number = tag /\ x.body = body /\ x.depth = d
    <2>1. t.kind # "raise"
      BY <1>3
    <2>2. PlacedLike(x, t, Len(data), d)
      <3>1. PlacedLike(Placed(Moved(t, Len(data)), n + 1, d), t, Len(data), d)
        BY <2>1, PlacedIs, Zenon
      <3> HIDE DEF x, d, n
      <3>2. QED
        BY <1>6, <3>1, Zenon
    <2> HIDE DEF x, d
    <2>3. QED
      BY <1>3, <2>2, Zenon DEF PlacedLike
  <1>8. IsValue(x, tag)
    <2>1. IsValue(Placed(Moved(t, Len(data)), n + 1, d), tag)
      BY PlacedValue, Zenon DEF t
    <2> HIDE DEF x, d, n
    <2>2. QED
      BY <1>6, <2>1, Zenon
  <1>9. DepthAt(data \o chunk, p) = d
    <2>1. Depth(t) = 0
      BY <1>3 DEF Depth
    <2> HIDE DEF d
    <2>2. d + 0 = d
      BY <1>6
    <2>3. QED
      BY <1>6, <2>1, <2>2, Zenon
  <1>10. Reading(data \o chunk, p, R)
    <2>1. ASSUME NEW i \in Entries(U), i > n PROVE SaysOneOf(data \o chunk, U, i, R)
      <3>1. i \in 1..Len(U) /\ U[i].kind = "open"
        BY <2>1, Zenon DEF Entries
      <3>2. i = n + 1
        <4> HIDE DEF n, U
        <4>1. QED
          BY <1>6, <2>1, <3>1
      <3>3. "open" # "value"
        OBVIOUS
      <3>4. QED
        BY <1>7, <3>1, <3>2, <3>3, Zenon
    <2>2. \A i \in Entries(U) : i > n => SaysOneOf(data \o chunk, U, i, R)
      BY <2>1, Zenon
    <2>3. ASSUME NEW i \in 1..Len(U), i > n PROVE Sized(U[i])
      <3>1. i = n + 1
        <4> HIDE DEF n, U
        <4>1. QED
          BY <1>6, <2>3
      <3>2. IsValue(x, 0) => tag = 0
        BY <1>7, Zenon DEF IsValue
      <3>3. Sized(x)
        BY <1>7, <3>2, Zenon DEF Sized
      <3>4. QED
        BY <3>1, <3>3, Zenon
    <2>4. \A i \in 1..Len(U) : i > n => Sized(U[i])
      BY <2>3, Zenon
    <2>5. QED
      BY <1>2, <2>2, <2>4, ReadingGrows, Zenon
  <1>11. QED
    BY <1>6, <1>7, <1>8, <1>9, <1>10, Zenon DEF ValueLast, Begins, chunk

BoundaryLast(data, chunk, p, R, kind) ==
    LET T == Structured(data, p)
        U == Structured(data \o chunk, p)
    IN  /\ Len(T) \in Nat /\ Len(U) = Len(T) + 1 /\ Begins(U, T, Len(T))
        /\ U[Len(T) + 1].kind = kind
        /\ DepthAt(data \o chunk, p) = DepthAt(data, p) + (IF kind = "open" THEN 1 ELSE -1)
        /\ Reading(data \o chunk, p, R)
\* An opening or a closing tag is put after what was read, not that of an entry.
LEMMA BoundaryAdded ==
    ASSUME NEW data, NEW p, NEW R, Reading(data, p, R),
           NEW tag \in Nat, tag <= 14, tag \notin {4, 5}, NEW lvt \in {6, 7}
    PROVE  BoundaryLast(data, Context(tag, lvt), p, R, KindOf(lvt))
  <1> DEFINE chunk == Context(tag, lvt)
             T == Structured(data, p)
             U == Structured(data \o chunk, p)
             n == Len(T)
             x == U[n + 1]
             d == DepthAt(data, p)
             kind == KindOf(lvt)
  <1>1. data \in Octets /\ p \in 1..Len(data) + 1 /\ Whole(data, p)
    BY Zenon DEF Reading
  <1>2. /\ chunk \in Octets /\ Whole(chunk, 1)
        /\ \E t : Tags(chunk, 1) = <<t>> /\ IsBoundary(t, tag, kind)
    BY Boundary, Zenon
  <1>3. PICK t : Tags(chunk, 1) = <<t>> /\ IsBoundary(t, tag, kind)
    BY <1>2, Zenon
  <1>4. t.kind = kind /\ t.number = tag /\ kind \in {"open", "close"}
    BY <1>3 DEF IsBoundary, KindOf
  <1> HIDE DEF chunk, kind
  <1>5. OneMoreTag(data, chunk, p, t)
    BY <1>1, <1>2, <1>3, OneTagMore, Zenon
  <1>6. /\ n \in Nat /\ Len(U) = n + 1 /\ (\A i \in 1..n : U[i] = T[i])
        /\ x = Placed(Moved(t, Len(data)), n + 1, d) /\ d \in Int
        /\ DepthAt(data \o chunk, p) = d + Depth(t)
    BY <1>5, Zenon DEF OneMoreTag
  <1>7. x.kind = kind /\ x.number = tag
    <2>1. t.kind # "raise"
      BY <1>4
    <2>2. PlacedLike(x, t, Len(data), d)
      <3>1. PlacedLike(Placed(Moved(t, Len(data)), n + 1, d), t, Len(data), d)
        BY <2>1, PlacedIs, Zenon
      <3> HIDE DEF x, d, n
      <3>2. QED
        BY <1>6, <3>1, Zenon
    <2> HIDE DEF x, d
    <2>3. QED
      BY <1>4, <2>2, Zenon DEF PlacedLike
  <1>8. Depth(t) = IF kind = "open" THEN 1 ELSE -1
    BY <1>4 DEF Depth
  <1>9. Reading(data \o chunk, p, R)
    <2>1. ASSUME NEW i \in Entries(U), i > n PROVE SaysOneOf(data \o chunk, U, i, R)
      <3>1. i \in 1..Len(U) /\ U[i].number \in {4, 5}
        BY <2>1, Zenon DEF Entries
      <3>2. i = n + 1
        <4> HIDE DEF n, U
        <4>1. QED
          BY <1>6, <2>1, <3>1
      <3>3. QED
        BY <1>7, <3>1, <3>2, Zenon
    <2>2. \A i \in Entries(U) : i > n => SaysOneOf(data \o chunk, U, i, R)
      BY <2>1, Zenon
    <2>3. ASSUME NEW i \in 1..Len(U), i > n PROVE Sized(U[i])
      <3>1. i = n + 1
        <4> HIDE DEF n, U
        <4>1. QED
          BY <1>6, <2>3
      <3>2. x.kind # "value"
        BY <1>4, <1>7
      <3>3. QED
        BY <3>1, <3>2, Zenon DEF Sized, IsValue
    <2>4. \A i \in 1..Len(U) : i > n => Sized(U[i])
      BY <2>3, Zenon
    <2>5. QED
      BY <1>2, <2>2, <2>4, ReadingGrows, Zenon
  <1>10. QED
    BY <1>6, <1>7, <1>8, <1>9, Zenon DEF BoundaryLast, Begins, chunk, kind

\* Where a property result is looked for: its index is after the property.
LEMMA PropertyPlace ==
    ASSUME NEW tags, NEW n \in Nat
    PROVE  PropertyOf(tags, n) \in Nat /\ PropertyOf(tags, n) >= 1 /\ PropertyOf(tags, n) <= n + 1
  <1> DEFINE F == {1} \cup Found(tags, 1, n, {1}, 2)
             m == n + 1
  <1>1. PropertyOf(tags, n) = Max(F)
    BY PropertyIs, Zenon DEF PropertyAt
  <1>2. Found(tags, 1, n, {1}, 2) \subseteq 1..n
    BY DEF Found
  <1>3. F \subseteq 1..m /\ F # {}
    BY <1>2
  <1> HIDE DEF F
  <1>4. F \in SUBSET (0..m) /\ m \in Nat
    BY <1>3
  <1> HIDE DEF m
  <1>5. Max(F) \in F
    BY <1>3, <1>4, Greatest
  <1>6. \A x \in F : x \in Nat /\ x >= 1 /\ x <= m
    BY <1>3, <1>4
  <1>7. QED
    BY <1>1, <1>5, <1>6, Zenon DEF m

NoKeyField(tags, n, b) ==
    NoField(tags, n, b, {0}, 0) /\ NoField(tags, n, b, {1}, 2) /\ NoField(tags, n, b, {1}, 3)
\* The key at the end of the tags, when no field of it came since.
LEMMA KeyKept ==
    ASSUME NEW T, NEW U, NEW n \in Nat, NEW b \in Nat, n <= b, Begins(U, T, n),
           NoKeyField(U, n, b)
    PROVE  EntryKey(U, b) = EntryKey(T, n)
  <1> DEFINE q == PropertyOf(T, n)
  <1>1. NoField(U, n, b, {0}, 0) /\ NoField(U, n, b, {1}, 2) /\ NoField(U, n, b, {1}, 3)
    BY Zenon DEF NoKeyField
  <1>2. q \in Nat /\ q >= 1 /\ 1 \in Nat /\ 1 >= 1
    BY PropertyPlace
  <1>3. PropertyOf(U, b) = q
    <2>1. Found(U, 1, b, {1}, 2) = Found(T, 1, n, {1}, 2)
      BY <1>1, <1>2, FoundKept
    <2>2. QED
      BY <2>1, PropertyIs, Zenon DEF PropertyAt
  <1> HIDE DEF q
  <1>4. /\ Field(U, 1, b, {0}, 0) = Field(T, 1, n, {0}, 0)
        /\ Field(U, 1, b, {1}, 2) = Field(T, 1, n, {1}, 2)
        /\ Field(U, q, b, {1}, 3) = Field(T, q, n, {1}, 3)
    BY <1>1, <1>2, FieldKept
  <1>5. QED
    BY <1>3, <1>4, Zenon DEF EntryKey, q

\* The last tag is not the field.
LEMMA NotLast ==
    ASSUME NEW tags, NEW n \in Nat, NEW depths, NEW number,
           ~(IsValue(tags[n + 1], number) /\ tags[n + 1].depth \in depths)
    PROVE  NoField(tags, n, n + 1, depths, number)
  <1>1. \A i \in n + 1..n + 1 : i = n + 1
    OBVIOUS
  <1>2. QED
    BY <1>1, Zenon DEF NoField

\* The steps of reading an answer: outside the objects, after an object identifier,
\* inside the object's results, after the property and the index of one.
ObjectAt(tags) == AsObject(Field(tags, 1, Len(tags), {0}, 0)[1])
AtTop(data, p, R) == Reading(data, p, R) /\ DepthAt(data, p) = 0
Named(data, p, R, o) == AtTop(data, p, R) /\ ObjectAt(Structured(data, p)) = o
InObject(data, p, R, o) ==
    Reading(data, p, R) /\ DepthAt(data, p) = 1 /\ ObjectAt(Structured(data, p)) = o
AtProperty(data, p, R, o, key) ==
    InObject(data, p, R, o) /\ EntryKey(Structured(data, p), Len(Structured(data, p))) = key

\* An object identifier.
LEMMA ObjectNamed ==
    ASSUME NEW data, NEW p, NEW R, AtTop(data, p, R),
           NEW o \in Nat \X Nat, o[1] < 1024, o[2] <= MAX_INSTANCE
    PROVE  Named(data \o context_object_id(0, o), p, R, o)
  <1> DEFINE body == object_id(o)
             chunk == context_object_id(0, o)
             T == Structured(data, p)
             U == Structured(data \o chunk, p)
             n == Len(T)
             b == n + 1
  <1>1. body \in Octets /\ Len(body) = 4 /\ AsObject(body) = o
    BY ObjectReadBack, ZenonT(60)
  <1>2. chunk = Context(0, Len(body)) \o body
    BY <1>1, ZenonT(60) DEF context_object_id
  <1> HIDE DEF body, chunk
  <1>3. ValueLast(data, chunk, p, R, 0, body)
    <2>1. 0 \in Nat /\ 0 <= 14 /\ Len(body) \in 0..4 /\ Reading(data, p, R) /\ (0 = 0 => Len(body) = 4)
      BY <1>1 DEF AtTop
    <2>2. QED
      BY <1>1, <1>2, <2>1, ValueAdded, ZenonT(60)
  <1>4. /\ n \in Nat /\ Len(U) = n + 1 /\ IsValue(U[n + 1], 0) /\ U[n + 1].body = body
        /\ U[n + 1].depth = DepthAt(data, p)
        /\ DepthAt(data \o chunk, p) = DepthAt(data, p) /\ Reading(data \o chunk, p, R)
    BY <1>3, Zenon DEF ValueLast
  <1>5. DepthAt(data, p) = 0
    BY Zenon DEF AtTop
  <1> HIDE DEF T, U, n
  <1>6. b \in Nat /\ 1 \in Nat /\ 1 <= b /\ U[b].depth \in {0} /\ IsValue(U[b], 0)
    BY <1>4, <1>5
  <1>7. Field(U, 1, b, {0}, 0) = Some(body)
    <2> HIDE DEF b
    <2>1. Field(U, 1, b, {0}, 0) = Some(U[b].body)
      BY <1>6, FieldLast
    <2>2. QED
      BY <1>4, <2>1, ZenonT(60) DEF b
  <1>8. ObjectAt(U) = o
    <2>1. Some(body)[1] = body
      BY DEF Some
    <2>2. QED
      BY <1>1, <1>4, <1>7, <2>1, ZenonT(60) DEF ObjectAt
  <1>9. QED
    BY <1>4, <1>5, <1>8, Zenon DEF Named, AtTop, U, chunk

\* The results of an object are opened.
LEMMA ResultsOpened ==
    ASSUME NEW data, NEW p, NEW R, NEW o, Named(data, p, R, o)
    PROVE  InObject(data \o opening(1), p, R, o)
  <1> DEFINE chunk == opening(1)
             T == Structured(data, p)
             U == Structured(data \o chunk, p)
             n == Len(T)
             b == n + 1
  <1>1. Reading(data, p, R) /\ DepthAt(data, p) = 0 /\ ObjectAt(T) = o
    BY Zenon DEF Named, AtTop
  <1>2. BoundaryLast(data, chunk, p, R, "open")
    <2>1. 1 \in Nat /\ 1 <= 14 /\ 1 \notin {4, 5} /\ 6 \in {6, 7} /\ KindOf(6) = "open"
      BY DEF KindOf
    <2>2. BoundaryLast(data, Context(1, 6), p, R, KindOf(6))
      BY <1>1, <2>1, BoundaryAdded, Zenon
    <2>3. QED
      BY <2>1, <2>2, Zenon DEF opening
  <1> HIDE DEF chunk
  <1>3. /\ n \in Nat /\ Len(U) = n + 1 /\ Begins(U, T, n) /\ U[n + 1].kind = "open"
        /\ DepthAt(data \o chunk, p) = DepthAt(data, p) + 1 /\ Reading(data \o chunk, p, R)
    BY <1>2, Zenon DEF BoundaryLast
  <1> HIDE DEF T, U, n
  <1>4. NoField(U, n, b, {0}, 0)
    <2>1. "open" # "value"
      OBVIOUS
    <2>2. ~IsValue(U[n + 1], 0)
      BY <1>3, <2>1, Zenon DEF IsValue
    <2>3. QED
      BY <1>3, <2>2, NotLast, Zenon
  <1>5. b \in Nat /\ n <= b /\ 1 \in Nat /\ 1 >= 1
    BY <1>3
  <1>6. Field(U, 1, b, {0}, 0) = Field(T, 1, n, {0}, 0)
    <2> HIDE DEF b
    <2>1. QED
      <3>1. n \in Nat /\ Begins(U, T, n)
        BY <1>3, Zenon
      <3>2. QED
        BY <1>4, <1>5, <3>1, FieldKept
  <1>7. ObjectAt(U) = o
    BY <1>1, <1>3, <1>6, Zenon DEF ObjectAt, n
  <1>8. DepthAt(data \o chunk, p) = 1
    BY <1>1, <1>3
  <1>9. QED
    BY <1>3, <1>7, <1>8, Zenon DEF InObject, U, chunk

\* And closed.
LEMMA ResultsClosed ==
    ASSUME NEW data, NEW p, NEW R, NEW o, InObject(data, p, R, o)
    PROVE  AtTop(data \o closing(1), p, R)
  <1> DEFINE chunk == closing(1)
  <1>1. Reading(data, p, R) /\ DepthAt(data, p) = 1
    BY Zenon DEF InObject
  <1>2. BoundaryLast(data, chunk, p, R, "close")
    <2>1. 1 \in Nat /\ 1 <= 14 /\ 1 \notin {4, 5} /\ 7 \in {6, 7} /\ KindOf(7) = "close"
      BY DEF KindOf
    <2>2. BoundaryLast(data, Context(1, 7), p, R, KindOf(7))
      BY <1>1, <2>1, BoundaryAdded, Zenon
    <2>3. QED
      BY <2>1, <2>2, Zenon DEF closing
  <1> HIDE DEF chunk
  <1>3. "close" # "open"
    OBVIOUS
  <1>4. DepthAt(data \o chunk, p) = DepthAt(data, p) + -1 /\ Reading(data \o chunk, p, R)
    BY <1>2, <1>3, Zenon DEF BoundaryLast
  <1>5. DepthAt(data \o chunk, p) = 0
    BY <1>1, <1>4
  <1>6. QED
    BY <1>4, <1>5, Zenon DEF AtTop, chunk

\* A property: no index yet.
LEMMA PropertyNamed ==
    ASSUME NEW data, NEW p, NEW R, NEW o, InObject(data, p, R, o), NEW property \in Nat, Fits(property, 4)
    PROVE  AtProperty(data \o context_unsigned(2, property), p, R, o, <<o, property, None>>)
  <1> DEFINE body == unsigned_octets(property)
             chunk == context_unsigned(2, property)
             T == Structured(data, p)
             U == Structured(data \o chunk, p)
             n == Len(T)
             b == n + 1
  <1>1. body \in Octets /\ Len(body) \in 1..4 /\ FromBytes(body) = property
    BY UnsignedOctets, UnsignedReadBack
  <1>2. chunk = Context(2, Len(body)) \o body
    BY Zenon DEF context_unsigned
  <1>3. Reading(data, p, R) /\ DepthAt(data, p) = 1 /\ ObjectAt(T) = o
    BY Zenon DEF InObject
  <1> HIDE DEF body, chunk
  <1>4. ValueLast(data, chunk, p, R, 2, body)
    <2>1. 2 \in Nat /\ 2 <= 14 /\ 2 # 0 /\ Len(body) \in 0..4
      BY <1>1
    <2>2. QED
      BY <1>1, <1>2, <1>3, <2>1, ValueAdded, Zenon
  <1>5. /\ n \in Nat /\ Len(U) = n + 1 /\ Begins(U, T, n)
        /\ IsValue(U[n + 1], 2) /\ U[n + 1].number = 2 /\ U[n + 1].body = body
        /\ U[n + 1].depth = DepthAt(data, p)
        /\ DepthAt(data \o chunk, p) = DepthAt(data, p) /\ Reading(data \o chunk, p, R)
    BY <1>4, Zenon DEF ValueLast
  <1> HIDE DEF T, U, n
  <1>6. NoField(U, n, b, {0}, 0)
    <2>1. 2 # 0
      OBVIOUS
    <2>2. ~IsValue(U[n + 1], 0)
      BY <1>5, <2>1, Zenon DEF IsValue
    <2>3. QED
      BY <1>5, <2>2, NotLast, Zenon
  <1>7. b \in Nat /\ n <= b /\ 1 \in Nat /\ 1 >= 1 /\ 1 <= b /\ b <= b /\ U[b].depth \in {1}
    BY <1>3, <1>5
  <1>8. Field(U, 1, b, {0}, 0) = Field(T, 1, n, {0}, 0)
    <2> HIDE DEF b
    <2>1. QED
      BY <1>5, <1>6, <1>7, FieldKept
  <1>9. ObjectAt(U) = o
    BY <1>3, <1>5, <1>8, Zenon DEF ObjectAt, n
  <1>10. Field(U, 1, b, {1}, 2) = Some(body) /\ Max(Found(U, 1, b, {1}, 2)) = b
    <2>1. IsValue(U[b], 2) /\ U[b].body = body
      BY <1>5, Zenon
    <2> HIDE DEF b
    <2>2. Field(U, 1, b, {1}, 2) = Some(U[b].body) /\ Max(Found(U, 1, b, {1}, 2)) = b
      BY <1>7, <2>1, FieldLast
    <2>3. QED
      BY <2>1, <2>2, Zenon
  <1>11. PropertyOf(U, b) = b
    <2> DEFINE F == Found(U, 1, b, {1}, 2)
               G == {1} \cup F
    <2>1. b \in F
      <3>1. b \in 1..b
        BY <1>7
      <3>2. QED
        BY <1>5, <1>7, <3>1, Zenon DEF Found
    <2>2. F \subseteq 1..b
      BY DEF Found
    <2> HIDE DEF F, b
    <2>3. G \in SUBSET (0..b) /\ G # {}
      BY <1>7, <2>2
    <2>4. \A y \in G : y <= b
      BY <1>7, <2>2
    <2>5. b \in G
      BY <2>1
    <2> HIDE DEF G
    <2>6. Max(G) \in G /\ \A y \in G : y <= Max(G)
      BY <1>7, <2>3, Greatest
    <2>7. Max(G) <= b /\ b <= Max(G)
      BY <2>4, <2>5, <2>6, Zenon
    <2>8. Max(G) \in Nat
      <3>1. \A y \in G : y \in Nat
        BY <2>3
      <3>2. QED
        BY <2>6, <3>1, Zenon
    <2>9. Max(G) = b
      BY <1>7, <2>7, <2>8
    <2>10. QED
      BY <2>9, PropertyIs, Zenon DEF PropertyAt, F, G
  <1>12. Field(U, b, b, {1}, 3) = None
    <2> DEFINE F == Found(U, b, b, {1}, 3)
    <2>1. \A i \in b..b : i = b
      BY <1>7
    <2>2. ~IsValue(U[b], 3)
      <3>1. 2 # 3
        OBVIOUS
      <3>2. QED
        BY <1>5, <3>1, Zenon DEF IsValue
    <2> HIDE DEF b
    <2>3. F = {}
      <3>1. \A i \in b..b : ~IsValue(U[i], 3)
        BY <2>1, <2>2
      <3>2. QED
        BY <3>1, Zenon DEF Found
    <2>4. Field(U, b, b, {1}, 3) = IF F = {} THEN None ELSE Some(U[Max(F)].body)
      BY Zenon DEF Field, Found
    <2>5. QED
      BY <2>3, <2>4, Zenon
  <1>13. EntryKey(U, b) = <<o, property, None>>
    <2>1. Some(body)[1] = body
      BY DEF Some
    <2>2. Number(None) = None
      BY Zenon DEF Number, Mapped, Given
    <2>3. AsObject(Field(U, 1, b, {0}, 0)[1]) = o
      BY <1>5, <1>9, Zenon DEF ObjectAt
    <2> HIDE DEF b
    <2>4. FromBytes(Field(U, 1, b, {1}, 2)[1]) = property
      BY <1>1, <1>10, <2>1, Zenon
    <2>5. QED
      BY <1>11, <1>12, <2>2, <2>3, <2>4, Zenon DEF EntryKey
  <1>14. QED
    BY <1>3, <1>5, <1>9, <1>13, Zenon DEF AtProperty, InObject, U, chunk

\* Its index.
LEMMA IndexNamed ==
    ASSUME NEW data, NEW p, NEW R, NEW o, NEW property, NEW none,
           AtProperty(data, p, R, o, <<o, property, none>>), NEW index \in Nat, Fits(index, 4)
    PROVE  AtProperty(data \o context_unsigned(3, index), p, R, o, <<o, property, Some(index)>>)
  <1> DEFINE body == unsigned_octets(index)
             chunk == context_unsigned(3, index)
             T == Structured(data, p)
             U == Structured(data \o chunk, p)
             n == Len(T)
             b == n + 1
             q == PropertyOf(T, n)
  <1>1. body \in Octets /\ Len(body) \in 1..4 /\ FromBytes(body) = index
    BY UnsignedOctets, UnsignedReadBack
  <1>2. chunk = Context(3, Len(body)) \o body
    BY Zenon DEF context_unsigned
  <1>3. /\ Reading(data, p, R) /\ DepthAt(data, p) = 1 /\ ObjectAt(T) = o
        /\ EntryKey(T, n) = <<o, property, none>>
    BY Zenon DEF AtProperty, InObject
  <1> HIDE DEF body, chunk
  <1>4. ValueLast(data, chunk, p, R, 3, body)
    <2>1. 3 \in Nat /\ 3 <= 14 /\ 3 # 0 /\ Len(body) \in 0..4
      BY <1>1
    <2>2. QED
      BY <1>1, <1>2, <1>3, <2>1, ValueAdded, Zenon
  <1>5. /\ n \in Nat /\ Len(U) = n + 1 /\ Begins(U, T, n)
        /\ IsValue(U[n + 1], 3) /\ U[n + 1].number = 3 /\ U[n + 1].body = body
        /\ U[n + 1].depth = DepthAt(data, p)
        /\ DepthAt(data \o chunk, p) = DepthAt(data, p) /\ Reading(data \o chunk, p, R)
    BY <1>4, Zenon DEF ValueLast
  <1>6. q \in Nat /\ q >= 1 /\ q <= n + 1
    BY <1>5, PropertyPlace, Zenon
  <1> HIDE DEF T, U, n
  <1>7. NoField(U, n, b, {0}, 0) /\ NoField(U, n, b, {1}, 2)
    <2>1. 3 # 0 /\ 3 # 2
      OBVIOUS
    <2>2. ~IsValue(U[n + 1], 0) /\ ~IsValue(U[n + 1], 2)
      BY <1>5, <2>1, Zenon DEF IsValue
    <2>3. QED
      BY <1>5, <2>2, NotLast, Zenon
  <1>8. b \in Nat /\ n <= b /\ 1 \in Nat /\ 1 >= 1 /\ U[b].depth \in {1} /\ IsValue(U[b], 3)
    BY <1>3, <1>5
  <1>9. /\ Field(U, 1, b, {0}, 0) = Field(T, 1, n, {0}, 0)
        /\ Field(U, 1, b, {1}, 2) = Field(T, 1, n, {1}, 2)
        /\ Found(U, 1, b, {1}, 2) = Found(T, 1, n, {1}, 2)
    <2> HIDE DEF b
    <2>1. QED
      BY <1>5, <1>7, <1>8, FieldKept, FoundKept
  <1>10. ObjectAt(U) = o
    BY <1>3, <1>5, <1>9, Zenon DEF ObjectAt, n
  <1>11. PropertyOf(U, b) = q
    BY <1>9, PropertyIs, Zenon DEF PropertyAt
  <1> HIDE DEF q
  <1>12. Field(U, q, b, {1}, 3) = Some(body)
    <2>1. q <= b /\ U[b].body = body
      BY <1>5, <1>6, Zenon
    <2> HIDE DEF b
    <2>2. Field(U, q, b, {1}, 3) = Some(U[b].body)
      BY <1>6, <1>8, <2>1, FieldLast
    <2>3. QED
      BY <2>1, <2>2, Zenon
  <1>13. Number(Some(body)) = Some(index)
    <2>1. Some(body)[1] = body
      BY DEF Some
    <2>2. Given(Some(body))
      BY DEF Given, Some, None
    <2>3. QED
      BY <1>1, <2>1, <2>2, Zenon DEF Number, Mapped
  <1>14. EntryKey(U, b) = <<o, property, Some(index)>>
    <2>1. AsObject(Field(T, 1, n, {0}, 0)[1]) = o /\ FromBytes(Field(T, 1, n, {1}, 2)[1]) = property
      <3> DEFINE key == EntryKey(T, n)
      <3>1. key[1] = o /\ key[2] = property
        <4> HIDE DEF key
        <4>1. key = <<o, property, none>>
          BY <1>3 DEF key
        <4>2. QED
          BY <4>1
      <3> DEFINE x == AsObject(Field(T, 1, n, {0}, 0)[1])
                 y == FromBytes(Field(T, 1, n, {1}, 2)[1])
                 z == Number(Field(T, PropertyOf(T, n), n, {1}, 3))
      <3>2. key = <<x, y, z>>
        BY Zenon DEF EntryKey
      <3> HIDE DEF key, x, y, z
      <3>3. x = o /\ y = property
        BY <3>1, <3>2
      <3>4. QED
        BY <3>3, Zenon DEF x, y
    <2> HIDE DEF b
    <2>2. QED
      BY <1>9, <1>11, <1>12, <1>13, <2>1, Zenon DEF EntryKey
  <1>15. QED
    BY <1>3, <1>5, <1>10, <1>14, Zenon DEF AtProperty, InObject, U, chunk

\* A value of whole tags in which nothing is closed that is not open.
Fitting(w) == w \in Octets /\ Whole(w, 1) /\ Balanced(Tags(w, 1), Len(Tags(w, 1)))

\* The tags of an enclosed value after those before: the opening tag, the value's
\* own tags deeper than it, and the closing tag.
EntryTags(data, tag, w, p) ==
    LET whole == data \o Enclosed(tag, w)
        T == Structured(data, p)
        U == Structured(whole, p)
        W == Tags(w, 1)
        n == Len(T)
        m == Len(W)
        d == DepthAt(data, p)
    IN  /\ n \in Nat /\ m \in Nat /\ d \in Int /\ Len(U) = n + m + 2 /\ Begins(U, T, n)
        /\ U[n + 1].kind = "open" /\ U[n + 1].number = tag /\ U[n + 1].depth = d
        /\ U[n + 1].next = Len(data) + 2
        /\ \A k \in 1..m : U[n + 1 + k].kind = W[k].kind /\ U[n + 1 + k].depth >= d + 1
        /\ U[n + m + 2].kind = "close" /\ U[n + m + 2].start = Len(data) + Len(w) + 2
        /\ DepthAt(whole, p) = d
        /\ whole \in Octets /\ p \in 1..Len(whole) + 1 /\ Whole(whole, p)
\* What follows the opening tag, one part after the other.
LEMMA EnclosedAfter ==
    ASSUME NEW data \in Octets, NEW tag \in Nat, tag <= 14, NEW w \in Octets
    PROVE  /\ data \o Enclosed(tag, w) = ((data \o opening(tag)) \o w) \o closing(tag)
           /\ opening(tag) \in Octets /\ closing(tag) \in Octets
           /\ Enclosed(tag, w) \in Octets /\ Len(Enclosed(tag, w)) = Len(w) + 2
           /\ Len(opening(tag)) = 1 /\ Len(closing(tag)) = 1
  <1> DEFINE o == opening(tag)
             c == closing(tag)
  <1>1. o \in Octets /\ c \in Octets /\ Len(o) = 1 /\ Len(c) = 1
    BY Boundary DEF opening, closing
  <1>2. Enclosed(tag, w) = (o \o w) \o c
    BY Zenon DEF Enclosed
  <1> HIDE DEF o, c
  <1>3. /\ data \o ((o \o w) \o c) = ((data \o o) \o w) \o c
        /\ (o \o w) \o c \in Octets /\ Len((o \o w) \o c) = Len(w) + 2
    <2>1. o \o w \in Octets /\ Len(o \o w) = Len(o) + Len(w)
      BY <1>1, Joined, Zenon
    <2>2. (o \o w) \o c \in Octets /\ Len((o \o w) \o c) = Len(o \o w) + Len(c)
      BY <1>1, <2>1, Joined, Zenon
    <2>3. data \o ((o \o w) \o c) = (data \o (o \o w)) \o c
      BY <1>1, <2>1, RegroupedOctets, ZenonT(60)
    <2>4. data \o (o \o w) = (data \o o) \o w
      BY <1>1, RegroupedOctets, Zenon
    <2>5. Len((o \o w) \o c) = Len(w) + 2
      <3> DEFINE x == Len((o \o w) \o c)
                 y == Len(o \o w)
                 z == Len(w)
      <3>1. x = y + 1 /\ y = 1 + z /\ z \in Nat
        BY <1>1, <2>1, <2>2, OctetsAre, Zenon
      <3> HIDE DEF x, y, z
      <3>2. x = z + 2
        BY <3>1
      <3>3. QED
        BY <3>2 DEF x, z
    <2>6. QED
      BY <2>2, <2>3, <2>4, <2>5, Zenon
  <1>4. QED
    BY <1>1, <1>2, <1>3, Zenon DEF o, c

\* So they are.
LEMMA EntryTagged ==
    ASSUME NEW data \in Octets, NEW p \in 1..Len(data) + 1, Whole(data, p),
           NEW tag \in Nat, tag <= 14, NEW w, Fitting(w)
    PROVE  EntryTags(data, tag, w, p)
  <1> DEFINE o == opening(tag)
             c == closing(tag)
             one == data \o o
             two == one \o w
             all == two \o c
             whole == data \o Enclosed(tag, w)
             T == Structured(data, p)
             A == Structured(one, p)
             B == Structured(two, p)
             U == Structured(all, p)
             W == Tags(w, 1)
             n == Len(T)
             m == Len(W)
             d == DepthAt(data, p)
             l == Len(data)
             k0 == Len(w)
  <1>1. w \in Octets /\ Whole(w, 1) /\ Balanced(W, m) /\ l \in Nat /\ k0 \in Nat
    BY OctetsAre, Zenon DEF Fitting
  <1>2. /\ whole = all /\ Len(o) = 1 /\ Len(c) = 1
    BY <1>1, EnclosedAfter, Zenon
  <1>3. /\ o \in Octets /\ Whole(o, 1) /\ \E t : Tags(o, 1) = <<t>> /\ IsBoundary(t, tag, "open")
    <2>1. 6 \in {6, 7} /\ KindOf(6) = "open"
      BY DEF KindOf
    <2>2. QED
      BY <2>1, Boundary, Zenon DEF opening
  <1>4. /\ c \in Octets /\ Whole(c, 1) /\ \E t : Tags(c, 1) = <<t>> /\ IsBoundary(t, tag, "close")
    <2>1. 7 \in {6, 7} /\ KindOf(7) = "close"
      BY DEF KindOf
    <2>2. QED
      BY <2>1, Boundary, Zenon DEF closing
  <1>5. PICK s : Tags(o, 1) = <<s>> /\ IsBoundary(s, tag, "open")
    BY <1>3, Zenon
  <1>6. PICK t : Tags(c, 1) = <<t>> /\ IsBoundary(t, tag, "close")
    BY <1>4, Zenon
  <1>7. s.kind = "open" /\ s.number = tag /\ s.next = 2 /\ s.kind # "raise" /\ Depth(s) = 1
    BY <1>5 DEF IsBoundary, Depth
  <1>8. t.kind = "close" /\ t.start = 1 /\ t.kind # "raise" /\ Depth(t) = -1
    BY <1>6 DEF IsBoundary, Depth
  <1> HIDE DEF o, c, whole
  <1>9. OneMoreTag(data, o, p, s)
    BY <1>3, <1>5, OneTagMore, Zenon
  <1>10. /\ n \in Nat /\ Len(A) = n + 1 /\ (\A i \in 1..n : A[i] = T[i])
         /\ A[n + 1] = Placed(Moved(s, l), n + 1, d)
         /\ d \in Int /\ DepthAt(one, p) = d + 1
         /\ one \in Octets /\ p \in 1..Len(one) + 1 /\ Whole(one, p)
    BY <1>7, <1>9, Zenon DEF OneMoreTag
  <1>11. Len(one) = l + 1
    <2>1. Len(data \o o) = Len(data) + Len(o)
      BY <1>3, HoldsAfter, Zenon
    <2>2. QED
      BY <1>2, <2>1, Zenon
  <1> HIDE DEF one
  <1>12. /\ Whole(two, p) /\ GrownBy(A, B, W, Len(one), DepthAt(one, p))
         /\ DepthAt(two, p) = DepthAt(one, p) + DepthAt(w, 1)
    BY <1>1, <1>10, Grown, Zenon
  <1>13. two \in Octets /\ Len(two) = Len(one) + k0
    BY <1>1, <1>10, HoldsAfter, Zenon
  <1>14. DepthAt(w, 1) = 0 /\ \A k \in 0..m : Nesting(W, 1, k) >= 0
    BY <1>1, Zenon DEF Balanced, DepthAt
  <1>15. p \in 1..Len(two) + 1 /\ Len(two) = l + 1 + k0 /\ DepthAt(two, p) = d + 1
    <2>1. DepthAt(two, p) = (d + 1) + 0
      BY <1>10, <1>12, <1>14, Zenon
    <2> HIDE DEF d, two
    <2>2. QED
      BY <1>1, <1>10, <1>11, <1>13, <2>1
  <1>16. /\ m \in Nat /\ Len(B) = (n + 1) + m /\ (\A i \in 1..n + 1 : B[i] = A[i])
         /\ \A k \in 1..m : B[(n + 1) + k] = Placed(Moved(W[k], Len(one)), (n + 1) + k, (d + 1) + Nesting(W, 1, k - 1))
    BY <1>10, <1>12, Zenon DEF GrownBy
  <1> HIDE DEF two
  <1>17. OneMoreTag(two, c, p, t)
    BY <1>4, <1>6, <1>12, <1>13, <1>15, OneTagMore, Zenon
  <1> DEFINE b == Len(B)
  <1>18. /\ b \in Nat /\ Len(U) = b + 1 /\ (\A i \in 1..b : U[i] = B[i])
         /\ U[b + 1] = Placed(Moved(t, Len(two)), b + 1, DepthAt(two, p))
         /\ DepthAt(all, p) = DepthAt(two, p) + -1
         /\ all \in Octets /\ p \in 1..Len(all) + 1 /\ Whole(all, p)
    BY <1>8, <1>17, Zenon DEF OneMoreTag
  <1> HIDE DEF all, T, A, B, U, W, d, l, k0, n, m, b
  <1>19. b = n + 1 + m /\ b + 1 = n + m + 2 /\ Len(U) = n + m + 2 /\ DepthAt(all, p) = d
    BY <1>10, <1>15, <1>16, <1>18 DEF b
  <1>20. Begins(U, T, n)
    <2>1. ASSUME NEW i \in 1..n PROVE U[i] = T[i]
      <3>0. n \in Nat /\ m \in Nat /\ b = n + 1 + m
        BY <1>10, <1>16, <1>19, Zenon
      <3>1. i \in 1..n + 1 /\ i \in 1..b
        BY ONLY <2>1, <3>0
      <3>2. QED
        BY <1>10, <1>16, <1>18, <2>1, <3>1, Zenon
    <2>2. QED
      BY <2>1, Zenon DEF Begins
  <1>21. U[n + 1].kind = "open" /\ U[n + 1].number = tag /\ U[n + 1].depth = d /\ U[n + 1].next = l + 2
    <2>0. n \in Nat /\ m \in Nat /\ b = n + 1 + m
      BY <1>10, <1>16, <1>19, Zenon
    <2>1. n + 1 \in 1..n + 1 /\ n + 1 \in 1..b
      BY ONLY <2>0
    <2>2. U[n + 1] = Placed(Moved(s, l), n + 1, d)
      BY <1>10, <1>16, <1>18, <2>1, Zenon
    <2>3. PlacedLike(Placed(Moved(s, l), n + 1, d), s, l, d)
      BY <1>7, PlacedIs, Zenon
    <2> DEFINE x == U[n + 1]
    <2>4. PlacedLike(x, s, l, d)
      BY <2>2, <2>3, Zenon
    <2> HIDE DEF x
    <2>5. x.kind = "open" /\ x.number = tag /\ x.depth = d /\ x.next = l + 2
      BY <1>7, <2>4, Zenon DEF PlacedLike
    <2>6. QED
      BY <2>5, Zenon DEF x
  <1>22. ASSUME NEW k \in 1..m PROVE U[n + 1 + k].kind = W[k].kind /\ U[n + 1 + k].depth >= d + 1
    <2> DEFINE e == Nesting(W, 1, k - 1)
               x == U[n + 1 + k]
    <2>0. n \in Nat /\ m \in Nat /\ b = n + 1 + m
      BY <1>10, <1>16, <1>19, Zenon
    <2>1. n + 1 + k = (n + 1) + k /\ (n + 1) + k \in 1..b /\ k - 1 \in 0..m
      BY ONLY <1>22, <2>0, SMT
    <2>2. x = Placed(Moved(W[k], Len(one)), (n + 1) + k, (d + 1) + e)
      BY <1>16, <1>18, <1>22, <2>1, Zenon
    <2>3. W[k].kind # "raise"
      <3>1. W \in Seq(AllTags(w))
        <4>1. 1 \in Place
          BY DEF Place
        <4>2. QED
          BY <1>1, <4>1, TagsFrom, Zenon DEF W
      <3>2. W[k] \in AllTags(w)
        <4>1. \A i \in 1..Len(W) : W[i] \in AllTags(w)
          BY <3>1
        <4>2. QED
          BY <1>22, <4>1, Zenon DEF m
      <3>3. PICK q \in 1..Len(w) : W[k] = read_tag(w, q)
        BY <3>2, Zenon DEF AllTags
      <3>4. W[k] # Raised
        BY <1>1, <1>22, Zenon DEF Whole, W, m
      <3>5. QED
        BY <1>1, <3>3, <3>4, ReadTag, Zenon
    <2>4. PlacedLike(Placed(Moved(W[k], Len(one)), (n + 1) + k, (d + 1) + e), W[k], Len(one), (d + 1) + e)
      BY <2>3, PlacedIs, Zenon
    <2> HIDE DEF x, e
    <2>5. x.kind = W[k].kind /\ x.depth = (d + 1) + e
      BY <2>2, <2>4, Zenon DEF PlacedLike
    <2>6. e >= 0 /\ e \in Int
      <3>1. e >= 0
        BY <1>14, <2>1, Zenon DEF e
      <3>2. e \in Int
        <4>1. k - 1 \in Int /\ 1 \in Int /\ 1 <= (k - 1) + 1
          BY <1>22
        <4>2. QED
          BY <4>1, NestingStep, Zenon DEF e
      <3>3. QED
        BY <3>1, <3>2
    <2>7. (d + 1) + e >= d + 1
      BY <1>10, <2>6
    <2>8. QED
      BY <2>5, <2>7, Zenon DEF x
  <1>23. U[n + m + 2].kind = "close" /\ U[n + m + 2].start = l + k0 + 2
    <2> DEFINE x == U[n + m + 2]
    <2>1. x = Placed(Moved(t, Len(two)), b + 1, DepthAt(two, p))
      BY <1>18, <1>19, Zenon
    <2>2. PlacedLike(Placed(Moved(t, Len(two)), b + 1, DepthAt(two, p)), t, Len(two), DepthAt(two, p))
      BY <1>8, PlacedIs, Zenon
    <2> HIDE DEF x
    <2>3. x.kind = "close" /\ x.start = Len(two) + 1
      BY <1>8, <2>1, <2>2, Zenon DEF PlacedLike
    <2>4. Len(two) + 1 = l + k0 + 2
      BY <1>1, <1>15
    <2>5. QED
      BY <2>3, <2>4, Zenon DEF x
  <1>24. \A k \in 1..m : U[n + 1 + k].kind = W[k].kind /\ U[n + 1 + k].depth >= d + 1
    BY <1>22, Zenon
  <1>25. QED
    BY <1>2, <1>10, <1>16, <1>18, <1>19, <1>20, <1>21, <1>23, <1>24, Zenon
       DEF EntryTags, whole, T, U, W, n, m, d, l, k0

NewTag(U, n, m, d, i) ==
    \/ i = n + 1 /\ U[i].kind = "open"
    \/ U[i].depth >= d + 1
    \/ U[i].kind = "close"
\* Every tag of an enclosed value is one of three: the opening tag, a tag of the
\* value, deeper than it, or the closing tag.
LEMMA NewTags ==
    ASSUME NEW data, NEW tag, NEW w, NEW p, EntryTags(data, tag, w, p)
    PROVE  LET U == Structured(data \o Enclosed(tag, w), p)
               n == Len(Structured(data, p))
               m == Len(Tags(w, 1))
           IN  \A i \in n + 1..n + m + 2 : NewTag(U, n, m, DepthAt(data, p), i)
  <1> DEFINE T == Structured(data, p)
             U == Structured(data \o Enclosed(tag, w), p)
             W == Tags(w, 1)
             n == Len(T)
             m == Len(W)
             d == DepthAt(data, p)
  <1>1. /\ n \in Nat /\ m \in Nat /\ U[n + 1].kind = "open" /\ U[n + m + 2].kind = "close"
        /\ \A k \in 1..m : U[n + 1 + k].depth >= d + 1
    BY Zenon DEF EntryTags
  <1> HIDE DEF T, U, W, n, m, d
  <1>2. ASSUME NEW i \in n + 1..n + m + 2 PROVE NewTag(U, n, m, d, i)
    <2>1. CASE i = n + 1
      BY <1>1, <2>1, Zenon DEF NewTag
    <2>2. CASE i = n + m + 2
      BY <1>1, <2>2, Zenon DEF NewTag
    <2>3. CASE i # n + 1 /\ i # n + m + 2
      <3> DEFINE k == i - (n + 1)
      <3>1. k \in 1..m /\ n + 1 + k = i
        BY <1>1, <1>2, <2>3
      <3>2. U[i].depth >= d + 1
        BY <1>1, <3>1, Zenon
      <3>3. QED
        BY <3>2, Zenon DEF NewTag
    <2>4. QED
      BY <2>1, <2>2, <2>3
  <1>3. QED
    BY <1>2, Zenon DEF T, U, W, n, m, d

\* What an entry says of the octets it encloses.
EntrySays(tag, w) ==
    IF tag = 4 THEN [value |-> w]
    ELSE [error |-> [k \in 1..2 |-> FromBytes(application_values(w)[k].body)]]

\* The entry itself: it is closed, and says what it encloses under the key before it.
LEMMA EntryRead ==
    ASSUME NEW data \in Octets, NEW p, NEW tag \in {4, 5}, NEW w, Fitting(w), EntryTags(data, tag, w, p),
           DepthAt(data, p) = 1
    PROVE  LET T == Structured(data, p)
               U == Structured(data \o Enclosed(tag, w), p)
               i == Len(T) + 1
           IN  /\ ClosedBy(U, i) # 0 /\ EntryKey(U, i) = EntryKey(T, Len(T))
               /\ EntryResult(data \o Enclosed(tag, w), U, i) = EntrySays(tag, w)
  <1> DEFINE e == Enclosed(tag, w)
             whole == data \o e
             T == Structured(data, p)
             U == Structured(whole, p)
             W == Tags(w, 1)
             n == Len(T)
             m == Len(W)
             l == Len(data)
             k0 == Len(w)
             i == n + 1
             j == n + m + 2
  <1>1. /\ n \in Nat /\ m \in Nat /\ Len(U) = n + m + 2 /\ Begins(U, T, n)
        /\ U[i].kind = "open" /\ U[i].number = tag /\ U[i].next = l + 2
        /\ (\A k \in 1..m : U[n + 1 + k].kind = W[k].kind)
        /\ U[j].kind = "close" /\ U[j].start = l + k0 + 2
        /\ whole \in Octets
    BY Zenon DEF EntryTags
  <1>2. w \in Octets /\ Balanced(W, m) /\ l \in Nat /\ k0 \in Nat
    BY OctetsAre, Zenon DEF Fitting
  <1>3. Holds(whole, l + 1, w)
    <2> DEFINE o == opening(tag)
               c == closing(tag)
    <2>1. tag \in Nat /\ tag <= 14
      OBVIOUS
    <2>2. /\ o \in Octets /\ c \in Octets /\ e \in Octets /\ Len(o) = 1
      BY <1>2, <2>1, EnclosedAfter, Zenon
    <2>3. e = (o \o w) \o c
      BY Zenon DEF Enclosed
    <2> HIDE DEF o, c, e
    <2>4. o \o w \in Octets
      BY <1>2, <2>2, Joined, Zenon
    <2>5. Holds(whole, l, (o \o w) \o c)
      BY <2>2, <2>3, HoldsAfter, Zenon
    <2>6. Holds(whole, l, o \o w)
      BY <1>1, <1>2, <2>2, <2>4, <2>5, HoldsBoth, Zenon
    <2>7. Holds(whole, l + Len(o), w)
      BY <1>1, <1>2, <2>2, <2>6, HoldsBoth, Zenon
    <2>8. QED
      BY <2>2, <2>7, Zenon
  <1> HIDE DEF T, U, W, n, m, l, k0, whole
  <1>4. i \in Nat /\ i + m + 1 = j /\ n + 1 + m + 1 = j /\ n <= i /\ j # 0
    BY <1>1
  <1>5. ClosedBy(U, i) = j
    <2>1. /\ i + m + 1 <= Len(U) /\ Len(U) \in Nat
      BY <1>1
    <2>2. U[i + m + 1].kind = "close"
      BY <1>1, <1>4, Zenon
    <2>3. \A k \in 1..m : U[i + k].kind = W[k].kind
      BY <1>1, Zenon
    <2> HIDE DEF i
    <2>4. ClosedBy(U, i) = i + m + 1
      BY <1>1, <1>2, <1>4, <2>1, <2>2, <2>3, ClosedAfter, Zenon
    <2>5. QED
      BY <1>4, <2>4, Zenon
  <1>6. EntryKey(U, i) = EntryKey(T, n)
    <2>1. NoKeyField(U, n, i)
      <3>1. "open" # "value"
        OBVIOUS
      <3>2. \A number : ~IsValue(U[n + 1], number)
        BY <1>1, <3>1, Zenon DEF IsValue
      <3>3. QED
        BY <1>1, <3>2, NotLast, Zenon DEF NoKeyField
    <2> HIDE DEF i
    <2>2. QED
      BY <1>1, <1>4, <2>1, KeyKept
  <1>7. Inside(whole, U, i) = w
    <2>1. (l + k0 + 2) - 1 = (l + 1) + k0 /\ l + 2 = (l + 1) + 1 /\ l + 1 \in Nat
      BY <1>2
    <2> HIDE DEF i, j
    <2>2. Inside(whole, U, i) = SubSeq(whole, l + 2, (l + k0 + 2) - 1)
      BY <1>1, <1>4, <1>5, Zenon DEF Inside
    <2>3. SubSeq(whole, (l + 1) + 1, (l + 1) + k0) = w
      BY <1>1, <1>2, <1>3, <2>1, PartHeld, Zenon DEF k0
    <2>4. QED
      BY <2>1, <2>2, <2>3, Zenon
  <1>8. EntryResult(whole, U, i) = EntrySays(tag, w)
    <2> HIDE DEF i
    <2>1. QED
      BY <1>1, <1>7, Zenon DEF EntryResult, EntrySays
  <1>9. QED
    BY <1>4, <1>5, <1>6, <1>8, Zenon DEF T, U, n, whole

\* A result is put after its property: the object's results go on.
LEMMA EntryAdded ==
    ASSUME NEW data, NEW p, NEW R, NEW o, NEW key, AtProperty(data, p, R, o, key),
           NEW tag \in {4, 5}, NEW w, Fitting(w), <<key, EntrySays(tag, w)>> \in R
    PROVE  InObject(data \o Enclosed(tag, w), p, R, o)
  <1> DEFINE e == Enclosed(tag, w)
             whole == data \o e
             T == Structured(data, p)
             U == Structured(whole, p)
             n == Len(T)
             m == Len(Tags(w, 1))
             d == DepthAt(data, p)
             b == n + m + 2
  <1>1. /\ Reading(data, p, R) /\ d = 1 /\ ObjectAt(T) = o /\ EntryKey(T, n) = key
    BY Zenon DEF AtProperty, InObject
  <1>2. data \in Octets /\ p \in 1..Len(data) + 1 /\ Whole(data, p)
    BY <1>1, Zenon DEF Reading
  <1>3. tag \in Nat /\ tag <= 14
    OBVIOUS
  <1>4. EntryTags(data, tag, w, p)
    BY <1>2, <1>3, EntryTagged, Zenon
  <1>5. /\ n \in Nat /\ m \in Nat /\ Len(U) = b /\ Begins(U, T, n)
        /\ DepthAt(whole, p) = d
        /\ whole \in Octets /\ p \in 1..Len(whole) + 1 /\ Whole(whole, p)
    BY <1>4, Zenon DEF EntryTags
  <1>6. /\ ClosedBy(U, n + 1) # 0 /\ EntryKey(U, n + 1) = key
        /\ EntryResult(whole, U, n + 1) = EntrySays(tag, w)
    BY <1>1, <1>2, <1>4, EntryRead, ZenonT(60)
  <1>7. \A i \in n + 1..b : NewTag(U, n, m, d, i)
    BY <1>4, NewTags, Zenon
  <1>8. e \in Octets /\ Whole(e, 1)
    <2>1. w \in Octets
      BY Zenon DEF Fitting
    <2>2. e \in Octets
      BY <1>2, <1>3, <2>1, EnclosedAfter, Zenon
    <2>3. <<>> \in Octets /\ 1 \in 1..Len(<<>>) + 1
      BY OctetsAre
    <2>4. Whole(<<>>, 1)
      <3>1. Tags(<<>>, Len(<<>>) + 1) = <<>>
        BY <2>3, TagsEnd, Zenon
      <3>2. Len(<<>>) + 1 = 1 /\ Len(<<>>) = 0 /\ \A i \in 1..0 : FALSE
        OBVIOUS
      <3>3. Tags(<<>>, 1) = <<>>
        BY <3>1, <3>2, Zenon
      <3>4. QED
        BY <3>2, <3>3, Zenon DEF Whole
    <2>5. EntryTags(<<>>, tag, w, 1)
      BY <1>3, <2>3, <2>4, EntryTagged, Zenon
    <2>6. Whole(<<>> \o e, 1)
      BY <2>5, Zenon DEF EntryTags
    <2> HIDE DEF e
    <2>7. <<>> \o e = e
      BY <2>2 DEF Octets
    <2>8. QED
      BY <2>2, <2>6, <2>7, Zenon
  <1> HIDE DEF T, U, n, m, d, e
  <1>9. ASSUME NEW i \in n + 1..b PROVE i # n + 1 => U[i].depth >= 2 \/ U[i].kind = "close"
    <2>1. NewTag(U, n, m, d, i)
      BY <1>7, <1>9, Zenon
    <2>2. d + 1 = 2
      BY <1>1
    <2>3. QED
      BY <2>1, <2>2, Zenon DEF NewTag
  <1>10. ~(0 >= 2) /\ ~(1 >= 2) /\ "close" # "open" /\ "close" # "value" /\ "open" # "value"
    OBVIOUS
  <1>11. ASSUME NEW i \in Entries(U), i > n PROVE SaysOneOf(whole, U, i, R)
    <2>1. i \in 1..Len(U) /\ U[i].kind = "open" /\ U[i].depth = 1
      BY <1>11, Zenon DEF Entries
    <2>2. i \in n + 1..b
      BY <1>5, <1>11, <2>1
    <2>3. i = n + 1
      BY <1>9, <1>10, <2>1, <2>2, Zenon
    <2>4. QED
      BY <1>6, <2>3, Zenon DEF SaysOneOf
  <1>12. ASSUME NEW i \in n + 1..b PROVE ~(IsValue(U[i], 0) /\ U[i].depth \in {0})
    <2>1. CASE i = n + 1
      <3>1. U[i].kind = "open"
        BY <1>4, <2>1, Zenon DEF EntryTags, T, U, n, e
      <3>2. QED
        BY <1>10, <3>1, Zenon DEF IsValue
    <2>2. CASE U[i].kind = "close"
      BY <1>10, <2>2, Zenon DEF IsValue
    <2>3. CASE U[i].depth >= 2
      BY <1>10, <2>3, Zenon
    <2>4. QED
      BY <1>9, <1>12, <2>1, <2>2, <2>3, Zenon
  <1>13. NoField(U, n, b, {0}, 0)
    BY <1>12, Zenon DEF NoField
  <1>14. ObjectAt(U) = o
    <2>1. b \in Nat /\ n <= b /\ 1 \in Nat /\ 1 >= 1
      BY <1>5
    <2>2. Field(U, 1, b, {0}, 0) = Field(T, 1, n, {0}, 0)
      <3>1. n \in Nat /\ Begins(U, T, n)
        BY <1>5, Zenon
      <3> HIDE DEF b
      <3>2. QED
        BY <1>13, <2>1, <3>1, FieldKept
    <2>3. QED
      BY <1>1, <1>5, <2>2, Zenon DEF ObjectAt, n
  <1>15. Reading(whole, p, R)
    <2>1. \A i \in Entries(U) : i > n => SaysOneOf(whole, U, i, R)
      BY <1>11, Zenon
    <2>2. ASSUME NEW i \in 1..Len(U), i > n PROVE Sized(U[i])
      <3>1. i \in n + 1..b
        BY <1>5, <2>2
      <3>2. QED
        BY <1>12, <3>1, Zenon DEF Sized
    <2>3. \A i \in 1..Len(U) : i > n => Sized(U[i])
      BY <2>2, Zenon
    <2>4. QED
      BY <1>1, <1>8, <2>1, <2>3, ReadingGrows, Zenon DEF T, U, n
  <1>16. QED
    BY <1>1, <1>5, <1>14, <1>15, Zenon DEF InObject, U, d, e

\* A result that some entry gives.
Told(data, p, q) ==
    \E i \in Entries(Structured(data, p)) :
      <<EntryKey(Structured(data, p), i), EntryResult(data, Structured(data, p), i)>> = q

\* What is told is told when more octets follow.
LEMMA ToldGrows ==
    ASSUME NEW data, NEW p, NEW R, Reading(data, p, R), NEW chunk \in Octets, NEW q, Told(data, p, q)
    PROVE  Told(data \o chunk, p, q)
  <1> DEFINE whole == data \o chunk
             T == Structured(data, p)
             U == Structured(whole, p)
  <1>1. data \in Octets /\ p \in 1..Len(data) + 1 /\ Whole(data, p)
    BY Zenon DEF Reading
  <1>2. whole \in Octets /\ Holds(whole, 0, data) /\ Len(data) \in Nat
    BY <1>1, HoldsAfter, Zenon
  <1>3. p \in Place
    BY <1>1, <1>2 DEF Place
  <1>4. PlacedAgree(T, U, Len(data))
    BY <1>1, <1>2, <1>3, WholeUnbroken, CutStructured, Zenon
  <1>5. PICK i \in Entries(T) : <<EntryKey(T, i), EntryResult(data, T, i)>> = q
    BY Zenon DEF Told
  <1>6. ClosedBy(T, i) # 0
    BY <1>5, Zenon DEF Reading, SaysOneOf
  <1>7. SameEntry(whole, U, data, T, i)
    BY <1>1, <1>2, <1>4, <1>6, CutEntry, Zenon
  <1>8. i \in Entries(U) /\ <<EntryKey(U, i), EntryResult(whole, U, i)>> = q
    BY <1>5, <1>7, Zenon DEF SameEntry
  <1>9. QED
    BY <1>8, Zenon DEF Told

\* A result put after its property is told under the property's key.
LEMMA EntryTold ==
    ASSUME NEW data, NEW p, NEW R, NEW o, NEW key, AtProperty(data, p, R, o, key),
           NEW tag \in {4, 5}, NEW w, Fitting(w)
    PROVE  Told(data \o Enclosed(tag, w), p, <<key, EntrySays(tag, w)>>)
  <1> DEFINE whole == data \o Enclosed(tag, w)
             T == Structured(data, p)
             U == Structured(whole, p)
             n == Len(T)
             m == Len(Tags(w, 1))
             d == DepthAt(data, p)
  <1>1. Reading(data, p, R) /\ d = 1 /\ EntryKey(T, n) = key
    BY Zenon DEF AtProperty, InObject
  <1>2. data \in Octets /\ p \in 1..Len(data) + 1 /\ Whole(data, p)
    BY <1>1, Zenon DEF Reading
  <1>3. tag \in Nat /\ tag <= 14
    OBVIOUS
  <1>4. EntryTags(data, tag, w, p)
    BY <1>2, <1>3, EntryTagged, Zenon
  <1>5. /\ n \in Nat /\ m \in Nat /\ Len(U) = n + m + 2
        /\ U[n + 1].kind = "open" /\ U[n + 1].number = tag /\ U[n + 1].depth = d
    BY <1>4, Zenon DEF EntryTags
  <1>6. EntryKey(U, n + 1) = key /\ EntryResult(whole, U, n + 1) = EntrySays(tag, w)
    BY <1>1, <1>2, <1>4, EntryRead, ZenonT(60)
  <1> HIDE DEF T, U, n, m, d, whole
  <1>7. n + 1 \in 1..Len(U)
    BY ONLY <1>5
  <1>8. n + 1 \in Entries(U)
    BY <1>1, <1>5, <1>7, Zenon DEF Entries
  <1>9. QED
    BY <1>6, <1>8, Zenon DEF Told, U, whole

-----------------------------------------------------------------------------
(* What a whole answer to a ReadPropertyMultiple says                       *)

\* A property's value in an answer, or its absence.
Absent == application_enumerated(2) \o application_enumerated(32)
ResultOctets(value) == IF Given(value) THEN Enclosed(4, value[1]) ELSE Enclosed(5, Absent)

\* Values that are elements fit in an answer.
LEMMA ElementsFit ==
    ASSUME NEW v, NEW seqs, NEW k \in Nat, Elements(v, seqs, k)
    PROVE  Fitting(v)
  <1>1. v \in Octets /\ Len(Tags(v, 1)) = k
    BY Zenon DEF Elements
  <1>2. Whole(v, 1) /\ \A i \in 1..k : Tags(v, 1)[i].kind = "value"
    BY ElementsWhole, Zenon
  <1>3. Balanced(Tags(v, 1), k)
    BY <1>2, ValuesBalanced, Zenon
  <1>4. QED
    BY <1>1, <1>2, <1>3, Zenon DEF Fitting

\* The error of a property that is not there: its class and its code.
LEMMA AbsentSays == Fitting(Absent) /\ EntrySays(5, Absent) = [error |-> <<2, 32>>]
  <1> DEFINE a == application_enumerated(2)
             b == application_enumerated(32)
             seqs == <<a, b>>
  <1>1. 2 \in Nat /\ 32 \in Nat /\ Fits(2, 4) /\ Fits(32, 4)
    BY SMT DEF Fits
  <1>2. a \in Octets /\ b \in Octets /\ Primitive(a) /\ Primitive(b)
    <2>1. ASSUME NEW n \in Nat PROVE application_enumerated(n) \in Octets /\ Primitive(application_enumerated(n))
      <3> DEFINE body == unsigned_octets(n)
                 data == application_enumerated(n)
      <3>1. body \in Octets /\ Len(body) \in 1..4
        BY UnsignedOctets
      <3>2. data = Application(9, Len(body)) \o body
        BY Zenon DEF application_enumerated
      <3> HIDE DEF body, data
      <3>3. 9 \in Nat /\ 9 <= 14 /\ 9 # 1 /\ Len(body) \in 0..4
        BY <3>1
      <3>4. data \in Octets /\ Primitive(data)
        BY <3>1, <3>2, <3>3, ShortApplicationTag, Zenon
      <3>5. QED
        BY <3>4, Zenon DEF data
    <2>2. QED
      BY <1>1, <2>1, Zenon
  <1>3. Fitting(a \o b)
    <2> HIDE DEF a, b
    <2>1. Elements(a, seqs, 1)
      <3>1. ElementAt(a, Tags(a, 1)[1], a) /\ Len(Tags(a, 1)) = 1
        BY <1>2, PrimitiveElement, Zenon
      <3>2. \A i \in 1..1 : i = 1 /\ seqs[1] = a
        OBVIOUS
      <3>3. \A i \in 1..1 : ElementAt(a, Tags(a, 1)[i], seqs[i])
        BY <3>1, <3>2, Zenon
      <3>4. QED
        BY <1>2, <3>1, <3>3, Zenon DEF Elements
    <2>2. seqs[1 + 1] = b /\ 1 \in Nat /\ 1 + 1 \in Nat
      OBVIOUS
    <2> HIDE DEF seqs
    <2>3. Elements(a \o b, seqs, 1 + 1)
      BY <1>2, <2>1, <2>2, ElementAdded, Zenon
    <2>4. QED
      BY <2>2, <2>3, ElementsFit, Zenon
  <1>4. EntrySays(5, a \o b) = [error |-> <<2, 32>>]
    <2>1. PICK x, y : /\ application_values(a \o b) = <<x, y>>
                      /\ x.body = unsigned_octets(2) /\ y.body = unsigned_octets(32)
      BY <1>1, TwoEnumerated, Zenon
    <2>2. FromBytes(x.body) = 2 /\ FromBytes(y.body) = 32
      BY <1>1, <2>1, UnsignedReadBack, Zenon
    <2>3. [k \in 1..2 |-> FromBytes(<<x, y>>[k].body)] = <<2, 32>>
      <3>1. <<x, y>>[1] = x /\ <<x, y>>[2] = y
        OBVIOUS
      <3> DEFINE e == [k \in 1..2 |-> FromBytes(<<x, y>>[k].body)]
      <3>2. e[1] = 2 /\ e[2] = 32 /\ e \in [1..2 -> Nat]
        BY <2>2, <3>1
      <3> HIDE DEF e
      <3>3. e = <<2, 32>>
        BY <3>2
      <3>4. QED
        BY <3>3 DEF e
    <2>4. 5 # 4
      OBVIOUS
    <2>5. QED
      BY <2>1, <2>3, <2>4, Zenon DEF EntrySays
  <1>5. QED
    BY <1>3, <1>4, Zenon DEF Absent

\* A result after its property, whether there is a value or not.
LEMMA ResultAdded ==
    ASSUME NEW data, NEW p, NEW R, NEW o, NEW key, AtProperty(data, p, R, o, key),
           NEW value, Given(value) => Fitting(value[1]), <<key, ResultOf(value)>> \in R
    PROVE  /\ InObject(data \o ResultOctets(value), p, R, o)
           /\ Told(data \o ResultOctets(value), p, <<key, ResultOf(value)>>)
  <1>1. CASE Given(value)
    <2>1. ResultOctets(value) = Enclosed(4, value[1]) /\ ResultOf(value) = [value |-> value[1]]
      BY <1>1, Zenon DEF ResultOctets, ResultOf
    <2>2. EntrySays(4, value[1]) = [value |-> value[1]] /\ 4 \in {4, 5}
      BY Zenon DEF EntrySays
    <2>3. <<key, EntrySays(4, value[1])>> \in R
      BY <2>1, <2>2, Zenon
    <2>4. QED
      BY <1>1, <2>1, <2>2, <2>3, EntryAdded, EntryTold, Zenon
  <1>2. CASE ~Given(value)
    <2>1. ResultOctets(value) = Enclosed(5, Absent) /\ ResultOf(value) = [error |-> <<2, 32>>]
      BY <1>2, Zenon DEF ResultOctets, ResultOf
    <2>2. Fitting(Absent) /\ EntrySays(5, Absent) = [error |-> <<2, 32>>] /\ 5 \in {4, 5}
      BY AbsentSays, Zenon
    <2>3. <<key, EntrySays(5, Absent)>> \in R
      BY <2>1, <2>2, Zenon
    <2>4. QED
      BY <2>1, <2>2, <2>3, EntryAdded, EntryTold, Zenon
  <1>3. QED
    BY <1>1, <1>2, Zenon

\* Octets after which a parser is still in one of the states it was in before.
Keeps(c, S) == c \in Octets /\ \A data \in S : data \o c \in S
\* Two such chunks one after the other are such a chunk.
LEMMA KeepsJoined ==
    ASSUME NEW S, S \subseteq Octets, NEW a, NEW b, Keeps(a, S), Keeps(b, S)
    PROVE  Keeps(a \o b, S)
  <1>1. a \in Octets /\ b \in Octets /\ a \o b \in Octets
    BY Joined, Zenon DEF Keeps
  <1>2. ASSUME NEW data \in S PROVE data \o (a \o b) \in S
    <2>1. data \in Octets
      BY Zenon
    <2>2. data \o (a \o b) = (data \o a) \o b
      BY <1>1, <2>1, RegroupedOctets, Zenon
    <2>3. QED
      BY <2>2, Zenon DEF Keeps
  <1>3. QED
    BY <1>1, <1>2, Zenon DEF Keeps

\* And after any number of them.
LEMMA KeepsFlattened ==
    ASSUME NEW S, S \subseteq Octets, NEW seqs \in Seq(Octets), \A i \in 1..Len(seqs) : Keeps(seqs[i], S)
    PROVE  Keeps(FlattenSeq(seqs), S)
  <1>1. CASE Len(seqs) = 0
    <2>1. seqs = << >>
      BY <1>1
    <2>2. FlattenSeq(seqs) = seqs
      BY <1>1 DEF FlattenSeq
    <2>3. ASSUME NEW data \in S PROVE data \o << >> \in S
      <3>1. data \in Seq(Octet)
        BY Zenon DEF Octets
      <3>2. data \o << >> = data
        BY <3>1
      <3>3. QED
        BY <3>2, Zenon
    <2>4. QED
      BY <2>1, <2>2, <2>3, OctetsAre, Zenon DEF Keeps
  <1>2. CASE Len(seqs) # 0
    <2> DEFINE n == Len(seqs) - 1
    <2>1. n \in Nat /\ n + 1 = Len(seqs)
      BY <1>2
    <2>2. PICK f : /\ FlattenSeq(seqs) = f[Len(seqs)]
                   /\ \A i \in 1..Len(seqs) :
                        f[i] \in Octets /\ f[i] = IF i = 1 THEN seqs[i] ELSE f[i-1] \o seqs[i]
      BY <1>2, FlattenLoop, Zenon
    <2> DEFINE T == {i \in 0..n : Keeps(f[i + 1], S)}
    <2>3. 0 \in T
      <3>1. 1 \in 1..Len(seqs) /\ 0 + 1 = 1 /\ 0 \in 0..n
        BY <2>1
      <3>2. Keeps(f[1], S)
        BY <2>2, <3>1, Zenon
      <3>3. QED
        BY <3>1, <3>2
    <2>4. ASSUME NEW i \in 0..n, i < n, i \in T PROVE i + 1 \in T
      <3>1. /\ i + 1 \in 0..n /\ (i + 1) + 1 \in 1..Len(seqs) /\ (i + 1) + 1 # 1
            /\ ((i + 1) + 1) - 1 = i + 1
        BY <2>1, <2>4
      <3>2. f[(i + 1) + 1] = f[i + 1] \o seqs[(i + 1) + 1]
        BY <2>2, <3>1, Zenon
      <3>3. Keeps(f[i + 1], S) /\ Keeps(seqs[(i + 1) + 1], S)
        <4>1. Keeps(f[i + 1], S)
          BY <2>4
        <4>2. QED
          BY <3>1, <4>1, Zenon
      <3>4. Keeps(f[i + 1] \o seqs[(i + 1) + 1], S)
        BY <3>3, KeepsJoined, Zenon
      <3>5. QED
        BY <3>1, <3>2, <3>4
    <2>5. \A i \in 0..n : i \in T
      <3> HIDE DEF T, n
      <3>1. QED
        BY <2>1, <2>3, <2>4, UpTo
    <2>6. n \in T
      <3>1. n \in 0..n
        BY <2>1
      <3>2. QED
        BY <2>5, <3>1, Zenon
    <2>7. Keeps(f[n + 1], S)
      BY <2>6, Zenon
    <2>8. QED
      BY <2>1, <2>2, <2>7, Zenon
  <1>3. QED
    BY <1>1, <1>2

\* Octets that also tell the result q, after any of the answers S that say no other than R.
Readings(p, R) == {data \in Octets : Reading(data, p, R)}
Adds(c, S, p, q) == Keeps(c, S) /\ \A data \in S : Told(data \o c, p, q)
\* Of two chunks one after the other it is enough that one tells it.
LEMMA AddsJoined ==
    ASSUME NEW p, NEW R, NEW S, S \subseteq Readings(p, R), NEW q, NEW a, NEW b,
           Keeps(a, S), Keeps(b, S), Adds(a, S, p, q) \/ Adds(b, S, p, q)
    PROVE  Adds(a \o b, S, p, q)
  <1>1. S \subseteq Octets
    BY Zenon DEF Readings
  <1>2. Keeps(a \o b, S)
    BY <1>1, KeepsJoined, Zenon
  <1>3. a \in Octets /\ b \in Octets
    BY Zenon DEF Keeps
  <1>4. ASSUME NEW data \in S PROVE Told(data \o (a \o b), p, q)
    <2>1. data \in Octets
      BY <1>1, Zenon
    <2>2. data \o (a \o b) = (data \o a) \o b
      BY <1>3, <2>1, RegroupedOctets, Zenon
    <2>3. data \o a \in S
      BY Zenon DEF Keeps
    <2>4. CASE Adds(a, S, p, q)
      <3>1. Told(data \o a, p, q) /\ Reading(data \o a, p, R)
        BY <2>3, <2>4, Zenon DEF Adds, Readings
      <3>2. Told((data \o a) \o b, p, q)
        BY <1>3, <3>1, ToldGrows, Zenon
      <3>3. QED
        BY <2>2, <3>2, Zenon
    <2>5. CASE Adds(b, S, p, q)
      BY <2>2, <2>3, <2>5, Zenon DEF Adds
    <2>6. QED
      BY <2>4, <2>5, Zenon
  <1>5. QED
    BY <1>2, <1>4, Zenon DEF Adds

\* And of any number of them.
LEMMA AddsFlattened ==
    ASSUME NEW p, NEW R, NEW S, S \subseteq Readings(p, R), NEW q,
           NEW seqs \in Seq(Octets), \A i \in 1..Len(seqs) : Keeps(seqs[i], S),
           NEW k \in 1..Len(seqs), Adds(seqs[k], S, p, q)
    PROVE  Adds(FlattenSeq(seqs), S, p, q)
  <1> DEFINE n == Len(seqs) - 1
  <1>0. n \in Nat /\ n + 1 = Len(seqs) /\ Len(seqs) # 0 /\ k \in Nat /\ k >= 1 /\ k <= n + 1
    OBVIOUS
  <1>1. S \subseteq Octets
    BY Zenon DEF Readings
  <1>2. PICK f : /\ FlattenSeq(seqs) = f[Len(seqs)]
                 /\ \A i \in 1..Len(seqs) :
                      f[i] \in Octets /\ f[i] = IF i = 1 THEN seqs[i] ELSE f[i-1] \o seqs[i]
    BY <1>0, FlattenLoop, Zenon
  <1> DEFINE Said(i) == Keeps(f[i], S) /\ (i >= k => Adds(f[i], S, p, q))
             T == {i \in 0..n : Said(i + 1)}
  <1>3. 0 \in T
    <2>1. 1 \in 1..Len(seqs) /\ 0 + 1 = 1 /\ 0 \in 0..n /\ (1 >= k => k = 1)
      BY <1>0
    <2>2. f[1] = seqs[1]
      BY <1>2, <2>1, Zenon
    <2>3. Keeps(f[1], S)
      BY <2>1, <2>2, Zenon
    <2>4. Said(1)
      BY <2>1, <2>2, <2>3, Zenon
    <2> HIDE DEF Said
    <2>5. QED
      BY <2>1, <2>4
  <1>4. ASSUME NEW i \in 0..n, i < n, i \in T PROVE i + 1 \in T
    <2> DEFINE j == (i + 1) + 1
    <2>1. i + 1 \in 0..n /\ j \in 1..Len(seqs) /\ j # 1 /\ j - 1 = i + 1 /\ (j >= k => (i + 1 >= k \/ j = k))
      BY <1>0, <1>4
    <2>2. f[j] = f[i + 1] \o seqs[j]
      BY <1>2, <2>1, Zenon
    <2>3. Said(i + 1)
      <3> HIDE DEF Said
      <3>1. QED
        BY <1>4
    <2> HIDE DEF j
    <2>4. Keeps(f[i + 1], S) /\ Keeps(seqs[j], S)
      BY <2>1, <2>3, Zenon
    <2>5. Keeps(f[j], S)
      BY <1>1, <2>2, <2>4, KeepsJoined, Zenon
    <2>6. ASSUME j >= k PROVE Adds(f[j], S, p, q)
      <3>1. Adds(f[i + 1], S, p, q) \/ Adds(seqs[j], S, p, q)
        BY <2>1, <2>3, <2>6, Zenon
      <3>2. QED
        BY <2>2, <2>4, <3>1, AddsJoined, Zenon
    <2>7. Said(j)
      BY <2>5, <2>6, Zenon
    <2> HIDE DEF Said
    <2>8. QED
      BY <2>1, <2>7, Zenon DEF j
  <1>5. \A i \in 0..n : i \in T
    <2> HIDE DEF T, n
    <2>1. QED
      BY <1>0, <1>3, <1>4, UpTo
  <1>6. n \in T
    <2>1. n \in 0..n
      BY <1>0
    <2>2. QED
      BY <1>5, <2>1, Zenon
  <1>7. Said(n + 1) /\ n + 1 >= k
    <2>1. n + 1 >= k
      BY <1>0
    <2> HIDE DEF Said
    <2>2. QED
      BY <1>6, <2>1, Zenon
  <1>8. QED
    BY <1>0, <1>2, <1>7, Zenon

\* The answers so far of which every entry is one of R: inside the results of an
\* object, and between two objects.
Inner(p, R, o) == {data \in Octets : InObject(data, p, R, o)}
Outer(p, R) == {data \in Octets : AtTop(data, p, R)}

\* What reads a property's result: the property, its index if it has one, and its
\* value or its absence.
ResultOfProperty(property, index, value) ==
    (context_unsigned(2, property) \o Optional(index, context_unsigned(3, index[1]))) \o ResultOctets(value)
Reported(property, index, value) ==
    /\ property \in Nat /\ Fits(property, 4)
    /\ index = None \/ (index = <<index[1]>> /\ index[1] \in Nat /\ Fits(index[1], 4))
    /\ Given(value) => Fitting(value[1])
\* The result of a property of the object being read says one of R, is told, and leaves
\* the parser in that object.
LEMMA PropertyAdds ==
    ASSUME NEW p, NEW R, NEW o, NEW property, NEW index, NEW value, Reported(property, index, value),
           <<<<o, property, index>>, ResultOf(value)>> \in R
    PROVE  Adds(ResultOfProperty(property, index, value), Inner(p, R, o), p,
                <<<<o, property, index>>, ResultOf(value)>>)
  <1> DEFINE a == context_unsigned(2, property)
             b == Optional(index, context_unsigned(3, index[1]))
             c == ResultOctets(value)
             key == <<o, property, index>>
  <1>1. /\ property \in Nat /\ Fits(property, 4)
        /\ index = None \/ (index = <<index[1]>> /\ index[1] \in Nat /\ Fits(index[1], 4))
        /\ Given(value) => Fitting(value[1])
    BY Zenon DEF Reported
  <1>2. a \in Octets
    BY <1>1, UnsignedTags
  <1>3. b \in Octets
    <2>1. CASE index = None
      BY <2>1, OctetsAre, Zenon DEF Optional, Given
    <2>2. CASE index # None
      <3>1. context_unsigned(3, index[1]) \in Octets
        BY <1>1, <2>2, UnsignedTags
      <3>2. QED
        BY <3>1, GivenOrNot, Zenon
    <2>3. QED
      BY <2>1, <2>2, Zenon
  <1>4. c \in Octets
    <2>1. CASE Given(value)
      <3>1. value[1] \in Octets
        BY <1>1, <2>1, Zenon DEF Fitting
      <3>2. Enclosed(4, value[1]) \in Octets
        BY <3>1, EnclosedOctets
      <3>3. QED
        BY <2>1, <3>2, Zenon DEF ResultOctets
    <2>2. CASE ~Given(value)
      <3>1. Absent \in Octets
        BY AbsentSays, Zenon DEF Fitting
      <3>2. Enclosed(5, Absent) \in Octets
        BY <3>1, EnclosedOctets
      <3>3. QED
        BY <2>2, <3>2, Zenon DEF ResultOctets
    <2>3. QED
      BY <2>1, <2>2, Zenon
  <1>5. a \o b \in Octets /\ (a \o b) \o c \in Octets
    BY <1>2, <1>3, <1>4, Joined, Zenon
  <1>6. ASSUME NEW data \in Inner(p, R, o)
        PROVE  /\ data \o ((a \o b) \o c) \in Inner(p, R, o)
               /\ Told(data \o ((a \o b) \o c), p, <<key, ResultOf(value)>>)
    <2>1. data \in Octets /\ InObject(data, p, R, o)
      BY Zenon DEF Inner
    <2>2. AtProperty(data \o a, p, R, o, <<o, property, None>>)
      BY <1>1, <2>1, PropertyNamed, Zenon
    <2>3. data \o a \in Octets
      BY <1>2, <2>1, Joined, Zenon
    <2>4. AtProperty((data \o a) \o b, p, R, o, key)
      <3>1. CASE index = None
        <4>1. b = << >> /\ key = <<o, property, None>>
          BY <3>1, Zenon DEF Optional, Given
        <4>2. (data \o a) \o << >> = data \o a
          <5>1. data \o a \in Seq(Octet)
            BY <2>3, Zenon DEF Octets
          <5> HIDE DEF a
          <5>2. QED
            BY <5>1
        <4>3. QED
          BY <2>2, <4>1, <4>2, Zenon
      <3>2. CASE index # None
        <4>1. b = context_unsigned(3, index[1]) /\ index = Some(index[1])
          BY <1>1, <3>2, Zenon DEF Optional, Given, Some
        <4>2. AtProperty((data \o a) \o context_unsigned(3, index[1]), p, R, o, <<o, property, Some(index[1])>>)
          BY <1>1, <2>2, <3>2, IndexNamed, Zenon
        <4>3. QED
          BY <4>1, <4>2, Zenon
      <3>3. QED
        BY <3>1, <3>2, Zenon
    <2>5. /\ InObject(((data \o a) \o b) \o c, p, R, o)
          /\ Told(((data \o a) \o b) \o c, p, <<key, ResultOf(value)>>)
      BY <1>1, <2>4, ResultAdded, Zenon
    <2> HIDE DEF a, b, c
    <2>6. data \o ((a \o b) \o c) = ((data \o a) \o b) \o c
      <3>1. data \o ((a \o b) \o c) = (data \o (a \o b)) \o c
        BY <1>4, <1>5, <2>1, RegroupedOctets, ZenonT(60)
      <3>2. data \o (a \o b) = (data \o a) \o b
        BY <1>2, <1>3, <2>1, RegroupedOctets, Zenon
      <3>3. QED
        BY <3>1, <3>2, Zenon
    <2>7. data \o ((a \o b) \o c) \in Octets
      BY <1>5, <2>1, Joined, Zenon
    <2>8. QED
      BY <2>5, <2>6, <2>7, Zenon DEF Inner
  <1>7. Adds((a \o b) \o c, Inner(p, R, o), p, <<key, ResultOf(value)>>)
    <2> HIDE DEF a, b, c, key
    <2>1. QED
      BY <1>5, <1>6, Zenon DEF Keeps, Adds
  <1>8. QED
    BY <1>7, Zenon DEF ResultOfProperty

\* An object and its results.
ResultsOfObject(o, chunks) == context_object_id(0, o) \o Enclosed(1, FlattenSeq(chunks))
\* How the parser goes through an object: to the results inside it, and out.
LEMMA ObjectReached ==
    ASSUME NEW p, NEW R, NEW o \in Nat \X Nat, o[1] < 1024, o[2] <= MAX_INSTANCE,
           NEW w, Keeps(w, Inner(p, R, o)), NEW data \in Outer(p, R)
    PROVE  \E two \in Inner(p, R, o) :
             /\ data \o (context_object_id(0, o) \o Enclosed(1, w)) = (two \o w) \o closing(1)
             /\ two \o w \in Inner(p, R, o) /\ closing(1) \in Octets
  <1> DEFINE a == context_object_id(0, o)
             e == Enclosed(1, w)
             one == data \o a
             two == one \o opening(1)
  <1>1. w \in Octets /\ \A x \in Inner(p, R, o) : x \o w \in Inner(p, R, o)
    BY Zenon DEF Keeps
  <1>2. a \in Octets
    <2>1. o[1] \in Int /\ o[2] \in Int
      OBVIOUS
    <2>2. QED
      BY <2>1, ObjectTags
  <1>3. 1 \in Nat /\ 1 <= 14
    OBVIOUS
  <1>4. data \in Octets /\ AtTop(data, p, R)
    BY ZenonT(60) DEF Outer
  <1>5. Named(one, p, R, o)
    BY <1>4, ObjectNamed, Zenon
  <1> HIDE DEF a
  <1>6. one \in Octets
    BY <1>2, <1>4, Joined, ZenonT(60)
  <1>7. InObject(two, p, R, o)
    BY <1>5, ResultsOpened, Zenon
  <1> HIDE DEF one
  <1>8. ASSUME NEW tag \in Nat, tag <= 14
        PROVE  /\ one \o Enclosed(tag, w) = ((one \o opening(tag)) \o w) \o closing(tag)
               /\ opening(tag) \in Octets /\ closing(tag) \in Octets /\ Enclosed(tag, w) \in Octets
    BY <1>1, <1>6, <1>8, EnclosedAfter, ZenonT(60)
  <1>9. one \o e = (two \o w) \o closing(1) /\ opening(1) \in Octets /\ closing(1) \in Octets /\ e \in Octets
    BY <1>3, <1>8, Zenon
  <1> HIDE DEF e
  <1>10. two \in Octets
    BY <1>6, <1>9, Joined, Zenon
  <1>11. two \in Inner(p, R, o)
    BY <1>7, <1>10, ZenonT(60) DEF Inner
  <1>12. data \o (a \o e) = one \o e
    BY <1>2, <1>4, <1>9, RegroupedOctets, ZenonT(60) DEF one
  <1> HIDE DEF two
  <1>13. QED
    BY <1>1, <1>9, <1>11, <1>12, Zenon DEF a, e

\* An object with its results leaves the parser between objects, having read only
\* what is in R.
LEMMA ObjectKeeps ==
    ASSUME NEW p, NEW R, NEW o \in Nat \X Nat, o[1] < 1024, o[2] <= MAX_INSTANCE,
           NEW chunks \in Seq(Octets), \A i \in 1..Len(chunks) : Keeps(chunks[i], Inner(p, R, o))
    PROVE  Keeps(ResultsOfObject(o, chunks), Outer(p, R))
  <1> DEFINE w == FlattenSeq(chunks)
             c == context_object_id(0, o) \o Enclosed(1, w)
  <1>1. Inner(p, R, o) \subseteq Octets
    BY Zenon DEF Inner
  <1>2. Keeps(w, Inner(p, R, o))
    BY <1>1, KeepsFlattened, Zenon
  <1>3. w \in Octets
    BY <1>2, Zenon DEF Keeps
  <1> HIDE DEF w
  <1>4. c \in Octets
    <2>1. o[1] \in Int /\ o[2] \in Int
      OBVIOUS
    <2>2. context_object_id(0, o) \in Octets
      BY <2>1, ObjectTags
    <2>3. Enclosed(1, w) \in Octets
      BY <1>3, EnclosedOctets
    <2>4. QED
      BY <2>2, <2>3, Joined, ZenonT(60)
  <1>5. ASSUME NEW data \in Outer(p, R) PROVE data \o c \in Outer(p, R)
    <2>1. PICK two \in Inner(p, R, o) :
            /\ data \o c = (two \o w) \o closing(1)
            /\ two \o w \in Inner(p, R, o) /\ closing(1) \in Octets
      BY <1>2, <1>5, ObjectReached, Zenon
    <2> HIDE DEF c
    <2>2. InObject(two \o w, p, R, o)
      BY <2>1, Zenon DEF Inner
    <2>3. AtTop((two \o w) \o closing(1), p, R)
      BY <2>2, ResultsClosed, Zenon
    <2>4. data \in Octets
      BY <1>5, Zenon DEF Outer
    <2>5. data \o c \in Octets
      BY <1>4, <2>4, Joined, Zenon
    <2>6. QED
      BY <2>1, <2>3, <2>5, Zenon DEF Outer
  <1>6. QED
    BY <1>4, <1>5, ZenonT(60) DEF Keeps, ResultsOfObject, w

\* And what one of the results inside it tells is told.
LEMMA ObjectAdds ==
    ASSUME NEW p, NEW R, NEW o \in Nat \X Nat, o[1] < 1024, o[2] <= MAX_INSTANCE,
           NEW chunks \in Seq(Octets), \A i \in 1..Len(chunks) : Keeps(chunks[i], Inner(p, R, o)),
           NEW k \in 1..Len(chunks), NEW q, Adds(chunks[k], Inner(p, R, o), p, q)
    PROVE  Adds(ResultsOfObject(o, chunks), Outer(p, R), p, q)
  <1> DEFINE w == FlattenSeq(chunks)
             c == context_object_id(0, o) \o Enclosed(1, w)
  <1>1. Inner(p, R, o) \subseteq Readings(p, R)
    BY Zenon DEF Inner, InObject, Readings
  <1>2. Adds(w, Inner(p, R, o), p, q)
    BY <1>1, AddsFlattened, Zenon
  <1>3. Keeps(w, Inner(p, R, o)) /\ \A x \in Inner(p, R, o) : Told(x \o w, p, q)
    BY <1>2, ZenonT(60) DEF Adds
  <1> HIDE DEF w
  <1>4. ASSUME NEW data \in Outer(p, R) PROVE Told(data \o c, p, q)
    <2>1. PICK two \in Inner(p, R, o) :
            /\ data \o c = (two \o w) \o closing(1)
            /\ two \o w \in Inner(p, R, o) /\ closing(1) \in Octets
      BY <1>3, <1>4, ObjectReached, ZenonT(60)
    <2> HIDE DEF c
    <2>2. Told(two \o w, p, q) /\ Reading(two \o w, p, R)
      BY <1>1, <1>3, <2>1, ZenonT(60) DEF Readings
    <2>3. Told((two \o w) \o closing(1), p, q)
      BY <2>1, <2>2, ToldGrows, Zenon
    <2>4. QED
      BY <2>1, <2>3, Zenon
  <1>5. Keeps(ResultsOfObject(o, chunks), Outer(p, R))
    BY ObjectKeeps, Zenon
  <1>6. ResultsOfObject(o, chunks) = c
    BY Zenon DEF ResultsOfObject, w
  <1>7. QED
    BY <1>4, <1>5, <1>6, Zenon DEF Adds

\* What a part of an answer tells, the answer tells.
TellsAll(apdu, seqs, R) ==
    \A k \in 1..Len(seqs) : \A q : Adds(seqs[k], Outer(4, R), 4, q) => Told(apdu, 4, q)
\* An answer with the results of any number of objects.
LEMMA AnswerReads ==
    ASSUME NEW id \in Octet, NEW R, NEW seqs \in Seq(Octets),
           \A i \in 1..Len(seqs) : Keeps(seqs[i], Outer(4, R))
    PROVE  LET apdu == complex_ack(id, SERVICE_READ_PROPERTY_MULTIPLE, FlattenSeq(seqs))
           IN  /\ apdu \in Octets /\ Reading(apdu, 4, R)
               /\ apdu[1] = 48 /\ apdu[3] = SERVICE_READ_PROPERTY_MULTIPLE
               /\ TellsAll(apdu, seqs, R)
  <1> DEFINE head == <<16 * PDU_COMPLEX_ACK, id, SERVICE_READ_PROPERTY_MULTIPLE>>
             w == FlattenSeq(seqs)
             T == Structured(head, 4)
  <1>1. head \in Octets /\ Len(head) = 3 /\ head[1] = 48 /\ head[3] = SERVICE_READ_PROPERTY_MULTIPLE
    <2>1. 16 * PDU_COMPLEX_ACK \in Octet /\ SERVICE_READ_PROPERTY_MULTIPLE \in Octet
      BY OctetIs DEF PDU_COMPLEX_ACK, SERVICE_READ_PROPERTY_MULTIPLE
    <2>2. head \in Octets
      BY <2>1, HeaderOctets
    <2>3. QED
      BY <2>2 DEF PDU_COMPLEX_ACK
  <1> HIDE DEF head
  <1>2. Len(head) + 1 = 4 /\ 4 \in Place /\ 4 \in 1..Len(head) + 1
    BY <1>1 DEF Place
  <1>3. Tags(head, 4) = <<>>
    BY <1>1, <1>2, TagsEnd, Zenon
  <1>4. Len(<<>>) = 0 /\ (\A i \in 1..0 : FALSE) /\ 0 \in Nat
    OBVIOUS
  <1>5. Whole(head, 4)
    BY <1>3, <1>4, Zenon DEF Whole
  <1>6. DepthAt(head, 4) = 0
    <2>1. Balanced(<<>>, 0)
      BY <1>4, ValuesBalanced, Zenon
    <2>2. QED
      BY <1>3, <1>4, <2>1, Zenon DEF DepthAt, Balanced
  <1>7. Entries(T) = {} /\ Len(T) = 0
    <2>1. Len(T) = 0
      <3>1. Len(T) = Len(Tags(head, 4))
        BY <1>1, <1>2, StructuredIs, Zenon
      <3>2. QED
        BY <1>3, <1>4, <3>1, Zenon
    <2> HIDE DEF T
    <2>2. QED
      BY <1>4, <2>1, Zenon DEF Entries
  <1>8. head \in Outer(4, R)
    BY <1>1, <1>2, <1>4, <1>5, <1>6, <1>7, Zenon DEF Outer, AtTop, Reading
  <1>9. Keeps(w, Outer(4, R))
    <2>1. Outer(4, R) \subseteq Octets
      BY Zenon DEF Outer
    <2>2. QED
      BY <2>1, KeepsFlattened, Zenon
  <1>10. w \in Octets /\ head \o w \in Outer(4, R)
    BY <1>8, <1>9, Zenon DEF Keeps
  <1>11. head \o w \in Octets /\ Reading(head \o w, 4, R)
    BY <1>10, Zenon DEF Outer, AtTop
  <1>12. (head \o w)[1] = 48 /\ (head \o w)[3] = SERVICE_READ_PROPERTY_MULTIPLE
    <2>1. 1 \in 1..Len(head) /\ 3 \in 1..Len(head)
      BY <1>1
    <2>2. (head \o w)[1] = head[1] /\ (head \o w)[3] = head[3]
      BY <1>1, <1>10, <2>1, Joined, ZenonT(60)
    <2>3. QED
      BY <1>1, <2>2, Zenon
  <1>13. complex_ack(id, SERVICE_READ_PROPERTY_MULTIPLE, w) = head \o w
    BY Zenon DEF complex_ack, head
  <1>14. TellsAll(head \o w, seqs, R)
    <2>1. Outer(4, R) \subseteq Readings(4, R)
      BY Zenon DEF Outer, AtTop, Readings
    <2>2. ASSUME NEW k \in 1..Len(seqs), NEW q, Adds(seqs[k], Outer(4, R), 4, q)
          PROVE  Told(head \o w, 4, q)
      <3>1. Adds(w, Outer(4, R), 4, q)
        BY <2>1, <2>2, AddsFlattened, Zenon
      <3> HIDE DEF w
      <3>2. QED
        BY <1>8, <3>1, Zenon DEF Adds
    <2>3. QED
      BY <2>2, Zenon DEF TellsAll
  <1>15. QED
    BY <1>11, <1>12, <1>13, <1>14, Zenon

\* What is read of an answer whose end was lost is what the answer says.
LEMMA CutReads ==
    ASSUME NEW data, NEW p, NEW R, Reading(data, p, R), NEW v \in Octets, Holds(data, 0, v), p \in Place,
           ~Broken(Structured(v, p)), ~Unclosed(Structured(v, p)),
           NEW key \in DOMAIN ResultsOf(v, Structured(v, p))
    PROVE  <<key, ResultsOf(v, Structured(v, p))[key]>> \in R
  <1> DEFINE C == Structured(v, p)
             T == Structured(data, p)
  <1>1. data \in Octets /\ \A i \in Entries(T) : SaysOneOf(data, T, i, R)
    BY Zenon DEF Reading
  <1>2. PlacedAgree(C, T, Len(v))
    BY <1>1, CutStructured, Zenon
  <1>3. Len(C) \in Nat
    BY <1>2, Zenon DEF PlacedAgree
  <1>4. PICK i \in Entries(C) : EntryKey(C, i) = key /\ ResultsOf(v, C)[key] = EntryResult(v, C, i)
    BY <1>3, ResultFrom, Zenon
  <1>5. ClosedBy(C, i) # 0
    BY Zenon DEF Unclosed
  <1>6. SameEntry(data, T, v, C, i)
    BY <1>1, <1>2, <1>5, CutEntry, Zenon
  <1>7. i \in Entries(T) /\ EntryKey(T, i) = key /\ EntryResult(data, T, i) = ResultsOf(v, C)[key]
    BY <1>4, <1>6, Zenon DEF SameEntry
  <1>8. QED
    BY <1>1, <1>7, Zenon DEF SaysOneOf

\* A value that can be enclosed is whole tags, none of which closes what is not open.
LEMMA EnclosableFits ==
    ASSUME NEW value \in Octets, Enclosable(value)
    PROVE  Fitting(value)
  <1>1. Whole(value, 1) /\ Balanced(Tags(value, 1), Len(Tags(value, 1)))
    <2> DEFINE tags == Tags(value, 1)
    <2>1. /\ \A i \in 1..Len(tags) : tags[i].kind # "raise" /\ tags[i].next <= Len(value) + 1
          /\ Nesting(tags, 1, Len(tags)) = 0
          /\ \A k \in 0..Len(tags) : Nesting(tags, 1, k) >= 0
      BY Zenon DEF Enclosable
    <2>2. Raised.kind = "raise"
      BY DEF Raised
    <2>3. Whole(value, 1)
      BY <2>1, <2>2, Zenon DEF Whole
    <2>4. Balanced(tags, Len(tags))
      BY <2>1, Zenon DEF Balanced
    <2>5. QED
      BY <2>3, <2>4, Zenon
  <1>2. QED
    BY <1>1, Zenon DEF Fitting

\* A property reported in an answer.
LEMMA ReportAdds ==
    ASSUME NEW p, NEW R, NEW o, NEW v, v.value \in Seq(Octets),
           Referable([object |-> o, property |-> v.property, array_index |-> v.array_index]),
           \A value \in ToSet(v.value) : Enclosable(value),
           <<<<o, v.property, v.array_index>>, ResultOf(v.value)>> \in R
    PROVE  Adds(IndexedResult(v), Inner(p, R, o), p, <<<<o, v.property, v.array_index>>, ResultOf(v.value)>>)
  <1> DEFINE q == [object |-> o, property |-> v.property, array_index |-> v.array_index]
             index == v.array_index
             value == v.value
  <1>1. q.object = o /\ q.property = v.property /\ q.array_index = index
    OBVIOUS
  <1>2. Readable(q)
    BY ReferableReadable, Zenon
  <1> HIDE DEF q
  <1>3. /\ v.property \in Nat /\ Fits(v.property, 4)
        /\ index = None \/ (index = <<index[1]>> /\ index[1] \in Nat /\ Fits(index[1], 4))
    BY <1>1, <1>2, Zenon DEF Readable
  <1>4. Given(value) => Fitting(value[1])
    <2>1. SUFFICES ASSUME Given(value) PROVE Fitting(value[1])
      OBVIOUS
    <2>2. value[1] \in Octets /\ value[1] \in ToSet(value)
      <3>1. value \in Seq(Octets) /\ value # << >>
        BY <2>1, Zenon DEF Given, None
      <3> HIDE DEF value
      <3>2. 1 \in 1..Len(value)
        BY <3>1
      <3>3. QED
        BY <3>1, <3>2 DEF ToSet
    <2>3. QED
      BY <2>2, EnclosableFits, Zenon
  <1>5. Reported(v.property, index, value)
    BY <1>3, <1>4, Zenon DEF Reported
  <1>6. IndexedResult(v) = ResultOfProperty(v.property, index, value)
    BY Zenon DEF IndexedResult, ResultOfProperty, ResultOctets, Absent
  <1>7. QED
    BY <1>5, <1>6, PropertyAdds, Zenon

\* A member of a sequence is one of its elements.
LEMMA MemberOf ==
    ASSUME NEW S, NEW s \in Seq(S), NEW i \in 1..Len(s)
    PROVE  s[i] \in S /\ s[i] \in ToSet(s)
  BY DEF ToSet

\* And an element of it is at some place.
LEMMA PlaceOf ==
    ASSUME NEW S, NEW s \in Seq(S), NEW x \in ToSet(s)
    PROVE  \E i \in 1..Len(s) : s[i] = x
  BY DEF ToSet

\* What an answer of an example reports of a property.
Report(o, v) == <<<<o, v.property, v.array_index>>, ResultOf(v.value)>>
\* Every entry of an answer of an example is one of its reports, and every report is told.
LEMMA ReportsRead ==
    ASSUME NEW m \in Messages, m.kind = "multiple ack"
    PROVE  LET apdu == Encoded(m)
           IN  /\ apdu \in Octets /\ Reading(apdu, 4, Reports(m.p.results))
               /\ apdu[1] = 48 /\ apdu[3] = SERVICE_READ_PROPERTY_MULTIPLE
               /\ \A q \in Reports(m.p.results) : Told(apdu, 4, q)
  <1> DEFINE results == m.p.results
             R == Reports(results)
             each(r) == [i \in 1..Len(r.properties) |-> IndexedResult(r.properties[i])]
             seqs == [i \in 1..Len(results) |-> ObjectResults(results[i])]
             P == [property : Nat, array_index : Seq(Nat), value : Seq(Octets)]
             Fine(o, v) ==
               /\ Referable([object |-> o, property |-> v.property, array_index |-> v.array_index])
               /\ \A value \in ToSet(v.value) : Enclosable(value)
  <1>1. /\ m.id \in Octet /\ results \in Seq(ObjectReports)
        /\ \A r \in ToSet(results) :
             /\ r.object[1] < 1024 /\ r.object[2] <= MAX_INSTANCE
             /\ \A v \in ToSet(r.properties) : Fine(r.object, v)
    <2>1. /\ m.id \in Octet /\ results \in Seq(ObjectReports)
          /\ \A r \in ToSet(results) :
               /\ r.object[1] < 1024 /\ r.object[2] <= MAX_INSTANCE
               /\ \A v \in ToSet(r.properties) :
                    /\ Referable([object |-> r.object, property |-> v.property, array_index |-> v.array_index])
                    /\ \A value \in ToSet(v.value) : Enclosable(value)
          /\ \A a, b \in Reports(results) : a[1] = b[1] => a = b
      BY ReportsAssumption, Zenon
    <2>2. QED
      BY <2>1, Zenon
  <1>2. /\ \A r \in ToSet(results) : \A v \in ToSet(r.properties) : Report(r.object, v) \in R
        /\ \A q \in R : \E r \in ToSet(results) : \E v \in ToSet(r.properties) : q = Report(r.object, v)
    <2> DEFINE of(s) == {Report(s.object, w) : w \in ToSet(s.properties)}
    <2>1. R = UNION {of(s) : s \in ToSet(results)}
      BY Zenon DEF Reports, Report
    <2> HIDE DEF R
    <2>2. ASSUME NEW r \in ToSet(results), NEW v \in ToSet(r.properties) PROVE Report(r.object, v) \in R
      <3>1. Report(r.object, v) \in of(r)
        BY Zenon
      <3> HIDE DEF of
      <3>2. QED
        BY <2>1, <3>1, Zenon
    <2>3. ASSUME NEW q \in R
          PROVE  \E r \in ToSet(results) : \E v \in ToSet(r.properties) : q = Report(r.object, v)
      <3>1. PICK r \in ToSet(results) : q \in of(r)
        <4> HIDE DEF of
        <4>1. QED
          BY <2>1, <2>3, Zenon
      <3>2. QED
        BY <3>1, Zenon
    <2>4. QED
      BY <2>2, <2>3, Zenon
  <1> HIDE DEF R, Fine, results
  <1>3. ASSUME NEW i \in 1..Len(results)
        PROVE  /\ Keeps(ObjectResults(results[i]), Outer(4, R))
               /\ results[i] \in ObjectReports
               /\ \A k \in 1..Len(results[i].properties) :
                    Adds(ObjectResults(results[i]), Outer(4, R), 4,
                         Report(results[i].object, results[i].properties[k]))
    <2> DEFINE r == results[i]
               o == r.object
    <2>1. r \in ObjectReports /\ r \in ToSet(results)
      BY <1>1, <1>3, MemberOf, Zenon
    <2> HIDE DEF r
    <2>2. o \in Nat \X Nat /\ r.properties \in Seq(P)
      BY <2>1 DEF ObjectReports
    <2>3. o[1] < 1024 /\ o[2] <= MAX_INSTANCE /\ \A v \in ToSet(r.properties) : Fine(o, v)
      BY <1>1, <2>1, ZenonT(60)
    <2> HIDE DEF o, P
    <2>4. ASSUME NEW k \in 1..Len(r.properties)
          PROVE  Adds(IndexedResult(r.properties[k]), Inner(4, R, o), 4, Report(o, r.properties[k]))
      <3> DEFINE v == r.properties[k]
      <3>1. v \in P /\ v \in ToSet(r.properties)
        BY <2>2, <2>4, MemberOf, Zenon
      <3> HIDE DEF v
      <3>2. v.value \in Seq(Octets)
        BY <3>1 DEF P
      <3>3. Fine(o, v) /\ Report(o, v) \in R
        BY <1>2, <2>1, <2>3, <3>1, ZenonT(60) DEF o
      <3>4. /\ Referable([object |-> o, property |-> v.property, array_index |-> v.array_index])
            /\ \A value \in ToSet(v.value) : Enclosable(value)
        BY <3>3, Zenon DEF Fine
      <3>5. Adds(IndexedResult(v), Inner(4, R, o), 4, Report(o, v))
        BY <3>2, <3>3, <3>4, ReportAdds, Zenon DEF Report
      <3>6. QED
        BY <3>5, Zenon DEF v
    <2> DEFINE l == Len(r.properties)
               chunks == each(r)
    <2>5. l \in Nat
      <3>1. r.properties \in Seq(P)
        BY <2>2, Zenon
      <3>2. QED
        BY ONLY <3>1
    <2>6. chunks \in Seq(Octets) /\ Len(chunks) = l /\ \A k \in 1..l : chunks[k] = IndexedResult(r.properties[k])
      <3>1. \A k \in 1..l : IndexedResult(r.properties[k]) \in Octets
        BY <2>4, Zenon DEF Keeps, Adds
      <3> HIDE DEF l
      <3>2. chunks = [k \in 1..l |-> IndexedResult(r.properties[k])]
        BY Zenon DEF l
      <3> HIDE DEF chunks
      <3>3. QED
        BY ONLY <2>5, <3>1, <3>2
    <2> HIDE DEF chunks, l
    <2>7. \A k \in 1..Len(chunks) : Keeps(chunks[k], Inner(4, R, o))
      BY <2>4, <2>6, Zenon DEF l, Adds
    <2>8. Keeps(ResultsOfObject(o, chunks), Outer(4, R))
      BY <2>2, <2>3, <2>6, <2>7, ObjectKeeps, ZenonT(60)
    <2>9. ObjectResults(r) = ResultsOfObject(o, chunks)
      BY Zenon DEF ObjectResults, ResultsOfObject, chunks, o
    <2>10. ASSUME NEW k \in 1..l PROVE Adds(ObjectResults(r), Outer(4, R), 4, Report(o, r.properties[k]))
      <3>1. Adds(chunks[k], Inner(4, R, o), 4, Report(o, r.properties[k])) /\ k \in 1..Len(chunks)
        BY <2>4, <2>6, <2>10, Zenon DEF l
      <3>2. QED
        BY <2>2, <2>3, <2>6, <2>7, <2>9, <3>1, ObjectAdds, ZenonT(60)
    <2>11. QED
      BY <2>1, <2>8, <2>9, <2>10, Zenon DEF r, l, o
  <1>4. Len(results) \in Nat
    <2>1. results \in Seq(ObjectReports)
      BY <1>1, Zenon
    <2>2. QED
      BY ONLY <2>1
  <1>5. seqs \in Seq(Octets) /\ Len(seqs) = Len(results)
        /\ \A i \in 1..Len(seqs) : Keeps(seqs[i], Outer(4, R)) /\ seqs[i] = ObjectResults(results[i])
    <2> DEFINE n == Len(results)
    <2>1. \A i \in 1..n : ObjectResults(results[i]) \in Octets
      BY <1>3, Zenon DEF Keeps
    <2> HIDE DEF n
    <2>2. seqs = [i \in 1..n |-> ObjectResults(results[i])]
      BY Zenon DEF n
    <2> HIDE DEF seqs
    <2>3. seqs \in Seq(Octets) /\ Len(seqs) = n /\ \A i \in 1..n : seqs[i] = ObjectResults(results[i])
      <3>1. n \in Nat
        BY <1>4, Zenon DEF n
      <3>2. QED
        BY ONLY <2>1, <2>2, <3>1
    <2>4. QED
      BY <1>3, <2>3, Zenon DEF n
  <1> HIDE DEF seqs
  <1> DEFINE apdu == complex_ack(m.id, SERVICE_READ_PROPERTY_MULTIPLE, FlattenSeq(seqs))
  <1>6. /\ apdu \in Octets /\ Reading(apdu, 4, R) /\ apdu[1] = 48 /\ apdu[3] = SERVICE_READ_PROPERTY_MULTIPLE
        /\ TellsAll(apdu, seqs, R)
    BY <1>1, <1>5, AnswerReads, ZenonT(60)
  <1>7. Encoded(m) = apdu
    <2>1. Encoded(m) = multiple_ack(m.id, m.p)
      BY Zenon DEF Encoded
    <2>2. QED
      BY <2>1, Zenon DEF multiple_ack, seqs, results
  <1> HIDE DEF apdu
  <1>8. ASSUME NEW q \in R PROVE Told(apdu, 4, q)
    <2>1. PICK r \in ToSet(results) : \E v \in ToSet(r.properties) : q = Report(r.object, v)
      BY <1>2, <1>8, Zenon
    <2>2. PICK v \in ToSet(r.properties) : q = Report(r.object, v)
      BY <2>1, Zenon
    <2>3. PICK i \in 1..Len(results) : results[i] = r
      <3>1. results \in Seq(ObjectReports)
        BY <1>1, Zenon
      <3>2. QED
        BY <3>1, PlaceOf, Zenon
    <2>4. PICK k \in 1..Len(r.properties) : r.properties[k] = v
      <3>1. r \in ObjectReports
        BY <1>3, <2>3, Zenon
      <3>2. r.properties \in Seq(P)
        BY <3>1 DEF ObjectReports
      <3> HIDE DEF P
      <3>3. QED
        BY <3>2, PlaceOf, Zenon
    <2>5. Adds(seqs[i], Outer(4, R), 4, q) /\ i \in 1..Len(seqs)
      BY <1>3, <1>5, <2>2, <2>3, <2>4, Zenon
    <2>6. QED
      BY <1>6, <2>5, Zenon DEF TellsAll
  <1>9. QED
    BY <1>6, <1>7, <1>8, Zenon DEF R, results

-----------------------------------------------------------------------------
(* What a server reads of a request for several properties                  *)

\* One tag more is one step more.
LEMMA ReadOneMore ==
    ASSUME NEW data \in Octets, NEW whole \in Octets,
           NEW T \in Seq(AllTags(data)), NEW U \in Seq(AllTags(whole)),
           Len(U) = Len(T) + 1, Begins(U, T, Len(T))
    PROVE  SpecificationsRead(U) = SpecificationStep(SpecificationsRead(T), U[Len(T) + 1])
  <1> DEFINE n == Len(T)
  <1>1. n \in Nat
    OBVIOUS
  <1>2. PICK f : ReadBy(T, f)
    BY SpecificationsLoop, Zenon
  <1>3. PICK g : ReadBy(U, g)
    BY SpecificationsLoop, Zenon
  <1>4. /\ SpecificationsRead(T) = f[n] /\ f[0] = NothingRead
        /\ \A i \in 1..n : f[i] = SpecificationStep(f[i - 1], T[i])
    BY <1>2, Zenon DEF ReadBy
  <1>5. /\ SpecificationsRead(U) = g[n + 1] /\ g[0] = NothingRead
        /\ \A i \in 1..n + 1 : g[i] = SpecificationStep(g[i - 1], U[i])
    BY <1>3, Zenon DEF ReadBy
  <1>6. \A i \in 1..n : U[i] = T[i]
    BY Zenon DEF Begins
  <1> HIDE DEF n
  <1> DEFINE S == {i \in 0..n : f[i] = g[i]}
  <1>7. 0 \in S
    BY <1>1, <1>4, <1>5
  <1>8. ASSUME NEW i \in 0..n, i < n, i \in S PROVE i + 1 \in S
    <2>1. i + 1 \in 1..n /\ i + 1 \in 1..n + 1 /\ (i + 1) - 1 = i /\ i + 1 \in 0..n
      BY <1>1, <1>8
    <2>2. f[i] = g[i]
      BY <1>8, Zenon
    <2>3. f[i + 1] = SpecificationStep(f[i], T[i + 1]) /\ g[i + 1] = SpecificationStep(g[i], U[i + 1])
      BY <1>4, <1>5, <2>1, Zenon
    <2>4. f[i + 1] = g[i + 1]
      BY <1>6, <2>1, <2>2, <2>3, Zenon
    <2>5. QED
      BY <2>1, <2>4, Zenon
  <1>9. \A i \in 0..n : i \in S
    <2> HIDE DEF S
    <2>1. QED
      BY <1>1, <1>7, <1>8, UpTo
  <1>10. f[n] = g[n]
    <2>1. n \in 0..n
      BY <1>1
    <2>2. QED
      BY <1>9, <2>1, Zenon
  <1>11. n + 1 \in 1..n + 1 /\ (n + 1) - 1 = n
    BY <1>1
  <1>12. g[n + 1] = SpecificationStep(g[n], U[n + 1])
    BY <1>5, <1>11, Zenon
  <1>13. QED
    BY <1>4, <1>5, <1>10, <1>12, Zenon DEF n

Collected(data) == SpecificationsRead(Tags(data, 1))
OneStep(data, chunk, t) ==
    /\ data \o chunk \in Octets /\ Whole(data \o chunk, 1)
    /\ Collected(data \o chunk) = SpecificationStep(Collected(data), Moved(t, Len(data)))
\* What is collected when one more tag follows.
LEMMA CollectedOneMore ==
    ASSUME NEW data \in Octets, Whole(data, 1), NEW chunk \in Octets, Whole(chunk, 1),
           NEW t, Tags(chunk, 1) = <<t>>
    PROVE  OneStep(data, chunk, t)
  <1> DEFINE whole == data \o chunk
             T == Tags(data, 1)
             U == Tags(whole, 1)
             x == Moved(t, Len(data))
  <1>1. whole \in Octets /\ Len(data) \in Nat
    BY HoldsAfter, Zenon
  <1>2. 1 \in 1..Len(data) + 1 /\ 1 \in Place
    BY <1>1 DEF Place
  <1>3. Whole(whole, 1)
    BY <1>2, Grown, Zenon
  <1>4. U = T \o <<x>>
    <2>1. U = MovedTags(T, 0) \o MovedTags(<<t>>, Len(data))
      BY TagsJoined, Zenon
    <2>2. MovedTags(T, 0) = T
      BY <1>2, NotMoved, Zenon
    <2>3. \A u, at : MovedTags(<<u>>, at) = <<Moved(u, at)>>
      BY DEF MovedTags
    <2>4. QED
      BY <2>1, <2>2, <2>3, Zenon
  <1>5. T \in Seq(AllTags(data)) /\ U \in Seq(AllTags(whole))
    BY <1>1, <1>2, TagsFrom, Zenon
  <1> HIDE DEF whole, T, U, x
  <1> DEFINE A == AllTags(data)
             n == Len(T)
  <1>6. n \in Nat /\ Len(U) = n + 1 /\ (\A i \in 1..n : U[i] = T[i]) /\ U[n + 1] = x
    <2>1. T \in Seq(A) /\ <<x>> \in Seq({x}) /\ Len(<<x>>) = 1 /\ <<x>>[1] = x /\ 1 \in 1..1
      BY <1>5
    <2> HIDE DEF A
    <2>2. /\ Len(T \o <<x>>) = Len(T) + Len(<<x>>) /\ (\A i \in 1..Len(T) : (T \o <<x>>)[i] = T[i])
          /\ \A k \in 1..Len(<<x>>) : (T \o <<x>>)[Len(T) + k] = <<x>>[k]
      BY <2>1, OneThenOther
    <2>3. n \in Nat
      BY <2>1
    <2>4. QED
      BY <1>4, <2>1, <2>2, <2>3, Zenon
  <1>7. Begins(U, T, n)
    BY <1>6, Zenon DEF Begins
  <1>8. SpecificationsRead(U) = SpecificationStep(SpecificationsRead(T), U[n + 1])
    BY <1>1, <1>5, <1>6, <1>7, ReadOneMore, Zenon
  <1>9. QED
    BY <1>1, <1>3, <1>6, <1>8, Zenon DEF OneStep, Collected, whole, T, U, x

\* Every property collected is one of those asked, A, of an object of O.
OnlyAsked(s, A, O) ==
    \A o \in DOMAIN s.members : o \in O /\ \A k \in 1..Len(s.members[o]) : <<o, s.members[o][k]>> \in A

\* An object is named.
LEMMA ObjectOnly ==
    ASSUME NEW A, NEW O, NEW s \in SpecificationsSoFar, OnlyAsked(s, A, O), s.current = None,
           NEW tag, IsValue(tag, 0), Len(tag.body) = 4, AsObject(tag.body) \in O
    PROVE  /\ OnlyAsked(SpecificationStep(s, tag), A, O)
           /\ SpecificationStep(s, tag).current = Some(AsObject(tag.body))
  <1> DEFINE o == AsObject(tag.body)
             order == IF Contains(s.order, o) THEN s.order ELSE Append(s.order, o)
             members == [p \in DOMAIN s.members \cup {o} |-> IF p = o THEN <<>> ELSE s.members[p]]
             t == [current |-> Some(o), order |-> order, members |-> members]
  <1>1. SpecificationStep(s, tag) = t
    BY Zenon DEF SpecificationStep, Given
  <1> HIDE DEF o, order
  <1>2. t.current = Some(o) /\ t.members = members
    OBVIOUS
  <1> HIDE DEF t
  <1>3. ASSUME NEW p \in DOMAIN members
        PROVE  p \in O /\ \A k \in 1..Len(members[p]) : <<p, members[p][k]>> \in A
    <2>1. p \in DOMAIN s.members \cup {o}
      BY <1>3, Zenon
    <2>2. CASE p = o
      <3>1. members[p] = <<>> /\ p \in O
        BY <2>1, <2>2, Zenon DEF o
      <3>2. Len(<<>>) = 0 /\ \A k \in 1..0 : FALSE
        OBVIOUS
      <3> HIDE DEF members
      <3>3. QED
        BY <3>1, <3>2, Zenon
    <2>3. CASE p # o
      <3>1. members[p] = s.members[p] /\ p \in DOMAIN s.members
        BY <2>1, <2>3, Zenon
      <3> HIDE DEF members
      <3>2. QED
        BY <3>1, Zenon DEF OnlyAsked
    <2>4. QED
      BY <2>2, <2>3
  <1> HIDE DEF members
  <1>4. OnlyAsked(t, A, O)
    BY <1>2, <1>3, Zenon DEF OnlyAsked
  <1>5. QED
    BY <1>1, <1>2, <1>4, Zenon DEF o

\* A property is asked of it.
LEMMA PropertyOnly ==
    ASSUME NEW A, NEW O, NEW s \in SpecificationsSoFar, OnlyAsked(s, A, O), NEW o, s.current = Some(o),
           NEW tag, IsValue(tag, 0), NEW property \in Nat, FromBytes(tag.body) = property, <<o, property>> \in A
    PROVE  /\ OnlyAsked(SpecificationStep(s, tag), A, O)
           /\ SpecificationStep(s, tag).current = Some(o)
  <1> DEFINE added == Append(s.members[o], property)
             members == [s.members EXCEPT ![o] = added]
             t == SpecificationStep(s, tag)
  <1>1. Given(s.current) /\ s.current[1] = o
    BY DEF Given, None, Some
  <1>2. PICK D \in SUBSET Objects : s.members \in [D -> Seq(Nat)]
    BY DEF SpecificationsSoFar
  <1>3. /\ o \in D /\ DOMAIN s.members = D
        /\ s = [current |-> s.current, order |-> s.order, members |-> s.members]
    BY <1>1, <1>2 DEF SpecificationsSoFar
  <1>4. t = [s EXCEPT !.members[s.current[1]] = Append(@, FromBytes(tag.body))]
    BY <1>1, Zenon DEF SpecificationStep
  <1> HIDE DEF t
  <1>5. t = [current |-> s.current, order |-> s.order, members |-> members]
    BY <1>1, <1>3, <1>4
  <1>6. t.current = Some(o) /\ t.members = members
    BY <1>5
  <1>7. s.members[o] \in Seq(Nat)
    BY <1>2, <1>3
  <1>8. members \in [D -> Seq(Nat)] /\ members[o] = added /\ \A p \in D : p # o => members[p] = s.members[p]
    <2>1. added \in Seq(Nat)
      BY <1>7
    <2> HIDE DEF added
    <2>2. QED
      BY <1>2, <1>3, <2>1
  <1> HIDE DEF members
  <1>9. ASSUME NEW p \in D PROVE p \in O /\ \A k \in 1..Len(members[p]) : <<p, members[p][k]>> \in A
    <2>1. p \in O /\ \A k \in 1..Len(s.members[p]) : <<p, s.members[p][k]>> \in A
      BY <1>3, <1>9, Zenon DEF OnlyAsked
    <2>2. CASE p # o
      <3>1. members[p] = s.members[p]
        BY <1>8, <1>9, <2>2, Zenon
      <3>2. QED
        BY <2>1, <3>1, Zenon
    <2>3. CASE p = o
      <3> DEFINE l == s.members[o]
                 n == Len(l)
      <3>1. l \in Seq(Nat) /\ members[p] = Append(l, property)
        BY <1>7, <1>8, <2>3, Zenon
      <3> HIDE DEF l
      <3>2. /\ n \in Nat /\ Len(Append(l, property)) = n + 1 /\ Append(l, property)[n + 1] = property
            /\ \A k \in 1..n : Append(l, property)[k] = l[k]
        BY <3>1
      <3> DEFINE a == Append(l, property)
      <3> HIDE DEF n, a
      <3>3. n \in Nat /\ Len(a) = n + 1 /\ a[n + 1] = property /\ \A k \in 1..n : a[k] = l[k]
        BY <3>2, Zenon DEF a
      <3>4. \A k \in 1..n : <<p, l[k]>> \in A
        BY <2>1, <2>3, Zenon DEF l, n
      <3>5. ASSUME NEW k \in 1..n + 1 PROVE <<p, a[k]>> \in A
        <4>1. CASE k = n + 1
          BY <2>3, <3>3, <4>1, Zenon
        <4>2. CASE k # n + 1
          <5>1. k \in 1..n
            BY <3>3, <3>5, <4>2
          <5>2. QED
            BY <3>3, <3>4, <5>1, Zenon
        <4>3. QED
          BY <4>1, <4>2
      <3>6. QED
        BY <2>1, <3>1, <3>3, <3>5, Zenon DEF a
    <2>4. QED
      BY <2>2, <2>3
  <1>10. DOMAIN members = D
    BY <1>8, Zenon
  <1>11. OnlyAsked(t, A, O)
    BY <1>6, <1>9, <1>10, Zenon DEF OnlyAsked
  <1>12. QED
    BY <1>6, <1>11, Zenon DEF t

\* The list is closed, and any other tag changes nothing.
LEMMA OtherOnly ==
    ASSUME NEW A, NEW O, NEW s \in SpecificationsSoFar, OnlyAsked(s, A, O), NEW tag, ~IsValue(tag, 0)
    PROVE  /\ OnlyAsked(SpecificationStep(s, tag), A, O)
           /\ (tag.kind = "close" /\ tag.number = 1) => SpecificationStep(s, tag).current = None
           /\ tag.kind # "close" => SpecificationStep(s, tag) = s
  <1> DEFINE t == SpecificationStep(s, tag)
  <1>1. CASE tag.kind = "close" /\ tag.number = 1
    <2>1. t = [s EXCEPT !.current = None]
      BY <1>1, Zenon DEF SpecificationStep
    <2>2. s = [current |-> s.current, order |-> s.order, members |-> s.members]
      BY DEF SpecificationsSoFar
    <2> HIDE DEF t
    <2>3. t.current = None /\ t.members = s.members
      BY <2>1, <2>2
    <2>4. OnlyAsked(t, A, O)
      BY <2>3, Zenon DEF OnlyAsked
    <2>5. QED
      BY <1>1, <2>3, <2>4, Zenon DEF t
  <1>2. CASE ~(tag.kind = "close" /\ tag.number = 1)
    BY <1>2, Zenon DEF SpecificationStep
  <1>3. QED
    BY <1>1, <1>2, Zenon

\* The property w[2] of the object w[1] has been collected.
Collects(s, w) ==
    \E i \in 1..Len(s.order) :
      s.order[i] = w[1] /\ \E k \in 1..Len(s.members[w[1]]) : s.members[w[1]][k] = w[2]
\* The objects with members are in the order, and all of K has been collected.
HasAll(s, K) ==
    /\ \A o \in DOMAIN s.members : \E i \in 1..Len(s.order) : s.order[i] = o
    /\ \A w \in K : Collects(s, w)

\* An object that is named takes nothing from the others.
LEMMA ObjectHas ==
    ASSUME NEW K, NEW s \in SpecificationsSoFar, HasAll(s, K), s.current = None,
           NEW tag, IsValue(tag, 0), Len(tag.body) = 4, \A w \in K : w[1] # AsObject(tag.body)
    PROVE  HasAll(SpecificationStep(s, tag), K)
  <1> DEFINE o == AsObject(tag.body)
             order == IF Contains(s.order, o) THEN s.order ELSE Append(s.order, o)
             members == [p \in DOMAIN s.members \cup {o} |-> IF p = o THEN <<>> ELSE s.members[p]]
             t == [current |-> Some(o), order |-> order, members |-> members]
  <1>1. SpecificationStep(s, tag) = t
    BY Zenon DEF SpecificationStep, Given
  <1>2. \A w \in K : w[1] # o
    BY Zenon
  <1>3. s.order \in Seq(Objects)
    BY DEF SpecificationsSoFar
  <1> HIDE DEF o
  <1>4. /\ \E i \in 1..Len(order) : order[i] = o
        /\ \A i \in 1..Len(s.order) : i \in 1..Len(order) /\ order[i] = s.order[i]
    <2> DEFINE q == s.order
    <2> HIDE DEF q
    <2>1. q \in Seq(Objects) /\ order = IF Contains(q, o) THEN q ELSE Append(q, o)
      BY <1>3, Zenon DEF q
    <2> HIDE DEF order
    <2>2. CASE Contains(q, o)
      <3>1. \E i \in 1..Len(q) : q[i] = o
        BY <2>2, Zenon DEF Contains
      <3>2. QED
        BY <2>1, <2>2, <3>1, Zenon DEF q
    <2>3. CASE ~Contains(q, o)
      <3>1. order = Append(q, o)
        BY <2>1, <2>3, Zenon
      <3>2. /\ Len(q) \in Nat /\ Len(order) = Len(q) + 1 /\ order[Len(q) + 1] = o
            /\ \A i \in 1..Len(q) : order[i] = q[i]
        BY ONLY <2>1, <3>1
      <3>3. Len(q) + 1 \in 1..Len(order) /\ \A i \in 1..Len(q) : i \in 1..Len(order)
        BY ONLY <3>2
      <3>4. QED
        BY <3>2, <3>3, Zenon DEF q
    <2>4. QED
      BY <2>2, <2>3, Zenon
  <1> HIDE DEF order
  <1>5. t.order = order /\ t.members = members
    BY ONLY DEF t
  <1>6. DOMAIN members = DOMAIN s.members \cup {o} /\ \A p \in DOMAIN s.members : p # o => members[p] = s.members[p]
    BY ONLY DEF members
  <1> HIDE DEF t, members
  <1>7. ASSUME NEW p \in DOMAIN t.members PROVE \E i \in 1..Len(t.order) : t.order[i] = p
    <2>1. CASE p = o
      BY <1>4, <1>5, <2>1, Zenon
    <2>2. CASE p # o
      <3>1. p \in DOMAIN s.members
        BY <1>5, <1>6, <1>7, <2>2, Zenon
      <3>2. PICK i \in 1..Len(s.order) : s.order[i] = p
        BY <3>1, Zenon DEF HasAll
      <3>3. QED
        BY <1>4, <1>5, <3>2, Zenon
    <2>3. QED
      BY <2>1, <2>2, Zenon
  <1>8. ASSUME NEW w \in K PROVE Collects(t, w)
    <2>1. Collects(s, w) /\ w[1] # o
      BY <1>2, <1>8, Zenon DEF HasAll
    <2>2. PICK i \in 1..Len(s.order) :
            s.order[i] = w[1] /\ \E k \in 1..Len(s.members[w[1]]) : s.members[w[1]][k] = w[2]
      BY <2>1, Zenon DEF Collects
    <2>3. w[1] \in DOMAIN s.members
      <3>1. \A j \in 1..Len(s.order) : s.order[j] \in DOMAIN s.members
        BY DEF SpecificationsSoFar
      <3>2. s.order[i] \in DOMAIN s.members
        BY <2>2, <3>1, Zenon
      <3>3. QED
        BY <2>2, <3>2, Zenon
    <2>4. t.members[w[1]] = s.members[w[1]] /\ i \in 1..Len(t.order) /\ t.order[i] = w[1]
      BY <1>4, <1>5, <1>6, <2>1, <2>2, <2>3, Zenon
    <2>5. QED
      BY <2>2, <2>4, Zenon DEF Collects
  <1>9. QED
    BY <1>1, <1>7, <1>8, Zenon DEF HasAll

\* A property that is asked is collected, and so are the others still.
LEMMA PropertyHas ==
    ASSUME NEW K, NEW s \in SpecificationsSoFar, HasAll(s, K), NEW o, s.current = Some(o),
           NEW tag, IsValue(tag, 0), NEW property \in Nat, FromBytes(tag.body) = property
    PROVE  HasAll(SpecificationStep(s, tag), K \cup {<<o, property>>})
  <1> DEFINE l == s.members[o]
             added == Append(l, property)
             members == [s.members EXCEPT ![o] = added]
             t == SpecificationStep(s, tag)
  <1>1. Given(s.current) /\ s.current[1] = o
    BY DEF Given, None, Some
  <1>2. PICK D \in SUBSET Objects : s.members \in [D -> Seq(Nat)]
    BY DEF SpecificationsSoFar
  <1>3. /\ o \in D /\ DOMAIN s.members = D
        /\ s = [current |-> s.current, order |-> s.order, members |-> s.members]
        /\ \A i \in 1..Len(s.order) : s.order[i] \in D
    BY <1>1, <1>2 DEF SpecificationsSoFar
  <1>4. t = [s EXCEPT !.members[s.current[1]] = Append(@, FromBytes(tag.body))]
    BY <1>1, Zenon DEF SpecificationStep
  <1> HIDE DEF t
  <1>5. t = [current |-> s.current, order |-> s.order, members |-> members]
    BY <1>1, <1>3, <1>4
  <1>6. t.order = s.order /\ t.members = members
    BY <1>5
  <1>7. l \in Seq(Nat)
    BY <1>2, <1>3
  <1>8. /\ Len(l) \in Nat /\ added \in Seq(Nat) /\ Len(added) = Len(l) + 1 /\ added[Len(l) + 1] = property
        /\ \A k \in 1..Len(l) : added[k] = l[k]
    <2> HIDE DEF l
    <2>1. QED
      BY ONLY <1>7, property \in Nat
  <1>9. Len(l) + 1 \in 1..Len(added) /\ \A k \in 1..Len(l) : k \in 1..Len(added)
    <2> HIDE DEF l, added
    <2>1. QED
      BY ONLY <1>8
  <1> HIDE DEF added
  <1>10. DOMAIN members = D /\ members[o] = added /\ \A p \in D : p # o => members[p] = s.members[p]
    BY <1>2, <1>3, <1>8
  <1> HIDE DEF members
  <1>11. ASSUME NEW w, Collects(s, w) PROVE Collects(t, w)
    <2>1. PICK i \in 1..Len(s.order) :
            s.order[i] = w[1] /\ \E k \in 1..Len(s.members[w[1]]) : s.members[w[1]][k] = w[2]
      BY <1>11, Zenon DEF Collects
    <2>2. PICK k \in 1..Len(s.members[w[1]]) : s.members[w[1]][k] = w[2]
      BY <2>1, Zenon
    <2>3. k \in 1..Len(members[w[1]]) /\ members[w[1]][k] = w[2]
      <3>1. CASE w[1] = o
        BY <1>8, <1>9, <1>10, <2>2, <3>1, Zenon
      <3>2. CASE w[1] # o
        <4>1. w[1] \in D
          BY <1>3, <2>1, Zenon
        <4>2. QED
          BY <1>10, <2>2, <3>2, <4>1, Zenon
      <3>3. QED
        BY <3>1, <3>2, Zenon
    <2>4. QED
      BY <1>6, <2>1, <2>3, Zenon DEF Collects
  <1>12. Collects(t, <<o, property>>)
    <2> DEFINE w == <<o, property>>
    <2>1. w[1] = o /\ w[2] = property
      BY ONLY DEF w
    <2> HIDE DEF w
    <2>2. PICK i \in 1..Len(s.order) : s.order[i] = o
      BY <1>3, Zenon DEF HasAll
    <2>3. Collects(t, w)
      BY <1>6, <1>8, <1>9, <1>10, <2>1, <2>2, Zenon DEF Collects
    <2>4. QED
      BY <2>3, Zenon DEF w
  <1>13. QED
    BY <1>3, <1>6, <1>10, <1>11, <1>12, Zenon DEF HasAll, t

\* Other tags take nothing.
LEMMA OtherHas ==
    ASSUME NEW K, NEW s \in SpecificationsSoFar, HasAll(s, K), NEW tag, ~IsValue(tag, 0)
    PROVE  HasAll(SpecificationStep(s, tag), K)
  <1> DEFINE t == SpecificationStep(s, tag)
  <1>1. CASE tag.kind = "close" /\ tag.number = 1
    <2>1. t = [s EXCEPT !.current = None]
      BY <1>1, Zenon DEF SpecificationStep
    <2>2. s = [current |-> s.current, order |-> s.order, members |-> s.members]
      BY DEF SpecificationsSoFar
    <2> HIDE DEF t
    <2>3. t.order = s.order /\ t.members = s.members
      BY <2>1, <2>2
    <2>4. QED
      BY <2>3, ZenonT(60) DEF HasAll, Collects, t
  <1>2. CASE ~(tag.kind = "close" /\ tag.number = 1)
    BY <1>2, Zenon DEF SpecificationStep
  <1>3. QED
    BY <1>1, <1>2, Zenon

\* What is collected is asked, and K is among it.
AllAsked(s, A, O, K) == OnlyAsked(s, A, O) /\ HasAll(s, K)
\* An object is named that is none of those of K.
LEMMA StepObject ==
    ASSUME NEW A, NEW O, NEW K, NEW s \in SpecificationsSoFar, AllAsked(s, A, O, K), s.current = None,
           NEW tag, IsValue(tag, 0), Len(tag.body) = 4, AsObject(tag.body) \in O,
           \A w \in K : w[1] # AsObject(tag.body)
    PROVE  /\ AllAsked(SpecificationStep(s, tag), A, O, K)
           /\ SpecificationStep(s, tag).current = Some(AsObject(tag.body))
  <1>1. OnlyAsked(s, A, O) /\ HasAll(s, K)
    BY Zenon DEF AllAsked
  <1>2. OnlyAsked(SpecificationStep(s, tag), A, O) /\ SpecificationStep(s, tag).current = Some(AsObject(tag.body))
    BY <1>1, ObjectOnly, SMT
  <1>3. HasAll(SpecificationStep(s, tag), K)
    BY <1>1, ObjectHas, SMT
  <1>4. QED
    BY <1>2, <1>3, Zenon DEF AllAsked

\* A property is asked of it.
LEMMA StepProperty ==
    ASSUME NEW A, NEW O, NEW K, NEW s \in SpecificationsSoFar, AllAsked(s, A, O, K), NEW o, s.current = Some(o),
           NEW tag, IsValue(tag, 0), NEW property \in Nat, FromBytes(tag.body) = property, <<o, property>> \in A
    PROVE  /\ AllAsked(SpecificationStep(s, tag), A, O, K \cup {<<o, property>>})
           /\ SpecificationStep(s, tag).current = Some(o)
  <1>1. OnlyAsked(s, A, O) /\ HasAll(s, K)
    BY Zenon DEF AllAsked
  <1>2. OnlyAsked(SpecificationStep(s, tag), A, O) /\ SpecificationStep(s, tag).current = Some(o)
    BY <1>1, PropertyOnly, SMT
  <1>3. HasAll(SpecificationStep(s, tag), K \cup {<<o, property>>})
    BY <1>1, PropertyHas, SMT
  <1>4. QED
    BY <1>2, <1>3, Zenon DEF AllAsked

\* The list is closed, and any other tag changes nothing.
LEMMA StepOther ==
    ASSUME NEW A, NEW O, NEW K, NEW s \in SpecificationsSoFar, AllAsked(s, A, O, K), NEW tag, ~IsValue(tag, 0)
    PROVE  /\ AllAsked(SpecificationStep(s, tag), A, O, K)
           /\ (tag.kind = "close" /\ tag.number = 1) => SpecificationStep(s, tag).current = None
           /\ tag.kind # "close" => SpecificationStep(s, tag) = s
  BY OtherOnly, OtherHas, Zenon DEF AllAsked

\* The tags of a request are all there and ask for nothing but A of O, K among it.
Asking(data, A, O, K) ==
    /\ data \in Octets /\ Whole(data, 1) /\ Collected(data) \in SpecificationsSoFar
    /\ AllAsked(Collected(data), A, O, K)
\* Between two specifications, and within that of an object.
Between(A, O, K) == {data \in Octets : Asking(data, A, O, K) /\ Collected(data).current = None}
Within(A, O, K, o) == {data \in Octets : Asking(data, A, O, K) /\ Collected(data).current = Some(o)}

\* What is collected with one tag more, when that is still asked.
LEMMA AskingMore ==
    ASSUME NEW A, NEW O, NEW K, NEW L, NEW data, Asking(data, A, O, K), NEW chunk \in Octets, Whole(chunk, 1),
           NEW t, Tags(chunk, 1) = <<t>>, NEW s, s = SpecificationStep(Collected(data), Moved(t, Len(data))),
           AllAsked(s, A, O, L)
    PROVE  Asking(data \o chunk, A, O, L) /\ Collected(data \o chunk) = s
  <1> DEFINE whole == data \o chunk
  <1>1. data \in Octets /\ Whole(data, 1)
    BY Zenon DEF Asking
  <1>2. OneStep(data, chunk, t)
    BY <1>1, CollectedOneMore, Zenon
  <1>3. whole \in Octets /\ Whole(whole, 1) /\ Collected(whole) = s
    BY <1>2, Zenon DEF OneStep
  <1> HIDE DEF whole
  <1>4. 1 \in Place
    BY DEF Place
  <1>5. Tags(whole, 1) \in Seq(AllTags(whole))
    BY <1>3, <1>4, TagsFrom, Zenon
  <1>6. Collected(whole) \in SpecificationsSoFar
    BY <1>3, <1>5, SpecificationsReadTyped, Zenon DEF Collected
  <1>7. QED
    BY <1>3, <1>6, Zenon DEF Asking, whole

OnlyValue(m, tag, body) ==
    /\ IsValue(m, tag) /\ m.body = body /\ m.kind # "close"
    /\ \A other : other # tag => ~IsValue(m, other)
\* A context value is a value of its number and of no other wherever it is moved.
LEMMA MovedValue ==
    ASSUME NEW tag, NEW body, NEW by
    PROVE  OnlyValue(Moved(ValueTag(tag, body, 1), by), tag, body)
  <1> DEFINE m == Moved(ValueTag(tag, body, 1), by)
  <1>1. m.kind = "value" /\ m.number = tag /\ m.body = body
    BY DEF Moved, ValueTag
  <1>2. m.context
    BY DEF Moved, ValueTag
  <1> HIDE DEF m
  <1>3. m.kind # "close"
    BY <1>1
  <1>4. IsValue(m, tag) /\ \A other : other # tag => ~IsValue(m, other)
    BY <1>1, <1>2, Zenon DEF IsValue
  <1>5. QED
    BY <1>1, <1>3, <1>4, Zenon DEF OnlyValue, m

\* An object is named between two specifications.
LEMMA AskObject ==
    ASSUME NEW A, NEW O, NEW K, NEW o \in Nat \X Nat, o[1] < 1024, o[2] <= MAX_INSTANCE, o \in O,
           \A w \in K : w[1] # o,
           NEW data \in Between(A, O, K)
    PROVE  data \o context_object_id(0, o) \in Within(A, O, K, o)
  <1> DEFINE body == object_id(o)
             chunk == context_object_id(0, o)
             t == ValueTag(0, body, 1)
             x == Moved(t, Len(data))
             s == Collected(data)
  <1>1. data \in Octets /\ Asking(data, A, O, K) /\ s.current = None /\ s \in SpecificationsSoFar /\ AllAsked(s, A, O, K)
    BY Zenon DEF Between, Asking
  <1>2. body \in Octets /\ Len(body) = 4 /\ AsObject(body) = o
    BY ObjectReadBack
  <1>3. chunk = Context(0, Len(body)) \o body
    BY <1>2 DEF context_object_id
  <1> HIDE DEF body, chunk
  <1>4. chunk \in Octets /\ Whole(chunk, 1) /\ Tags(chunk, 1) = <<t>>
    <2>1. Len(body) \in 0..4 /\ 0 \in Nat /\ 0 <= 14
      BY <1>2
    <2>2. QED
      BY <1>2, <1>3, <2>1, ContextValue, ZenonT(60)
  <1>5. IsValue(x, 0) /\ x.body = body
    <2>1. OnlyValue(x, 0, body)
      BY MovedValue, Zenon
    <2> HIDE DEF x
    <2>2. QED
      BY <2>1, Zenon DEF OnlyValue
  <1> HIDE DEF t, x
  <1>6. /\ AllAsked(SpecificationStep(s, x), A, O, K)
        /\ SpecificationStep(s, x).current = Some(o)
    <2>1. /\ Len(x.body) = 4 /\ AsObject(x.body) = o /\ AsObject(x.body) \in O
          /\ \A w \in K : w[1] # AsObject(x.body)
      BY <1>2, <1>5, ZenonT(60)
    <2>2. /\ AllAsked(SpecificationStep(s, x), A, O, K)
          /\ SpecificationStep(s, x).current = Some(AsObject(x.body))
      BY <1>1, <1>5, <2>1, StepObject, SMT
    <2>3. QED
      BY <2>1, <2>2, Zenon
  <1>7. Asking(data \o chunk, A, O, K) /\ Collected(data \o chunk) = SpecificationStep(s, x)
    BY <1>1, <1>4, <1>6, AskingMore, Zenon DEF x
  <1>8. QED
    BY <1>6, <1>7, Zenon DEF Within, Asking, chunk

\* The list of an object's properties is opened.
LEMMA AskOpened ==
    ASSUME NEW A, NEW O, NEW K, NEW o, NEW data \in Within(A, O, K, o)
    PROVE  data \o opening(1) \in Within(A, O, K, o)
  <1> DEFINE chunk == opening(1)
             s == Collected(data)
  <1>1. data \in Octets /\ Asking(data, A, O, K) /\ s.current = Some(o) /\ s \in SpecificationsSoFar /\ AllAsked(s, A, O, K)
    BY Zenon DEF Within, Asking
  <1>2. chunk = Context(1, 6)
    BY DEF opening
  <1>3. /\ chunk \in Octets /\ Whole(chunk, 1)
        /\ \E t : Tags(chunk, 1) = <<t>> /\ IsBoundary(t, 1, KindOf(6))
    <2>1. 1 \in Nat /\ 1 <= 14 /\ 6 \in {6, 7}
      OBVIOUS
    <2>2. QED
      BY <1>2, <2>1, Boundary
  <1>4. PICK t : Tags(chunk, 1) = <<t>> /\ IsBoundary(t, 1, KindOf(6))
    BY <1>3, Zenon
  <1> DEFINE x == Moved(t, Len(data))
  <1>5. x.kind = "open"
    <2>1. t.kind = "open"
      BY <1>4 DEF IsBoundary, KindOf
    <2>2. QED
      BY <2>1 DEF Moved
  <1> HIDE DEF chunk, x
  <1>6. ~IsValue(x, 0) /\ x.kind # "close"
    BY <1>5 DEF IsValue
  <1>7. s = SpecificationStep(s, x)
    BY <1>1, <1>6, StepOther, Zenon
  <1>8. Asking(data \o chunk, A, O, K) /\ Collected(data \o chunk) = s
    <2> DEFINE after == SpecificationStep(s, x)
    <2>1. AllAsked(after, A, O, K) /\ after = SpecificationStep(Collected(data), Moved(t, Len(data)))
      BY <1>1, <1>7, Zenon DEF x
    <2> HIDE DEF after
    <2>2. Asking(data \o chunk, A, O, K) /\ Collected(data \o chunk) = after
      BY <1>1, <1>3, <1>4, <2>1, AskingMore, Zenon
    <2>3. QED
      BY <1>7, <2>2, Zenon DEF after
  <1>9. QED
    BY <1>1, <1>8, Zenon DEF Within, Asking, chunk

\* The list is closed.
LEMMA AskClosed ==
    ASSUME NEW A, NEW O, NEW K, NEW o, NEW data \in Within(A, O, K, o)
    PROVE  data \o closing(1) \in Between(A, O, K)
  <1> DEFINE chunk == closing(1)
             s == Collected(data)
  <1>1. data \in Octets /\ Asking(data, A, O, K) /\ s \in SpecificationsSoFar /\ AllAsked(s, A, O, K)
    BY Zenon DEF Within, Asking
  <1>2. chunk = Context(1, 7)
    BY DEF closing
  <1>3. /\ chunk \in Octets /\ Whole(chunk, 1)
        /\ \E t : Tags(chunk, 1) = <<t>> /\ IsBoundary(t, 1, KindOf(7))
    <2>1. 1 \in Nat /\ 1 <= 14 /\ 7 \in {6, 7}
      OBVIOUS
    <2>2. QED
      BY <1>2, <2>1, Boundary
  <1>4. PICK t : Tags(chunk, 1) = <<t>> /\ IsBoundary(t, 1, KindOf(7))
    BY <1>3, Zenon
  <1> DEFINE x == Moved(t, Len(data))
  <1>5. x.kind = "close" /\ x.number = 1
    <2>1. t.kind = "close" /\ t.number = 1
      BY <1>4 DEF IsBoundary, KindOf
    <2>2. QED
      BY <2>1 DEF Moved
  <1> HIDE DEF chunk, x
  <1>6. ~IsValue(x, 0)
    BY <1>5 DEF IsValue
  <1>7. SpecificationStep(s, x).current = None /\ AllAsked(SpecificationStep(s, x), A, O, K)
    BY <1>1, <1>5, <1>6, StepOther, Zenon
  <1>8. Asking(data \o chunk, A, O, K) /\ Collected(data \o chunk) = SpecificationStep(s, x)
    BY <1>1, <1>3, <1>4, <1>7, AskingMore, Zenon DEF x
  <1>9. QED
    BY <1>7, <1>8, Zenon DEF Between, Asking, chunk

\* A property is asked of the object.
LEMMA AskProperty ==
    ASSUME NEW A, NEW O, NEW K, NEW o, NEW property \in Nat, Fits(property, 4), <<o, property>> \in A,
           NEW data \in Within(A, O, K, o)
    PROVE  data \o context_unsigned(0, property) \in Within(A, O, K \cup {<<o, property>>}, o)
  <1> DEFINE body == unsigned_octets(property)
             chunk == context_unsigned(0, property)
             t == ValueTag(0, body, 1)
             x == Moved(t, Len(data))
             s == Collected(data)
             L == K \cup {<<o, property>>}
  <1>1. data \in Octets /\ Asking(data, A, O, K) /\ s.current = Some(o) /\ s \in SpecificationsSoFar /\ AllAsked(s, A, O, K)
    BY Zenon DEF Within, Asking
  <1>2. body \in Octets /\ Len(body) \in 1..4 /\ FromBytes(body) = property
    BY UnsignedOctets, UnsignedReadBack, Zenon
  <1>3. chunk = Context(0, Len(body)) \o body
    BY DEF context_unsigned
  <1> HIDE DEF body, chunk
  <1>4. chunk \in Octets /\ Whole(chunk, 1) /\ Tags(chunk, 1) = <<t>>
    <2>1. Len(body) \in 0..4 /\ 0 \in Nat /\ 0 <= 14
      BY <1>2
    <2>2. QED
      BY <1>2, <1>3, <2>1, ContextValue, Zenon
  <1>5. IsValue(x, 0) /\ x.body = body
    <2>1. OnlyValue(x, 0, body)
      BY MovedValue, Zenon
    <2> HIDE DEF x
    <2>2. QED
      BY <2>1, Zenon DEF OnlyValue
  <1> HIDE DEF t, x
  <1>6. /\ AllAsked(SpecificationStep(s, x), A, O, L)
        /\ SpecificationStep(s, x).current = Some(o)
    <2>1. FromBytes(x.body) = property
      BY <1>2, <1>5, Zenon
    <2>2. QED
      BY <1>1, <1>5, <2>1, StepProperty, SMT
  <1>7. Asking(data \o chunk, A, O, L) /\ Collected(data \o chunk) = SpecificationStep(s, x)
    BY <1>1, <1>4, <1>6, AskingMore, Zenon DEF x
  <1>8. QED
    BY <1>6, <1>7, Zenon DEF Within, Asking, chunk, L

\* An array index is skipped.
LEMMA AskIndex ==
    ASSUME NEW A, NEW O, NEW K, NEW o, NEW index \in Nat, NEW data \in Within(A, O, K, o)
    PROVE  data \o context_unsigned(1, index) \in Within(A, O, K, o)
  <1> DEFINE body == unsigned_octets(index)
             chunk == context_unsigned(1, index)
             t == ValueTag(1, body, 1)
             x == Moved(t, Len(data))
             s == Collected(data)
  <1>1. data \in Octets /\ Asking(data, A, O, K) /\ s.current = Some(o) /\ s \in SpecificationsSoFar /\ AllAsked(s, A, O, K)
    BY Zenon DEF Within, Asking
  <1>2. body \in Octets /\ Len(body) \in 1..4
    BY UnsignedOctets, Zenon
  <1>3. chunk = Context(1, Len(body)) \o body
    BY DEF context_unsigned
  <1> HIDE DEF body, chunk
  <1>4. chunk \in Octets /\ Whole(chunk, 1) /\ Tags(chunk, 1) = <<t>>
    <2>1. Len(body) \in 0..4 /\ 1 \in Nat /\ 1 <= 14
      BY <1>2
    <2>2. QED
      BY <1>2, <1>3, <2>1, ContextValue, Zenon
  <1>5. ~IsValue(x, 0) /\ x.kind # "close"
    <2>1. 0 # 1
      OBVIOUS
    <2>2. OnlyValue(x, 1, body)
      BY MovedValue, Zenon
    <2> HIDE DEF x
    <2>3. QED
      BY <2>1, <2>2, Zenon DEF OnlyValue
  <1> HIDE DEF t, x
  <1>6. s = SpecificationStep(s, x)
    BY <1>1, <1>5, StepOther, Zenon
  <1>7. Asking(data \o chunk, A, O, K) /\ Collected(data \o chunk) = s
    <2> DEFINE after == SpecificationStep(s, x)
    <2>1. AllAsked(after, A, O, K) /\ after = SpecificationStep(Collected(data), Moved(t, Len(data)))
      BY <1>1, <1>6, Zenon DEF x
    <2> HIDE DEF after
    <2>2. Asking(data \o chunk, A, O, K) /\ Collected(data \o chunk) = after
      BY <1>1, <1>4, <2>1, AskingMore, Zenon
    <2>3. QED
      BY <1>6, <2>2, Zenon DEF after
  <1>8. QED
    BY <1>1, <1>7, Zenon DEF Within, Asking, chunk

\* Octets that lead from any of the requests S to one of U.
Leads(c, S, U) == c \in Octets /\ \A data \in S : data \o c \in U
\* One way and then another.
LEMMA LeadsJoined ==
    ASSUME NEW S, S \subseteq Octets, NEW U, NEW V, NEW a, NEW b, Leads(a, S, U), Leads(b, U, V)
    PROVE  Leads(a \o b, S, V)
  <1>1. a \in Octets /\ b \in Octets /\ a \o b \in Octets
    BY Joined, Zenon DEF Leads
  <1>2. ASSUME NEW data \in S PROVE data \o (a \o b) \in V
    <2>1. data \in Octets
      BY Zenon
    <2>2. data \o (a \o b) = (data \o a) \o b
      BY <1>1, <2>1, RegroupedOctets, Zenon
    <2>3. QED
      BY <2>2, Zenon DEF Leads
  <1>3. QED
    BY <1>1, <1>2, Zenon DEF Leads

\* Of any number of chunks one leads on, those before it stay and those after it do.
LEMMA LeadsFlattened ==
    ASSUME NEW S, S \subseteq Octets, NEW U, U \subseteq Octets, NEW seqs \in Seq(Octets),
           NEW k \in 1..Len(seqs), Leads(seqs[k], S, U),
           \A i \in 1..Len(seqs) : i < k => Keeps(seqs[i], S),
           \A i \in 1..Len(seqs) : i > k => Keeps(seqs[i], U)
    PROVE  Leads(FlattenSeq(seqs), S, U)
  <1> DEFINE n == Len(seqs) - 1
  <1>0. n \in Nat /\ n + 1 = Len(seqs) /\ Len(seqs) # 0 /\ k \in Nat /\ k >= 1 /\ k <= n + 1
    OBVIOUS
  <1>1. PICK f : /\ FlattenSeq(seqs) = f[Len(seqs)]
                 /\ \A i \in 1..Len(seqs) :
                      f[i] \in Octets /\ f[i] = IF i = 1 THEN seqs[i] ELSE f[i-1] \o seqs[i]
    BY <1>0, FlattenLoop, Zenon
  <1>2. ASSUME NEW a PROVE (Keeps(a, S) => Leads(a, S, S)) /\ (Keeps(a, U) => Leads(a, U, U))
    BY Zenon DEF Keeps, Leads
  <1> DEFINE To(i) == IF i < k THEN Leads(f[i], S, S) ELSE Leads(f[i], S, U)
             T == {i \in 0..n : To(i + 1)}
  <1>3. 0 \in T
    <2>1. 1 \in 1..Len(seqs) /\ 0 + 1 = 1 /\ 0 \in 0..n /\ (~(1 < k) => k = 1)
      BY <1>0
    <2>2. f[1] = seqs[1]
      BY <1>1, <2>1, Zenon
    <2>3. To(1)
      BY <1>2, <2>1, <2>2, Zenon
    <2> HIDE DEF To
    <2>4. QED
      BY <2>1, <2>3
  <1>4. ASSUME NEW i \in 0..n, i < n, i \in T PROVE i + 1 \in T
    <2> DEFINE j == (i + 1) + 1
    <2>1. /\ i + 1 \in 0..n /\ j \in 1..Len(seqs) /\ j # 1 /\ j - 1 = i + 1
          /\ (j < k => i + 1 < k) /\ (j = k => i + 1 < k) /\ (~(j < k) /\ j # k => j > k /\ ~(i + 1 < k))
      BY <1>0, <1>4
    <2>2. f[j] = f[i + 1] \o seqs[j]
      BY <1>1, <2>1, Zenon
    <2>3. To(i + 1)
      <3> HIDE DEF To
      <3>1. QED
        BY <1>4
    <2> HIDE DEF j
    <2>4. CASE j < k
      <3>1. Leads(f[i + 1], S, S) /\ Leads(seqs[j], S, S)
        BY <1>2, <2>1, <2>3, <2>4, Zenon
      <3>2. Leads(f[j], S, S)
        BY <2>2, <3>1, LeadsJoined, Zenon
      <3>3. QED
        BY <2>1, <2>4, <3>2, Zenon DEF j
    <2>5. CASE j = k
      <3>1. Leads(f[i + 1], S, S) /\ Leads(seqs[j], S, U)
        BY <2>1, <2>3, <2>5, Zenon
      <3>2. Leads(f[j], S, U)
        BY <2>2, <3>1, LeadsJoined, Zenon
      <3>3. ~(j < k)
        BY <1>0, <2>5
      <3>4. QED
        BY <2>1, <3>2, <3>3, Zenon DEF j
    <2>6. CASE ~(j < k) /\ j # k
      <3>1. Leads(f[i + 1], S, U) /\ Leads(seqs[j], U, U)
        BY <1>2, <2>1, <2>3, <2>6, Zenon
      <3>2. Leads(f[j], S, U)
        BY <2>2, <3>1, LeadsJoined, Zenon
      <3>3. QED
        BY <2>1, <2>6, <3>2, Zenon DEF j
    <2>7. QED
      BY <2>4, <2>5, <2>6, Zenon
  <1>5. \A i \in 0..n : i \in T
    <2> HIDE DEF T, n
    <2>1. QED
      BY <1>0, <1>3, <1>4, UpTo
  <1>6. n \in T
    <2>1. n \in 0..n
      BY <1>0
    <2>2. QED
      BY <1>5, <2>1, Zenon
  <1>7. To(n + 1) /\ ~(n + 1 < k)
    <2>1. ~(n + 1 < k)
      BY <1>0
    <2> HIDE DEF To
    <2>2. QED
      BY <1>6, <2>1, Zenon
  <1>8. QED
    BY <1>0, <1>1, <1>7, Zenon

\* A request that asks for more asks for less.
LEMMA WithinFewer ==
    ASSUME NEW A, NEW O, NEW K, NEW L, K \subseteq L, NEW o
    PROVE  Within(A, O, L, o) \subseteq Within(A, O, K, o)
  BY Zenon DEF Within, Asking, AllAsked, HasAll

\* A property reference of an object: its property is collected.
LEMMA ReferenceLeads ==
    ASSUME NEW A, NEW O, NEW K, NEW o, NEW r,
           Referable([object |-> o, property |-> r.property, array_index |-> r.array_index]),
           <<o, r.property>> \in A
    PROVE  Leads(PropertyReference(r), Within(A, O, K, o), Within(A, O, K \cup {<<o, r.property>>}, o))
  <1> DEFINE q == [object |-> o, property |-> r.property, array_index |-> r.array_index]
             property == r.property
             index == r.array_index
             a == context_unsigned(0, property)
             b == Optional(index, context_unsigned(1, index[1]))
             L == K \cup {<<o, property>>}
             S == Within(A, O, L, o)
  <1>1. q.object = o /\ q.property = property /\ q.array_index = index
    OBVIOUS
  <1>2. Readable(q)
    BY ReferableReadable, Zenon
  <1> HIDE DEF q
  <1>3. /\ property \in Nat /\ Fits(property, 4)
        /\ index = None \/ (index = <<index[1]>> /\ index[1] \in Nat /\ Fits(index[1], 4))
    BY <1>1, <1>2, Zenon DEF Readable
  <1>4. S \subseteq Octets
    BY Zenon DEF Within
  <1>5. Leads(a, Within(A, O, K, o), S)
    <2>1. a \in Octets
      BY <1>3, UnsignedTags
    <2>2. \A data \in Within(A, O, K, o) : data \o a \in S
      BY <1>3, AskProperty, Zenon
    <2>3. QED
      BY <2>1, <2>2, Zenon DEF Leads
  <1>6. Keeps(b, S)
    <2>1. CASE index = None
      <3>1. b = <<>>
        BY <2>1, Zenon DEF Optional, Given
      <3>2. <<>> \in Octets
        BY OctetsAre
      <3>3. ASSUME NEW data \in S PROVE data \o <<>> = data
        <4>1. data \in Seq(Octet)
          BY <1>4, Zenon DEF Octets
        <4> HIDE DEF S
        <4>2. QED
          BY ONLY <4>1
      <3> HIDE DEF b, S
      <3>4. \A data \in S : data \o b \in S
        BY <3>1, <3>3, Zenon
      <3>5. QED
        BY <3>1, <3>2, <3>4, Zenon DEF Keeps
    <2>2. CASE index # None
      <3>1. b = context_unsigned(1, index[1]) /\ index[1] \in Nat
        BY <1>3, <2>2, Zenon DEF Optional, Given
      <3> HIDE DEF b
      <3>2. b \in Octets
        BY <3>1, UnsignedTags
      <3>3. \A data \in S : data \o b \in S
        BY <3>1, AskIndex, Zenon
      <3>4. QED
        BY <3>2, <3>3, Zenon DEF Keeps
    <2>3. QED
      BY <2>1, <2>2, Zenon
  <1>7. Leads(a \o b, Within(A, O, K, o), S)
    <2>1. Within(A, O, K, o) \subseteq Octets
      BY Zenon DEF Within
    <2>2. Leads(b, S, S)
      BY <1>6, Zenon DEF Keeps, Leads
    <2> HIDE DEF S, a, b
    <2>3. QED
      BY <1>5, <2>1, <2>2, LeadsJoined, Zenon
  <1>8. QED
    BY <1>7, Zenon DEF PropertyReference

\* The specification of an object.
LEMMA SpecificationLeads ==
    ASSUME NEW A, NEW O, NEW K, NEW L, NEW o \in Nat \X Nat, o[1] < 1024, o[2] <= MAX_INSTANCE, o \in O,
           \A w \in K : w[1] # o, NEW chunks,
           Leads(FlattenSeq(chunks), Within(A, O, K, o), Within(A, O, L, o))
    PROVE  Leads(ResultsOfObject(o, chunks), Between(A, O, K), Between(A, O, L))
  <1> DEFINE a == context_object_id(0, o)
             w == FlattenSeq(chunks)
             e == Enclosed(1, w)
             S == Within(A, O, K, o)
             U == Within(A, O, L, o)
  <1>1. S \subseteq Octets
    BY Zenon DEF Within
  <1>3. w \in Octets /\ \A data \in S : data \o w \in U
    BY Zenon DEF Leads
  <1>4. a \in Octets
    <2>1. o[1] \in Int /\ o[2] \in Int
      OBVIOUS
    <2>2. QED
      BY <2>1, ObjectTags
  <1>5. 1 \in Nat /\ 1 <= 14
    OBVIOUS
  <1>6. <<>> \in Octets
    BY OctetsAre
  <1>0. \A data \in Between(A, O, K) : data \o a \in S
    BY AskObject, ZenonT(60)
  <1> HIDE DEF a, w
  <1>7. e \in Octets
    BY <1>3, <1>5, <1>6, EnclosedAfter, Zenon
  <1>8. a \o e \in Octets
    BY <1>4, <1>7, Joined, ZenonT(60)
  <1>9. ASSUME NEW data \in Between(A, O, K) PROVE data \o (a \o e) \in Between(A, O, L)
    <2>1. data \in Octets
      BY Zenon DEF Between
    <2> DEFINE one == data \o a
               two == one \o opening(1)
    <2>2. one \in S
      BY <1>0, Zenon
    <2>3. one \in Octets
      BY <1>1, <2>2, ZenonT(60)
    <2>4. two \in S
      BY <2>2, AskOpened, ZenonT(60)
    <2>5. one \o e = (two \o w) \o closing(1)
      <3> HIDE DEF one
      <3>2. ASSUME NEW tag \in Nat, tag <= 14
            PROVE  one \o Enclosed(tag, w) = ((one \o opening(tag)) \o w) \o closing(tag)
        BY <1>3, <2>3, <3>2, EnclosedAfter, ZenonT(60)
      <3>3. QED
        BY <1>5, <3>2, Zenon
    <2>6. two \o w \in U
      BY <1>3, <2>4, Zenon
    <2> HIDE DEF e
    <2>7. data \o (a \o e) = one \o e
      BY <1>4, <1>7, <2>1, RegroupedOctets, ZenonT(60)
    <2> HIDE DEF one, two
    <2>8. (two \o w) \o closing(1) \in Between(A, O, L)
      BY <2>6, AskClosed, Zenon
    <2>9. QED
      BY <2>5, <2>7, <2>8, ZenonT(60)
  <1>10. QED
    BY <1>8, <1>9, Zenon DEF Leads, ResultsOfObject, a, e, w

\* What a list of specifications asks for, and of which objects.
PropertiesAsked(specs) ==
    UNION {{<<s.object, r.property>> : r \in ToSet(s.references)} : s \in ToSet(specs)}
ObjectsAsked(specs) == {s.object : s \in ToSet(specs)}
\* What can be asked for.
Askable(s) ==
    /\ s.object[1] < 1024 /\ s.object[2] <= MAX_INSTANCE
    /\ \A r \in ToSet(s.references) :
         Referable([object |-> s.object, property |-> r.property, array_index |-> r.array_index])

\* A specification that is one of those.
LEMMA OneSpecification ==
    ASSUME NEW specs \in Seq(Specifications), NEW spec \in ToSet(specs), spec \in Specifications, Askable(spec)
    PROVE  /\ \A K : (\A w \in K : w[1] # spec.object)
                     => Keeps(read_access_specification(spec),
                              Between(PropertiesAsked(specs), ObjectsAsked(specs), K))
           /\ \A r \in ToSet(spec.references) :
                Leads(read_access_specification(spec),
                      Between(PropertiesAsked(specs), ObjectsAsked(specs), {}),
                      Between(PropertiesAsked(specs), ObjectsAsked(specs), {<<spec.object, r.property>>}))
  <1> DEFINE A == PropertiesAsked(specs)
             O == ObjectsAsked(specs)
             o == spec.object
             l == Len(spec.references)
             chunks == [k \in 1..l |-> PropertyReference(spec.references[k])]
  <1>1. o \in Nat \X Nat /\ spec.references \in Seq(PropertyReferences)
    BY DEF Specifications
  <1>2. /\ o[1] < 1024 /\ o[2] <= MAX_INSTANCE
        /\ \A r \in ToSet(spec.references) :
             Referable([object |-> o, property |-> r.property, array_index |-> r.array_index])
    BY Zenon DEF Askable
  <1>3. o \in O
    BY Zenon DEF ObjectsAsked
  <1>4. ASSUME NEW r \in ToSet(spec.references) PROVE <<o, r.property>> \in A
    <2> DEFINE asks(s, w) == <<s.object, w.property>>
               of(s) == {asks(s, w) : w \in ToSet(s.references)}
    <2>1. A = UNION {of(s) : s \in ToSet(specs)}
      BY Zenon DEF PropertiesAsked
    <2>2. asks(spec, r) \in of(spec)
      BY <1>4, Zenon
    <2> HIDE DEF asks, of, A
    <2>3. asks(spec, r) \in A
      BY <2>1, <2>2, Zenon
    <2>4. QED
      BY <2>3, Zenon DEF asks
  <1> HIDE DEF A, O, o
  <1>5. l \in Nat
    BY ONLY <1>1
  <1>6. ASSUME NEW K, NEW k \in 1..l
        PROVE  /\ Keeps(PropertyReference(spec.references[k]), Within(A, O, K, o))
               /\ Leads(PropertyReference(spec.references[k]), Within(A, O, K, o),
                        Within(A, O, K \cup {<<o, spec.references[k].property>>}, o))
    <2> DEFINE r == spec.references[k]
               L == K \cup {<<o, r.property>>}
    <2>1. r \in ToSet(spec.references)
      BY <1>1, <1>6, MemberOf, Zenon
    <2>2. K \subseteq L
      BY Zenon
    <2>3. Leads(PropertyReference(r), Within(A, O, K, o), Within(A, O, L, o))
      <3> HIDE DEF r
      <3>1. QED
        BY <1>2, <1>4, <2>1, ReferenceLeads, Zenon
    <2> HIDE DEF L
    <2>4. Within(A, O, L, o) \subseteq Within(A, O, K, o)
      BY <2>2, WithinFewer, Zenon
    <2>5. Keeps(PropertyReference(r), Within(A, O, K, o))
      BY <2>3, <2>4, Zenon DEF Leads, Keeps
    <2>6. QED
      BY <2>3, <2>5, Zenon DEF r, L
  <1>7. chunks \in Seq(Octets) /\ Len(chunks) = l /\ \A k \in 1..l : chunks[k] = PropertyReference(spec.references[k])
    <2>1. \A k \in 1..l : PropertyReference(spec.references[k]) \in Octets
      BY <1>6, Zenon DEF Keeps
    <2> HIDE DEF l
    <2>2. chunks = [k \in 1..l |-> PropertyReference(spec.references[k])]
      BY Zenon
    <2> HIDE DEF chunks
    <2>3. QED
      BY ONLY <1>5, <2>1, <2>2
  <1> HIDE DEF chunks
  <1>8. read_access_specification(spec) = ResultsOfObject(o, chunks)
    BY Zenon DEF read_access_specification, ResultsOfObject, chunks, o, l
  <1> HIDE DEF l
  <1>9. ASSUME NEW K PROVE Within(A, O, K, o) \subseteq Octets
    BY Zenon DEF Within
  <1>10. ASSUME NEW K, \A w \in K : w[1] # o PROVE Keeps(read_access_specification(spec), Between(A, O, K))
    <2>1. \A k \in 1..Len(chunks) : Keeps(chunks[k], Within(A, O, K, o))
      BY <1>6, <1>7, Zenon
    <2>2. Keeps(FlattenSeq(chunks), Within(A, O, K, o))
      BY <1>7, <1>9, <2>1, KeepsFlattened, Zenon
    <2>3. Leads(FlattenSeq(chunks), Within(A, O, K, o), Within(A, O, K, o))
      BY <2>2, Zenon DEF Keeps, Leads
    <2>4. Leads(ResultsOfObject(o, chunks), Between(A, O, K), Between(A, O, K))
      BY <1>1, <1>2, <1>3, <1>10, <2>3, SpecificationLeads, ZenonT(60)
    <2>5. QED
      BY <1>8, <2>4, Zenon DEF Keeps, Leads
  <1>11. ASSUME NEW r \in ToSet(spec.references)
         PROVE  Leads(read_access_specification(spec), Between(A, O, {}), Between(A, O, {<<o, r.property>>}))
    <2> DEFINE L == {<<o, r.property>>}
               S == Within(A, O, {}, o)
               U == Within(A, O, L, o)
    <2>1. PICK k \in 1..l : spec.references[k] = r
      BY <1>1, <1>11, PlaceOf, Zenon DEF l
    <2>2. {} \cup L = L
      OBVIOUS
    <2>3. Leads(chunks[k], S, U)
      BY <1>6, <1>7, <2>1, <2>2, Zenon
    <2>4. \A i \in 1..Len(chunks) : Keeps(chunks[i], S) /\ Keeps(chunks[i], U)
      BY <1>6, <1>7, Zenon
    <2>5. Leads(FlattenSeq(chunks), S, U)
      <3>1. S \subseteq Octets /\ U \subseteq Octets
        BY <1>9, Zenon
      <3> HIDE DEF S, U, L
      <3>2. QED
        BY <1>7, <2>1, <2>3, <2>4, <3>1, LeadsFlattened, Zenon
    <2>6. \A w \in {} : w[1] # o
      OBVIOUS
    <2> HIDE DEF L
    <2>7. Leads(ResultsOfObject(o, chunks), Between(A, O, {}), Between(A, O, L))
      BY <1>1, <1>2, <1>3, <2>5, <2>6, SpecificationLeads, ZenonT(60)
    <2>8. QED
      BY <1>8, <2>7, Zenon DEF L
  <1>12. QED
    BY <1>10, <1>11, Zenon DEF A, O, o

\* Nothing is asked by nothing.
LEMMA NothingAsked ==
    ASSUME NEW A, NEW O
    PROVE  <<>> \in Between(A, O, {})
  <1> DEFINE T == Tags(<<>>, 1)
  <1>1. <<>> \in Octets /\ Len(<<>>) = 0
    BY OctetsAre
  <1>2. T = <<>> /\ T \in Seq(AllTags(<<>>))
    <2>1. 1 \in Place /\ 1 > 0
      BY DEF Place
    <2>2. T \in Seq(AllTags(<<>>)) /\ (1 > Len(<<>>) => T = <<>>)
      BY <1>1, <2>1, TagsFrom
    <2>3. QED
      BY <1>1, <2>1, <2>2
  <1>3. Whole(<<>>, 1)
    <2>1. \A i \in 1..Len(<<>>) : FALSE
      BY <1>1
    <2>2. QED
      BY <1>2, <2>1, Zenon DEF Whole
  <1> HIDE DEF T
  <1>4. PICK f : ReadBy(T, f)
    BY <1>1, <1>2, SpecificationsLoop, Zenon
  <1>5. SpecificationsRead(T) = NothingRead
    <2>1. Len(T) = 0
      BY <1>1, <1>2, Zenon
    <2>2. QED
      BY <1>4, <2>1, Zenon DEF ReadBy
  <1>6. SpecificationsRead(T) \in SpecificationsSoFar
    BY <1>1, <1>2, SpecificationsReadTyped, Zenon
  <1>7. NothingRead.current = None /\ NothingRead.members = <<>> /\ DOMAIN <<>> = {}
    BY DEF NothingRead
  <1>8. AllAsked(NothingRead, A, O, {})
    BY <1>7, Zenon DEF AllAsked, OnlyAsked, HasAll
  <1>9. Collected(<<>>) = NothingRead /\ Collected(<<>>) \in SpecificationsSoFar
    BY <1>5, <1>6, Zenon DEF Collected, T
  <1>10. QED
    BY <1>1, <1>3, <1>7, <1>8, <1>9, Zenon DEF Between, Asking

\* What follows a header of four octets.
LEMMA AfterFour ==
    ASSUME NEW head \in Octets, Len(head) = 4, NEW w \in Octets
    PROVE  LET apdu == head \o w
           IN  /\ apdu \in Octets /\ Len(apdu) >= 4 /\ From(apdu, 5) = w
               /\ apdu[1] = head[1] /\ apdu[3] = head[3] /\ apdu[4] = head[4]
  <1> DEFINE apdu == head \o w
             n == Len(w)
             part == SubSeq(apdu, 5, Len(apdu))
  <1>1. /\ apdu \in Octets /\ Len(apdu) = 4 + n /\ n \in Nat
        /\ (\A i \in 1..4 : apdu[i] = head[i]) /\ (\A i \in 1..n : apdu[4 + i] = w[i])
    <2>1. /\ apdu \in Octets /\ Len(apdu) = Len(head) + n /\ Len(w) \in Nat
          /\ (\A i \in 1..Len(head) : apdu[i] = head[i]) /\ Holds(apdu, Len(head), w)
      BY HoldsAfter, Zenon
    <2>2. QED
      BY <2>1, Zenon DEF Holds
  <1> HIDE DEF apdu, n
  <1>2. /\ Len(apdu) >= 4 /\ Len(apdu) \in Int /\ 5 <= Len(apdu) + 1 /\ Len(apdu) + 1 - 5 = n
        /\ 1 \in 1..4 /\ 3 \in 1..4 /\ 4 \in 1..4 /\ 5 \in Nat /\ 5 >= 1 /\ Len(apdu) <= Len(apdu)
    BY <1>1
  <1>3. part \in Octets /\ Len(part) = n /\ \A i \in 1..n : part[i] = apdu[5 + i - 1]
    BY <1>1, <1>2, PartOf
  <1> HIDE DEF part
  <1>4. \A i \in 1..n : part[i] = w[i]
    <2>1. \A i \in 1..n : 5 + i - 1 = 4 + i
      BY <1>1
    <2>2. QED
      BY <1>1, <1>3, <2>1, Zenon
  <1>5. part = w
    BY <1>3, <1>4, SameOctets DEF n
  <1>6. QED
    BY <1>1, <1>2, <1>5, Zenon DEF From, part, apdu

\* A request asks for nothing but what it lists, and for all of it if it lists no object twice.
AsksFor(data, specs) ==
    LET A == PropertiesAsked(specs)
        O == ObjectsAsked(specs)
    IN  /\ Asking(data, A, O, {})
        /\ Separate(specs) => \A w \in A : Asking(data, A, O, {w})
\* A request for several asks for nothing but what its sender gave.
LEMMA RequestAsks ==
    ASSUME NEW m \in Messages, m.kind = "read multiple"
    PROVE  /\ Encoded(m) \in Octets /\ Unsegmented(Encoded(m)) /\ m.id \in Octet
           /\ From(Encoded(m), 5) \in Octets
           /\ AsksFor(From(Encoded(m), 5), m.p.specs)
           /\ Encoded(m)[1] = 0 /\ Encoded(m)[3] = m.id
           /\ Encoded(m)[4] = SERVICE_READ_PROPERTY_MULTIPLE
           /\ Len(Encoded(m)) >= 4
  <1> DEFINE specs == m.p.specs
             n == Len(specs)
             seqs == [i \in 1..n |-> read_access_specification(specs[i])]
             A == PropertiesAsked(specs)
             O == ObjectsAsked(specs)
             S == Between(A, O, {})
             w == FlattenSeq(seqs)
  <1>1. m.id \in Octet /\ specs \in Seq(Specifications)
    <2>1. m.kind \in {"read", "read multiple"}
      BY Zenon
    <2>2. QED
      BY <2>1, MessagesAssumption, Zenon
  <1>2. /\ \A spec \in ToSet(specs) : Askable(spec)
        /\ Unsegmented(read_property_multiple_request(m.id, specs))
    <2>1. /\ \A spec \in ToSet(m.p.specs) :
               /\ spec.object[1] < 1024 /\ spec.object[2] <= MAX_INSTANCE
               /\ \A reference \in ToSet(spec.references) :
                    Referable([object |-> spec.object, property |-> reference.property,
                               array_index |-> reference.array_index])
          /\ Unsegmented(read_property_multiple_request(m.id, m.p.specs))
      BY SpecificationsAssumption, Zenon
    <2>2. \A spec \in ToSet(m.p.specs) : Askable(spec)
      BY <2>1, Zenon DEF Askable
    <2>3. QED
      BY <2>1, <2>2, Zenon
  <1>3. Encoded(m) = read_property_multiple_request(m.id, specs)
    BY Zenon DEF Encoded
  <1>4. Encoded(m) = <<0, 5, m.id, SERVICE_READ_PROPERTY_MULTIPLE>> \o w
    BY <1>3, Zenon DEF read_property_multiple_request, confirmed_request
  <1> HIDE DEF specs
  <1>5. ASSUME NEW i \in 1..n
        PROVE  /\ specs[i] \in Specifications /\ specs[i] \in ToSet(specs)
               /\ \A K : (\A q \in K : q[1] # specs[i].object)
                         => Keeps(read_access_specification(specs[i]), Between(A, O, K))
               /\ \A r \in ToSet(specs[i].references) :
                    Leads(read_access_specification(specs[i]), S, Between(A, O, {<<specs[i].object, r.property>>}))
    <2> DEFINE spec == specs[i]
    <2>1. spec \in Specifications /\ spec \in ToSet(specs)
      BY <1>1, <1>5, MemberOf, Zenon
    <2> HIDE DEF spec
    <2>2. Askable(spec)
      BY <1>2, <2>1, Zenon
    <2>3. /\ \A K : (\A q \in K : q[1] # spec.object)
                    => Keeps(read_access_specification(spec), Between(A, O, K))
          /\ \A r \in ToSet(spec.references) :
               Leads(read_access_specification(spec), S, Between(A, O, {<<spec.object, r.property>>}))
      BY <1>1, <2>1, <2>2, OneSpecification, Zenon
    <2>4. QED
      BY <2>1, <2>3, Zenon DEF spec
  <1>6. n \in Nat
    <2>1. specs \in Seq(Specifications)
      BY <1>1, Zenon
    <2>2. QED
      BY ONLY <2>1
  <1>7. seqs \in Seq(Octets) /\ Len(seqs) = n /\ \A i \in 1..n : seqs[i] = read_access_specification(specs[i])
    <2>1. ASSUME NEW i \in 1..n PROVE read_access_specification(specs[i]) \in Octets
      <3>1. \A q \in {} : q[1] # specs[i].object
        OBVIOUS
      <3>2. Keeps(read_access_specification(specs[i]), Between(A, O, {}))
        BY <1>5, <2>1, <3>1, Zenon
      <3>3. QED
        BY <3>2, Zenon DEF Keeps
    <2> HIDE DEF n
    <2>2. seqs = [i \in 1..n |-> read_access_specification(specs[i])]
      BY Zenon
    <2> HIDE DEF seqs
    <2>3. QED
      BY ONLY <1>6, <2>1, <2>2
  <1> HIDE DEF seqs, n
  <1>8. Keeps(w, S)
    <2>1. S \subseteq Octets
      BY Zenon DEF Between
    <2>2. ASSUME NEW i \in 1..Len(seqs) PROVE Keeps(seqs[i], S)
      <3>1. \A q \in {} : q[1] # specs[i].object
        OBVIOUS
      <3>2. QED
        BY <1>5, <1>7, <3>1, Zenon
    <2>3. QED
      BY <1>7, <2>1, <2>2, KeepsFlattened, Zenon
  <1>9. ASSUME NEW U, Leads(w, S, U) PROVE w \in U
    <2> HIDE DEF w
    <2>1. <<>> \in S
      BY NothingAsked, Zenon
    <2>2. <<>> \o w \in U /\ w \in Octets
      BY <1>9, <2>1, Zenon DEF Leads
    <2>3. w \in Seq(Octet)
      BY <2>2, Zenon DEF Octets
    <2>4. <<>> \o w = w
      BY ONLY <2>3
    <2>5. QED
      BY <2>2, <2>4, Zenon
  <1>10. ASSUME Separate(specs), NEW q \in A PROVE Asking(w, A, O, {q})
    <2> DEFINE U == Between(A, O, {q})
    <2>1. PICK s \in ToSet(specs) : \E r \in ToSet(s.references) : q = <<s.object, r.property>>
      BY <1>10, Zenon DEF PropertiesAsked
    <2>2. PICK r \in ToSet(s.references) : q = <<s.object, r.property>>
      BY <2>1, Zenon
    <2>3. PICK k \in 1..n : specs[k] = s
      BY <1>1, <2>1, PlaceOf, Zenon DEF n
    <2>4. k \in 1..Len(seqs) /\ Leads(seqs[k], S, U)
      BY <1>5, <1>7, <2>2, <2>3, Zenon
    <2>5. \A i \in 1..Len(seqs) : Keeps(seqs[i], S)
      <3>1. ASSUME NEW i \in 1..Len(seqs) PROVE Keeps(seqs[i], S)
        <4>1. \A p \in {} : p[1] # specs[i].object
          OBVIOUS
        <4>2. QED
          BY <1>5, <1>7, <3>1, <4>1, Zenon
      <3>2. QED
        BY <3>1, Zenon
    <2>6. ASSUME NEW i \in 1..Len(seqs), i > k PROVE Keeps(seqs[i], U)
      <3>1. i # k
        <4>1. \A x \in 1..n : ~(x > x)
          BY ONLY <1>6
        <4>2. QED
          BY <2>3, <2>6, <4>1, Zenon
      <3>2. i \in 1..n /\ specs[i].object # s.object
        BY <1>7, <1>10, <2>3, <2>6, <3>1, Zenon DEF Separate, n
      <3>3. q[1] = s.object
        <4> DEFINE x == s.object
                   y == r.property
        <4> HIDE DEF x, y
        <4>1. q = <<x, y>>
          BY <2>2, Zenon DEF x, y
        <4>2. q[1] = x
          BY ONLY <4>1
        <4>3. QED
          BY <4>2, Zenon DEF x
      <3>4. \A p \in {q} : p[1] # specs[i].object
        BY <3>2, <3>3, Zenon
      <3>5. QED
        BY <1>5, <1>7, <3>2, <3>4, Zenon
    <2>7. S \subseteq Octets /\ U \subseteq Octets
      BY Zenon DEF Between
    <2> HIDE DEF U
    <2>8. Leads(w, S, U)
      BY <1>7, <2>4, <2>5, <2>6, <2>7, LeadsFlattened, Zenon
    <2>9. w \in U
      BY <1>9, <2>8, Zenon
    <2>10. QED
      BY <2>9, Zenon DEF U, Between
  <1> HIDE DEF w
  <1>11. w \in Octets /\ AsksFor(w, specs)
    <2>1. Leads(w, S, S)
      BY <1>8, Zenon DEF Keeps, Leads
    <2>2. w \in S
      BY <1>9, <2>1, Zenon
    <2>3. w \in Octets /\ Asking(w, A, O, {})
      BY <2>2, Zenon DEF Between
    <2>4. QED
      BY <1>10, <2>3, Zenon DEF AsksFor, A, O
  <1> DEFINE head == <<0, 5, m.id, SERVICE_READ_PROPERTY_MULTIPLE>>
             apdu == head \o w
  <1>12. /\ head \in Octets /\ Len(head) = 4 /\ head[1] = 0 /\ head[3] = m.id
         /\ head[4] = SERVICE_READ_PROPERTY_MULTIPLE
    <2>1. 0 \in Octet /\ 5 \in Octet /\ SERVICE_READ_PROPERTY_MULTIPLE \in Octet
      BY ONLY OctetIs DEF SERVICE_READ_PROPERTY_MULTIPLE
    <2>2. head \in Octets
      BY <1>1, <2>1, HeaderOctets, Zenon
    <2> DEFINE id == m.id
    <2> HIDE DEF id
    <2>3. head = <<0, 5, id, SERVICE_READ_PROPERTY_MULTIPLE>>
      BY Zenon DEF id
    <2> HIDE DEF head
    <2>4. Len(head) = 4 /\ head[1] = 0 /\ head[3] = id /\ head[4] = SERVICE_READ_PROPERTY_MULTIPLE
      BY ONLY <2>3
    <2>5. QED
      BY <2>2, <2>4, Zenon DEF id
  <1> HIDE DEF head
  <1>13. /\ apdu \in Octets /\ Len(apdu) >= 4 /\ apdu[1] = 0 /\ apdu[3] = m.id
         /\ apdu[4] = SERVICE_READ_PROPERTY_MULTIPLE /\ From(apdu, 5) = w
    BY <1>11, <1>12, AfterFour, Zenon
  <1>14. Encoded(m) = apdu /\ Unsegmented(apdu)
    BY <1>2, <1>3, <1>4, Zenon DEF head
  <1> HIDE DEF apdu
  <1>15. QED
    BY <1>1, <1>11, <1>13, <1>14, Zenon DEF specs

-----------------------------------------------------------------------------
(* What the simulated server answers to a request for several properties    *)

\* The server reads of a request nothing but what was asked for.
LEMMA SpecificationsAsked ==
    ASSUME NEW data, NEW A, NEW O, Asking(data, A, O, {})
    PROVE  LET read == read_access_specifications(data)
           IN  /\ read \in Seq([object : Objects, properties : Seq(Nat)])
               /\ \A i \in 1..Len(read) :
                    /\ read[i].object \in O
                    /\ \A k \in 1..Len(read[i].properties) : <<read[i].object, read[i].properties[k]>> \in A
  <1> DEFINE s == Collected(data)
             n == Len(s.order)
             read == read_access_specifications(data)
             member(i) == [object |-> s.order[i], properties |-> s.members[s.order[i]]]
  <1>1. data \in Octets /\ s \in SpecificationsSoFar /\ OnlyAsked(s, A, O)
    BY Zenon DEF Asking, AllAsked
  <1>2. read \in Seq([object : Objects, properties : Seq(Nat)])
    BY <1>1, SpecificationsTyped
  <1>3. read = [i \in 1..n |-> member(i)]
    BY Zenon DEF read_access_specifications, Collected
  <1> HIDE DEF s, read
  <1>4. s.order \in Seq(Objects) /\ \A i \in 1..n : s.order[i] \in DOMAIN s.members
    BY <1>1 DEF SpecificationsSoFar
  <1>5. n \in Nat
    BY ONLY <1>4
  <1> HIDE DEF member, n
  <1>6. Len(read) = n /\ \A i \in 1..n : read[i] = member(i)
    BY ONLY <1>3, <1>5
  <1>7. \A i : member(i).object = s.order[i] /\ member(i).properties = s.members[s.order[i]]
    BY ONLY DEF member
  <1>8. ASSUME NEW i \in 1..n
        PROVE  /\ read[i].object \in O
               /\ \A k \in 1..Len(read[i].properties) : <<read[i].object, read[i].properties[k]>> \in A
    <2>1. s.order[i] \in DOMAIN s.members
      BY <1>4, <1>8, Zenon
    <2>2. /\ s.order[i] \in O
          /\ \A k \in 1..Len(s.members[s.order[i]]) : <<s.order[i], s.members[s.order[i]][k]>> \in A
      BY <1>1, <2>1, Zenon DEF OnlyAsked
    <2>3. read[i].object = s.order[i] /\ read[i].properties = s.members[s.order[i]]
      BY <1>6, <1>7, <1>8, Zenon
    <2>4. QED
      BY <2>2, <2>3, Zenon
  <1>9. QED
    BY <1>2, <1>6, <1>8, Zenon DEF read

Lists(read, w) ==
    \E i \in 1..Len(read) :
      read[i].object = w[1] /\ \E k \in 1..Len(read[i].properties) : read[i].properties[k] = w[2]
\* And it misses nothing that was collected.
LEMMA SpecificationsGiven ==
    ASSUME NEW data, NEW A, NEW O, NEW w, Asking(data, A, O, {w})
    PROVE  Lists(read_access_specifications(data), w)
  <1> DEFINE s == Collected(data)
             n == Len(s.order)
             read == read_access_specifications(data)
             member(i) == [object |-> s.order[i], properties |-> s.members[s.order[i]]]
  <1>1. s \in SpecificationsSoFar /\ Collects(s, w)
    BY Zenon DEF Asking, AllAsked, HasAll
  <1>2. read = [i \in 1..n |-> member(i)]
    BY Zenon DEF read_access_specifications, Collected
  <1> HIDE DEF s, read
  <1>3. s.order \in Seq(Objects)
    BY <1>1 DEF SpecificationsSoFar
  <1>4. n \in Nat
    BY ONLY <1>3
  <1> HIDE DEF member, n
  <1>5. Len(read) = n /\ \A i \in 1..n : read[i] = member(i)
    BY ONLY <1>2, <1>4
  <1>6. \A i : member(i).object = s.order[i] /\ member(i).properties = s.members[s.order[i]]
    BY ONLY DEF member
  <1>7. PICK i \in 1..n : s.order[i] = w[1] /\ \E k \in 1..Len(s.members[w[1]]) : s.members[w[1]][k] = w[2]
    BY <1>1, Zenon DEF Collects, n
  <1>8. read[i].object = w[1] /\ read[i].properties = s.members[w[1]]
    BY <1>5, <1>6, <1>7, Zenon
  <1>9. QED
    BY <1>5, <1>7, <1>8, Zenon DEF Lists, read

\* What the server holds of a property fits in an answer.
LEMMA ServedFits ==
    ASSUME NEW o, NEW property, Given(Value(o, property))
    PROVE  Fitting(Value(o, property)[1])
  <1> DEFINE key == <<o, property>>
             seqs == Peer.served[key]
             value == FlattenSeq(seqs)
             k == Len(seqs)
  <1>1. key \in DOMAIN Peer.served /\ Value(o, property) = <<value>>
    BY Zenon DEF Value, Given, None, Some
  <1> HIDE DEF key
  <1>2. Elements(value, seqs, k) /\ seqs \in Seq(Octets)
    BY <1>1, ServedElements, Zenon
  <1> HIDE DEF seqs, value
  <1>3. k \in Nat
    BY ONLY <1>2
  <1>4. Fitting(value)
    BY <1>2, <1>3, ElementsFit, Zenon
  <1>5. <<value>>[1] = value
    OBVIOUS
  <1>6. QED
    BY <1>1, <1>4, <1>5, Zenon

\* What the server holds of a property, as an answer should report it.
Holding(o, property) == <<<<o, property, None>>, ResultOf(Value(o, property))>>
\* The result of a property in the server's answer.
PropertyServed(o, property) == [property |-> property, value |-> Value(o, property)]
\* The server's result for a property says one of R, tells it and leaves the parser in its object.
LEMMA ServedAdds ==
    ASSUME NEW p, NEW R, NEW o, NEW property \in Nat, Fits(property, 4),
           Holding(o, property) \in R
    PROVE  Adds(PropertyResult(PropertyServed(o, property)), Inner(p, R, o), p, Holding(o, property))
  <1> DEFINE r == PropertyServed(o, property)
             v == Value(o, property)
             a == context_unsigned(2, property)
             c == ResultOctets(v)
             q == Holding(o, property)
  <1>1. r.property = property /\ r.value = v
    BY DEF PropertyServed
  <1> HIDE DEF r
  <1>2. Given(v) => Fitting(v[1])
    BY ServedFits, Zenon
  <1>3. Reported(property, None, v)
    BY <1>2, Zenon DEF Reported
  <1>4. Adds(ResultOfProperty(property, None, v), Inner(p, R, o), p, q)
    BY <1>3, PropertyAdds, Zenon DEF Holding
  <1> HIDE DEF v, q
  <1>5. PropertyResult(r) = a \o c
    <2>1. 2 = ERROR_CLASS_PROPERTY /\ 32 = ERROR_CODE_UNKNOWN_PROPERTY
      BY DEF ERROR_CLASS_PROPERTY, ERROR_CODE_UNKNOWN_PROPERTY
    <2>2. Absent = application_enumerated(ERROR_CLASS_PROPERTY)
                   \o application_enumerated(ERROR_CODE_UNKNOWN_PROPERTY)
      BY <2>1, Zenon DEF Absent
    <2>3. CASE Given(v)
      BY <1>1, <2>3, Zenon DEF PropertyResult, ResultOctets
    <2>4. CASE ~Given(v)
      BY <1>1, <2>2, <2>4, Zenon DEF PropertyResult, ResultOctets
    <2>5. QED
      BY <2>3, <2>4, Zenon
  <1>6. ResultOfProperty(property, None, v) = (a \o <<>>) \o c
    BY Zenon DEF ResultOfProperty, Optional, Given
  <1>7. a \in Octets
    BY UnsignedTags
  <1> HIDE DEF a, c
  <1>8. a \o <<>> = a
    <2>1. a \in Seq(Octet)
      BY <1>7, Zenon DEF Octets
    <2>2. QED
      BY ONLY <2>1
  <1>9. QED
    BY <1>4, <1>5, <1>6, <1>8, Zenon DEF r, q

\* An object of the server's answer.
ObjectServed(o, properties) ==
    [object |-> o, properties |-> [k \in 1..Len(properties) |-> PropertyServed(o, properties[k])]]
\* The server's results for an object leave the parser between objects, having read only
\* what is in R and told every one of them.
LEMMA ObjectServedAdds ==
    ASSUME NEW p, NEW R, NEW o \in Nat \X Nat, o[1] < 1024, o[2] <= MAX_INSTANCE,
           NEW properties \in Seq(Nat),
           \A k \in 1..Len(properties) :
             /\ Fits(properties[k], 4)
             /\ Holding(o, properties[k]) \in R
    PROVE  /\ Keeps(ReadAccessResult(ObjectServed(o, properties)), Outer(p, R))
           /\ \A k \in 1..Len(properties) :
                Adds(ReadAccessResult(ObjectServed(o, properties)), Outer(p, R), p, Holding(o, properties[k]))
  <1> DEFINE r == ObjectServed(o, properties)
             l == Len(properties)
             s == [k \in 1..l |-> PropertyServed(o, properties[k])]
             chunks == [k \in 1..Len(r.properties) |-> PropertyResult(r.properties[k])]
  <1>1. r.object = o /\ r.properties = s
    BY DEF ObjectServed
  <1>2. l \in Nat /\ \A k \in 1..l : properties[k] \in Nat
    OBVIOUS
  <1>3. \A k \in 1..l :
          Adds(PropertyResult(PropertyServed(o, properties[k])), Inner(p, R, o), p, Holding(o, properties[k]))
    BY <1>2, ServedAdds, Zenon
  <1> HIDE DEF r, l
  <1>4. Len(s) = l /\ \A k \in 1..l : s[k] = PropertyServed(o, properties[k])
    BY ONLY <1>2
  <1> HIDE DEF s
  <1>5. \A k \in 1..l : PropertyResult(PropertyServed(o, properties[k])) \in Octets
    BY <1>3, ZenonT(60) DEF Adds, Keeps
  <1>6. chunks \in Seq(Octets) /\ Len(chunks) = l
        /\ \A k \in 1..l : chunks[k] = PropertyResult(PropertyServed(o, properties[k]))
    <2>1. chunks = [k \in 1..l |-> PropertyResult(s[k])]
      BY <1>1, <1>4, ZenonT(60)
    <2>2. \A k \in 1..l : PropertyResult(s[k]) \in Octets
      BY <1>4, <1>5, Zenon
    <2> HIDE DEF chunks
    <2>3. chunks \in Seq(Octets) /\ Len(chunks) = l /\ \A k \in 1..l : chunks[k] = PropertyResult(s[k])
      BY ONLY <1>2, <2>1, <2>2
    <2>4. QED
      BY <1>4, <2>3, ZenonT(60)
  <1> HIDE DEF chunks
  <1>7. \A k \in 1..Len(chunks) : Adds(chunks[k], Inner(p, R, o), p, Holding(o, properties[k]))
    BY <1>3, <1>6, ZenonT(60)
  <1>8. /\ Keeps(ResultsOfObject(o, chunks), Outer(p, R))
        /\ \A k \in 1..l : Adds(ResultsOfObject(o, chunks), Outer(p, R), p, Holding(o, properties[k]))
    <2>1. \A k \in 1..Len(chunks) : Keeps(chunks[k], Inner(p, R, o))
      BY <1>7, Zenon DEF Adds
    <2>2. Keeps(ResultsOfObject(o, chunks), Outer(p, R))
      BY <1>6, <2>1, ObjectKeeps, Zenon
    <2>3. ASSUME NEW k \in 1..l
          PROVE  Adds(ResultsOfObject(o, chunks), Outer(p, R), p, Holding(o, properties[k]))
      BY <1>6, <1>7, <2>1, <2>3, ObjectAdds, Zenon
    <2>4. QED
      BY <2>2, <2>3, ZenonT(60)
  <1>9. ReadAccessResult(r) = ResultsOfObject(o, chunks)
    BY <1>1, ZenonT(60) DEF ReadAccessResult, ResultsOfObject, chunks
  <1>10. QED
    BY <1>8, <1>9, ZenonT(60) DEF r, l

ServesOf(spec, R) ==
    /\ spec.object[1] < 1024 /\ spec.object[2] <= MAX_INSTANCE
    /\ \A k \in 1..Len(spec.properties) :
         /\ Fits(spec.properties[k], 4)
         /\ Holding(spec.object, spec.properties[k]) \in R
IsAnswer(apdu, R) ==
    /\ apdu \in Octets /\ Reading(apdu, 4, R)
    /\ apdu[1] = 48 /\ apdu[3] = SERVICE_READ_PROPERTY_MULTIPLE
WholeAnswer(apdu, R) == IsAnswer(apdu, R) /\ \A q \in R : q = <<q[1], q[2]>> /\ Told(apdu, 4, q)
TellsOf(apdu, spec) ==
    \A k \in 1..Len(spec.properties) : Told(apdu, 4, Holding(spec.object, spec.properties[k]))
\* The server's answer says nothing but R, when R says what it holds of what it read, and
\* tells what it holds of all of that.
LEMMA ServerReadMultipleReads ==
    ASSUME NEW f, invoke_id(f)[1] \in Octet, NEW R,
           NEW specs \in Seq([object : Objects, properties : Seq(Nat)]),
           \A i \in 1..Len(specs) : ServesOf(specs[i], R)
    PROVE  /\ ServerReadMultiple(f, specs) = Some(ServerReadMultiple(f, specs)[1])
           /\ IsAnswer(ServerReadMultiple(f, specs)[1], R)
           /\ \A i \in 1..Len(specs) : TellsOf(ServerReadMultiple(f, specs)[1], specs[i])
  <1> DEFINE T == [object : Objects, properties : Seq(Nat)]
             n == Len(specs)
             id == invoke_id(f)[1]
             results == [i \in 1..n |-> ObjectServed(specs[i].object, specs[i].properties)]
             seqs == [i \in 1..Len(results) |-> ReadAccessResult(results[i])]
             apdu == complex_ack(id, SERVICE_READ_PROPERTY_MULTIPLE, FlattenSeq(seqs))
  <1>1. ServerReadMultiple(f, specs) = Some(apdu)
    BY Zenon DEF ServerReadMultiple, read_property_multiple_ack, ObjectServed, PropertyServed
  <1>2. ASSUME NEW i \in 1..n
        PROVE  /\ Keeps(ReadAccessResult(ObjectServed(specs[i].object, specs[i].properties)), Outer(4, R))
               /\ \A k \in 1..Len(specs[i].properties) :
                    Adds(ReadAccessResult(ObjectServed(specs[i].object, specs[i].properties)), Outer(4, R), 4,
                         Holding(specs[i].object, specs[i].properties[k]))
    <2> DEFINE spec == specs[i]
    <2>1. spec \in T
      <3> HIDE DEF T
      <3>1. specs \in Seq(T)
        BY Zenon DEF T
      <3>2. QED
        BY <1>2, <3>1, MemberOf, Zenon
    <2>2. ServesOf(spec, R)
      BY <1>2, Zenon
    <2> HIDE DEF spec
    <2>3. spec.object \in Nat \X Nat /\ spec.properties \in Seq(Nat)
      BY ONLY <2>1 DEF Objects
    <2>4. /\ Keeps(ReadAccessResult(ObjectServed(spec.object, spec.properties)), Outer(4, R))
          /\ \A k \in 1..Len(spec.properties) :
               Adds(ReadAccessResult(ObjectServed(spec.object, spec.properties)), Outer(4, R), 4,
                    Holding(spec.object, spec.properties[k]))
      <3>1. /\ spec.object[1] < 1024 /\ spec.object[2] <= MAX_INSTANCE
            /\ \A k \in 1..Len(spec.properties) :
                 /\ Fits(spec.properties[k], 4)
                 /\ Holding(spec.object, spec.properties[k]) \in R
        BY <2>2, Zenon DEF ServesOf
      <3>2. QED
        BY <2>3, <3>1, ObjectServedAdds, Zenon
    <2>5. QED
      BY <2>4, Zenon DEF spec
  <1>3. n \in Nat
    OBVIOUS
  <1>4. Len(results) = n /\ \A i \in 1..n : results[i] = ObjectServed(specs[i].object, specs[i].properties)
    <2> HIDE DEF n
    <2>1. QED
      BY ONLY <1>3
  <1> HIDE DEF results, n
  <1>5. seqs \in Seq(Octets) /\ Len(seqs) = n /\ \A i \in 1..n : seqs[i] = ReadAccessResult(results[i])
    <2>1. \A i \in 1..n : ReadAccessResult(results[i]) \in Octets
      BY <1>2, <1>4, Zenon DEF Keeps
    <2>2. seqs = [i \in 1..n |-> ReadAccessResult(results[i])]
      BY <1>4, Zenon
    <2> HIDE DEF seqs
    <2>3. QED
      BY ONLY <1>3, <2>1, <2>2
  <1> HIDE DEF seqs
  <1>6. \A i \in 1..Len(seqs) : Keeps(seqs[i], Outer(4, R))
    BY <1>2, <1>4, <1>5, Zenon
  <1>7. /\ apdu \in Octets /\ Reading(apdu, 4, R) /\ apdu[1] = 48 /\ apdu[3] = SERVICE_READ_PROPERTY_MULTIPLE
        /\ TellsAll(apdu, seqs, R)
    BY <1>5, <1>6, AnswerReads, Zenon
  <1> HIDE DEF apdu
  <1>8. ASSUME NEW i \in 1..n PROVE TellsOf(apdu, specs[i])
    <2>1. i \in 1..Len(seqs) /\ seqs[i] = ReadAccessResult(ObjectServed(specs[i].object, specs[i].properties))
      BY <1>4, <1>5, <1>8, Zenon
    <2>2. \A k \in 1..Len(specs[i].properties) :
            Adds(seqs[i], Outer(4, R), 4, Holding(specs[i].object, specs[i].properties[k]))
      BY <1>2, <1>8, <2>1, Zenon
    <2>3. QED
      BY <1>7, <2>1, <2>2, Zenon DEF TellsAll, TellsOf
  <1>9. Some(apdu)[1] = apdu
    BY DEF Some
  <1>10. QED
    BY <1>1, <1>7, <1>9, <1>8, Zenon DEF IsAnswer, n

\* What a request for several should give its sender, one report for each key.
ServedReports(m) == {<<key, AnsweredMultiple(m)[key]>> : key \in DOMAIN AnsweredMultiple(m)}
\* Every property asked for is in what the request should give, with the server's value.
LEMMA AskedServed ==
    ASSUME NEW m \in Messages, m.kind = "read multiple", NEW o, NEW property,
           <<o, property>> \in PropertiesAsked(m.p.specs)
    PROVE  /\ property \in Nat /\ Fits(property, 4)
           /\ Holding(o, property) \in ServedReports(m)
  <1> DEFINE specs == m.p.specs
             key == <<o, property, None>>
  <1>1. specs \in Seq(Specifications) /\ \A s \in ToSet(specs) : Askable(s)
    <2>1. m.kind \in {"read", "read multiple"}
      BY Zenon
    <2>2. /\ \A spec \in ToSet(m.p.specs) :
               /\ spec.object[1] < 1024 /\ spec.object[2] <= MAX_INSTANCE
               /\ \A reference \in ToSet(spec.references) :
                    Referable([object |-> spec.object, property |-> reference.property,
                               array_index |-> reference.array_index])
          /\ Unsegmented(read_property_multiple_request(m.id, m.p.specs))
      BY SpecificationsAssumption, ZenonT(60)
    <2>3. specs \in Seq(Specifications)
      BY <2>1, MessagesAssumption, Zenon
    <2>4. QED
      BY <2>2, <2>3, Zenon DEF Askable
  <1>0. PICK s \in ToSet(specs) : \E r \in ToSet(s.references) : <<o, property>> = <<s.object, r.property>>
    BY Zenon DEF PropertiesAsked
  <1>2. PICK r \in ToSet(s.references) : <<o, property>> = <<s.object, r.property>>
    BY <1>0, Zenon
  <1>3. o = s.object /\ property = r.property
    BY ONLY <1>2
  <1>4. Referable([object |-> s.object, property |-> r.property, array_index |-> r.array_index])
    BY <1>1, <1>2, ZenonT(60) DEF Askable
  <1>5. property \in Nat /\ Fits(property, 4)
    <2> DEFINE q == [object |-> s.object, property |-> r.property, array_index |-> r.array_index]
    <2>1. Readable(q)
      BY <1>4, ReferableReadable, Zenon
    <2>2. q.property = r.property
      BY ONLY DEF q
    <2> HIDE DEF q
    <2>3. QED
      BY <1>3, <2>1, <2>2, Zenon DEF Readable
  <1>6. key \in DOMAIN AnsweredMultiple(m)
    <2> DEFINE of(spec) == {<<spec.object, spec.references[k].property, None>> : k \in 1..Len(spec.references)}
    <2>1. DOMAIN AnsweredMultiple(m) = UNION {of(specs[i]) : i \in 1..Len(specs)}
      BY Zenon DEF AnsweredMultiple
    <2> HIDE DEF specs
    <2>2. PICK i \in 1..Len(specs) : s = specs[i]
      <3>1. specs \in Seq(Specifications) /\ s \in ToSet(specs)
        BY <1>1, <1>2, Zenon
      <3>2. QED
        BY ONLY <3>1 DEF ToSet
    <2>3. s.references \in Seq(PropertyReferences)
      <3>1. s \in Specifications
        BY <1>1, <2>2, MemberOf, Zenon
      <3>2. QED
        BY ONLY <3>1 DEF Specifications
    <2>4. PICK k \in 1..Len(s.references) : r = s.references[k]
      <3>1. r \in ToSet(s.references)
        BY <1>2, Zenon
      <3>2. QED
        BY ONLY <2>3, <3>1 DEF ToSet
    <2>5. key \in of(s)
      BY <1>3, <2>4, Zenon
    <2> HIDE DEF of
    <2>6. QED
      BY <2>1, <2>2, <2>5, Zenon
  <1>7. AnsweredMultiple(m)[key] = ResultOf(Value(o, property))
    <2> DEFINE held == <<o, property>> \in DOMAIN Peer.served
               v == FlattenSeq(Peer.served[o, property])
    <2>1. key[1] = o /\ key[2] = property
      BY ONLY DEF key
    <2> HIDE DEF key
    <2>2. AnsweredMultiple(m)[key] = IF held THEN [value |-> v] ELSE [error |-> <<2, 32>>]
      BY <1>6, <2>1, Zenon DEF AnsweredMultiple
    <2>3. CASE held
      <3>1. Value(o, property) = Some(v) /\ AnsweredMultiple(m)[key] = [value |-> v]
        BY <2>2, <2>3, Zenon DEF Value
      <3> HIDE DEF v
      <3>2. Given(Some(v)) /\ Some(v)[1] = v
        BY ONLY DEF Given, None, Some
      <3>3. QED
        BY <3>1, <3>2, Zenon DEF ResultOf
    <2>4. CASE ~held
      <3>1. Value(o, property) = None
        BY <2>4, Zenon DEF Value
      <3>2. QED
        BY <2>2, <2>4, <3>1, Zenon DEF ResultOf, Given
    <2>5. QED
      BY <2>3, <2>4, Zenon
  <1>8. QED
    BY <1>5, <1>6, <1>7, Zenon DEF ServedReports, Holding

\* And nothing else is.
LEMMA ServedAsked ==
    ASSUME NEW m \in Messages, m.kind = "read multiple", NEW q \in ServedReports(m)
    PROVE  /\ q = <<q[1], q[2]>>
           /\ \E w \in PropertiesAsked(m.p.specs) : q = Holding(w[1], w[2])
  <1> DEFINE specs == m.p.specs
             whole == AnsweredMultiple(m)
  <1>1. specs \in Seq(Specifications)
    <2>1. m.kind \in {"read", "read multiple"}
      BY Zenon
    <2>2. QED
      BY <2>1, MessagesAssumption, Zenon
  <1>2. PICK key \in DOMAIN whole : q = <<key, whole[key]>>
    BY Zenon DEF ServedReports
  <1>0. PICK i \in 1..Len(specs) : \E k \in 1..Len(specs[i].references) :
          key = <<specs[i].object, specs[i].references[k].property, None>>
    <2> DEFINE of(spec) == {<<spec.object, spec.references[k].property, None>> : k \in 1..Len(spec.references)}
    <2>1. DOMAIN whole = UNION {of(specs[i]) : i \in 1..Len(specs)}
      BY Zenon DEF AnsweredMultiple
    <2> HIDE DEF specs, whole
    <2>2. PICK i \in 1..Len(specs) : key \in of(specs[i])
      <3> HIDE DEF of
      <3>1. QED
        BY <2>1, Zenon
    <2>3. QED
      BY <2>2, Zenon
  <1>3. PICK k \in 1..Len(specs[i].references) :
          key = <<specs[i].object, specs[i].references[k].property, None>>
    BY <1>0, Zenon
  <1> HIDE DEF specs
  <1> DEFINE s == specs[i]
             r == s.references[k]
             o == s.object
             property == r.property
             w == <<o, property>>
  <1>4. s \in ToSet(specs) /\ s \in Specifications
    BY <1>1, <1>3, MemberOf, Zenon
  <1>5. r \in ToSet(s.references)
    <2>1. s.references \in Seq(PropertyReferences)
      <3> HIDE DEF s
      <3>1. QED
        BY ONLY <1>4 DEF Specifications
    <2>2. QED
      BY <1>3, <2>1, MemberOf, Zenon
  <1>6. key = <<o, property, None>>
    BY <1>3, Zenon
  <1> HIDE DEF whole, s, r
  <1>7. w \in PropertiesAsked(specs)
    <2> DEFINE asks(a, b) == <<a.object, b.property>>
               of(a) == {asks(a, b) : b \in ToSet(a.references)}
    <2>1. PropertiesAsked(specs) = UNION {of(a) : a \in ToSet(specs)}
      BY Zenon DEF PropertiesAsked
    <2>2. asks(s, r) \in of(s)
      BY <1>5, Zenon
    <2> HIDE DEF asks, of
    <2>3. asks(s, r) \in PropertiesAsked(specs)
      BY <1>4, <2>1, <2>2, Zenon
    <2>4. QED
      BY <2>3, Zenon DEF asks
  <1>8. w[1] = o /\ w[2] = property
    <2> HIDE DEF o, property
    <2>1. QED
      BY ONLY DEF w
  <1> HIDE DEF o, property, w
  <1>9. <<key, whole[key]>> = Holding(o, property)
    <2>1. Holding(o, property) \in ServedReports(m)
      BY <1>7, AskedServed, Zenon DEF w, specs
    <2>2. PICK other \in DOMAIN whole : Holding(o, property) = <<other, whole[other]>>
      BY <2>1, Zenon DEF ServedReports, whole
    <2> DEFINE x == ResultOf(Value(o, property))
               y == whole[other]
    <2>3. <<key, x>> = <<other, y>>
      BY <1>6, <2>2, Zenon DEF Holding
    <2> HIDE DEF x, y
    <2>4. key = other
      BY ONLY <2>3
    <2>5. QED
      BY <2>2, <2>4, Zenon
  <1>10. q = <<q[1], q[2]>>
    <2> DEFINE x == whole[key]
    <2>1. q = <<key, x>>
      BY <1>2, Zenon
    <2> HIDE DEF x
    <2>2. QED
      BY ONLY <2>1
  <1>11. QED
    BY <1>2, <1>7, <1>8, <1>9, <1>10, Zenon DEF specs

Identifiable(o) == o[1] < 1024 /\ o[2] <= MAX_INSTANCE
\* The objects of a request have identifiers of 10 and 22 bits.
LEMMA AskedObjects ==
    ASSUME NEW m \in Messages, m.kind = "read multiple", NEW o \in ObjectsAsked(m.p.specs)
    PROVE  Identifiable(o)
  <1>1. PICK s \in ToSet(m.p.specs) : o = s.object
    BY Zenon DEF ObjectsAsked
  <1>2. /\ \A spec \in ToSet(m.p.specs) :
             /\ spec.object[1] < 1024 /\ spec.object[2] <= MAX_INSTANCE
             /\ \A reference \in ToSet(spec.references) :
                  Referable([object |-> spec.object, property |-> reference.property,
                             array_index |-> reference.array_index])
        /\ Unsegmented(read_property_multiple_request(m.id, m.p.specs))
    BY SpecificationsAssumption, Zenon
  <1>3. s.object[1] < 1024 /\ s.object[2] <= MAX_INSTANCE
    BY <1>2, ZenonT(60)
  <1>4. Identifiable(s.object)
    BY <1>3, Zenon DEF Identifiable
  <1>5. QED
    BY <1>1, <1>4, Zenon

\* The server's answer to a request for several that arrived whole.
LEMMA MultipleServed ==
    ASSUME NEW m \in Messages, m.kind = "read multiple", NEW f, f.network_message = None, f.payload = Encoded(m)
    PROVE  /\ ServerAnswer(f) = Some(ServerAnswer(f)[1]) /\ IsAnswer(ServerAnswer(f)[1], ServedReports(m))
           /\ Separate(m.p.specs) => WholeAnswer(ServerAnswer(f)[1], ServedReports(m))
  <1> DEFINE apdu == Encoded(m)
             data == From(apdu, 5)
             A == PropertiesAsked(m.p.specs)
             O == ObjectsAsked(m.p.specs)
             R == ServedReports(m)
             specs == read_access_specifications(data)
  <1>1. /\ apdu \in Octets /\ m.id \in Octet /\ data \in Octets /\ Asking(data, A, O, {})
        /\ apdu[1] = 0 /\ apdu[3] = m.id /\ apdu[4] = SERVICE_READ_PROPERTY_MULTIPLE /\ Len(apdu) >= 4
        /\ Separate(m.p.specs) => \A w \in A : Asking(data, A, O, {w})
    BY RequestAsks, Zenon DEF AsksFor
  <1>2. /\ specs \in Seq([object : Objects, properties : Seq(Nat)])
        /\ \A i \in 1..Len(specs) :
             /\ specs[i].object \in O
             /\ \A k \in 1..Len(specs[i].properties) : <<specs[i].object, specs[i].properties[k]>> \in A
    <2> HIDE DEF data, A, O
    <2>1. QED
      BY <1>1, SpecificationsAsked, Zenon
  <1> HIDE DEF specs
  <1>3. ASSUME NEW i \in 1..Len(specs) PROVE ServesOf(specs[i], R)
    <2> DEFINE spec == specs[i]
    <2>1. spec.object \in O /\ \A k \in 1..Len(spec.properties) : <<spec.object, spec.properties[k]>> \in A
      BY <1>2, <1>3, Zenon
    <2> HIDE DEF spec
    <2>2. spec.object[1] < 1024 /\ spec.object[2] <= MAX_INSTANCE
      <3>1. Identifiable(spec.object)
        BY <2>1, AskedObjects, Zenon
      <3>2. QED
        BY <3>1, Zenon DEF Identifiable
    <2>3. \A k \in 1..Len(spec.properties) :
            /\ Fits(spec.properties[k], 4)
            /\ Holding(spec.object, spec.properties[k]) \in R
      BY <2>1, AskedServed, Zenon
    <2>4. QED
      BY <2>2, <2>3, Zenon DEF ServesOf, spec
  <1> HIDE DEF apdu
  <1>4. Len(apdu) > 2 /\ Len(apdu) > 3 /\ Len(apdu) >= 1 /\ apdu[1] \div 16 = 0
    <2>1. Len(apdu) \in Nat
      BY <1>1, OctetsAre, Zenon
    <2> DEFINE l == Len(apdu)
               x == apdu[1]
    <2>2. l \in Nat /\ l >= 4 /\ x = 0
      BY <1>1, <2>1, Zenon
    <2> HIDE DEF l, x
    <2>3. l > 2 /\ l > 3 /\ l >= 1 /\ x \div 16 = 0
      BY ONLY <2>2
    <2>4. QED
      BY <2>3, Zenon DEF l, x
  <1>5. \A types : IsPdu(f, types) <=> 0 \in types
    <2>1. f.payload \in Octets /\ Len(f.payload) >= 1 /\ f.payload[1] \div 16 = 0
      BY <1>1, <1>4, Zenon DEF apdu
    <2>2. QED
      BY <2>1, PduIs, Zenon
  <1>6. /\ ~IsPdu(f, Answers) /\ ~IsPdu(f, {PDU_SIMPLE_ACK, PDU_COMPLEX_ACK, PDU_ERROR})
        /\ IsPdu(f, {PDU_CONFIRMED_REQUEST})
    <2>1. /\ 0 \notin Answers /\ 0 \notin {PDU_SIMPLE_ACK, PDU_COMPLEX_ACK, PDU_ERROR}
          /\ 0 \in {PDU_CONFIRMED_REQUEST}
      BY ONLY DEF PDU_SIMPLE_ACK, PDU_COMPLEX_ACK, PDU_ERROR, PDU_REJECT, PDU_ABORT, Answers, PDU_CONFIRMED_REQUEST
    <2>2. QED
      BY <1>5, <2>1, Zenon
  <1>7. f.payload = apdu
    BY Zenon DEF apdu
  <1>8. invoke_id(f) = Some(m.id)
    BY <1>1, <1>4, <1>6, <1>7, Zenon DEF invoke_id
  <1>9. service(f) = Some(SERVICE_READ_PROPERTY_MULTIPLE)
    BY <1>1, <1>4, <1>6, <1>7, Zenon DEF service
  <1>10. ServerAnswer(f) = ServerReadMultiple(f, specs)
    BY <1>6, <1>7, <1>9, Zenon DEF ServerAnswer, specs
  <1>11. invoke_id(f)[1] \in Octet
    <2>1. \A x : Some(x)[1] = x
      BY ONLY DEF Some
    <2>2. QED
      BY <1>1, <1>8, <2>1, Zenon
  <1>12. /\ ServerReadMultiple(f, specs) = Some(ServerReadMultiple(f, specs)[1])
         /\ IsAnswer(ServerReadMultiple(f, specs)[1], R)
         /\ \A i \in 1..Len(specs) : TellsOf(ServerReadMultiple(f, specs)[1], specs[i])
    BY <1>2, <1>3, <1>11, ServerReadMultipleReads, Zenon
  <1> DEFINE answer == ServerReadMultiple(f, specs)[1]
  <1>13. ASSUME Separate(m.p.specs), NEW q \in R PROVE q = <<q[1], q[2]>> /\ Told(answer, 4, q)
    <2>1. PICK w \in A : q = Holding(w[1], w[2])
      BY <1>13, ServedAsked, Zenon
    <2>2. q = <<q[1], q[2]>>
      BY <1>13, ServedAsked, Zenon
    <2>3. Asking(data, A, O, {w})
      BY <1>1, <1>13, <2>1, Zenon
    <2>4. PICK i \in 1..Len(specs) :
            specs[i].object = w[1] /\ \E k \in 1..Len(specs[i].properties) : specs[i].properties[k] = w[2]
      <3> HIDE DEF data, A, O
      <3>1. Lists(specs, w)
        BY <2>3, SpecificationsGiven, Zenon DEF specs
      <3>2. QED
        BY <3>1, Zenon DEF Lists
    <2>5. TellsOf(answer, specs[i])
      BY <1>12, <2>4, Zenon
    <2> HIDE DEF answer
    <2>6. Told(answer, 4, Holding(w[1], w[2]))
      BY <2>4, <2>5, Zenon DEF TellsOf
    <2>7. QED
      BY <2>1, <2>2, <2>6, Zenon
  <1>14. Separate(m.p.specs) => WholeAnswer(answer, R)
    BY <1>12, <1>13, Zenon DEF WholeAnswer
  <1>15. QED
    BY <1>10, <1>12, <1>14, Zenon

-----------------------------------------------------------------------------
(* An answer whose end is lost is never wrong                               *)

\* A result that was read is one of R; a frame holds the start of an answer that says
\* nothing but R.
Sound(res, R) == Given(res) => \A key \in DOMAIN res[1] : <<key, res[1][key]>> \in R
StartOfAnswer(f, R) == f.payload \in Octets /\ \E apdu : IsAnswer(apdu, R) /\ Holds(apdu, 0, f.payload)

\* Whatever part of an answer arrives, parse_read_property_multiple_ack() refuses it or
\* reads results the whole answer gives.
LEMMA StartReads ==
    ASSUME NEW f, NEW R, StartOfAnswer(f, R)
    PROVE  Sound(parse_read_property_multiple_ack(f), R)
  <1> DEFINE v == f.payload
             C == Structured(v, 4)
             res == parse_read_property_multiple_ack(f)
             some == ResultsOf(v, C)
  <1>1. PICK apdu : IsAnswer(apdu, R) /\ Holds(apdu, 0, v)
    BY Zenon DEF StartOfAnswer
  <1>2. v \in Octets /\ Reading(apdu, 4, R)
    BY <1>1, Zenon DEF StartOfAnswer, IsAnswer
  <1>3. 4 \in Place
    BY DEF Place
  <1>4. SUFFICES ASSUME Given(res) PROVE \A key \in DOMAIN res[1] : <<key, res[1][key]>> \in R
    BY Zenon DEF Sound
  <1>5. MultipleAck(v, C) = res
    BY <1>4, Zenon DEF parse_read_property_multiple_ack, Given
  <1>6. ~Broken(C) /\ ~Unclosed(C) /\ res = Some(some)
    <2> HIDE DEF C, v, some
    <2>1. ~(Broken(C) \/ Unclosed(C)
            \/ \E i \in 1..Len(C) : IsValue(C[i], 0) /\ C[i].depth = 0 /\ Len(C[i].body) # 4)
      BY <1>4, <1>5, Zenon DEF MultipleAck, Given
    <2>2. MultipleAck(v, C) = Some(some)
      BY <2>1, Zenon DEF MultipleAck, some
    <2>3. QED
      BY <1>5, <2>1, <2>2, Zenon
  <1> HIDE DEF res
  <1>7. ASSUME NEW key \in DOMAIN some PROVE <<key, some[key]>> \in R
    BY <1>1, <1>2, <1>3, <1>6, <1>7, CutReads, Zenon
  <1> HIDE DEF some
  <1>8. res[1] = some
    <2>1. Some(some)[1] = some
      BY DEF Some
    <2>2. QED
      BY <1>6, <2>1, Zenon
  <1>9. QED
    BY <1>7, <1>8, Zenon

\* The answers that grow with what is asked, and what each of them may say.
Several == {"multiple ack", "read multiple"}
SeveralUnderWay == stage # "idle" /\ message.kind \in Several
\* The inductive invariant: CutNeverWrong speaks of the result only; it rests on the frame
\* it is read in being the start of an answer that says what it should, and that on the
\* request having reached the server whole.
SeveralParts ==
    /\ message.kind = "multiple ack" =>
         /\ stage = "received" => StartOfAnswer(frame, Reports(message.p.results))
         /\ stage = "decoded" => Sound(result, Reports(message.p.results))
    /\ message.kind = "read multiple" =>
         /\ stage \in {"received", "answered"} => Arrived
         /\ stage = "returned" => StartOfAnswer(frame, ServedReports(message))
         /\ stage = "read" => Sound(result, ServedReports(message))
SeveralInv == WireInv /\ (SeveralUnderWay => SeveralParts)

\* Such a message is put in a datagram like any other.
LEMMA SeveralCarried ==
    ASSUME NEW m \in Messages, m.kind \in Several, NEW r \in Routes
    PROVE  Encoded(m) \in Octets /\ Datagram(m, r) = Carried(npdu(Encoded(m), r), r)
  <1>1. \A kind \in Several : kind # "table" /\ kind # "networks"
    BY Zenon DEF Several
  <1>2. Datagram(m, r) = Carried(npdu(Encoded(m), r), r)
    BY <1>1, Zenon DEF Datagram, Addressing
  <1>3. CASE m.kind = "multiple ack"
    BY <1>2, <1>3, ReportsRead, Zenon
  <1>4. CASE m.kind = "read multiple"
    BY <1>2, <1>4, RequestAsks, Zenon
  <1>5. QED
    BY <1>3, <1>4, Zenon DEF Several

\* A request for several arrives whole.
LEMMA SeveralFits ==
    ASSUME NEW m \in Messages, m.kind = "read multiple", NEW r \in Routes
    PROVE  Len(Datagram(m, r)) <= RECEIVE_SIZE
  <1> DEFINE apdu == Encoded(m)
  <1>1. apdu \in Octets /\ Unsegmented(apdu)
    BY RequestAsks, Zenon
  <1>2. Datagram(m, r) = Carried(npdu(apdu, r), r)
    <2>1. m.kind \in Several
      BY Zenon DEF Several
    <2>2. QED
      BY <2>1, SeveralCarried, Zenon
  <1> HIDE DEF apdu
  <1>3. Len(apdu) \in Nat
    BY <1>1, OctetsAre, Zenon
  <1>4. Len(Carried(npdu(apdu, r), r)) <= RECEIVE_SIZE
    BY <1>1, <1>3, ShortFits, Zenon
  <1>5. QED
    BY <1>2, <1>4, Zenon

\* What arrives of an answer is its start.
LEMMA SeveralInvReceive ==
    ASSUME SeveralInv, NEW size \in {RECEIVE_SIZE} \cup CutSizes, Receive(size)
    PROVE  SeveralInv'
  <1>1. WireInv /\ WireInv'
    BY WireInvReceive, Zenon DEF SeveralInv
  <1>2. /\ stage \in {"sent", "answered"}
        /\ stage' = IF stage = "sent" THEN "received" ELSE "returned"
        /\ frame' = Frame(Slice(wire, 1, size)) /\ message' = message /\ route' = route
    BY Zenon DEF Receive
  <1>3. SUFFICES ASSUME message.kind \in Several PROVE SeveralParts'
    BY <1>1, <1>2, Zenon DEF SeveralInv, SeveralUnderWay
  <1>0. stage # "idle"
    BY <1>2, Zenon
  <1>4. message \in Messages /\ route \in Routes
    BY <1>0, <1>1, Zenon DEF WireInv
  <1> DEFINE f == Frame(Slice(wire, 1, size))
  <1>5. CASE stage = "sent"
    <2>1. wire = Datagram(message, route) /\ stage' = "received"
      BY <1>1, <1>2, <1>5, Zenon DEF WireInv
    <2> DEFINE payload == Encoded(message)
    <2>2. payload \in Octets /\ wire = Carried(npdu(payload, route), route)
      BY <1>3, <1>4, <2>1, SeveralCarried, Zenon
    <2> HIDE DEF payload
    <2>3. ReadBack(wire, size, payload, route)
      BY <1>4, <2>2, FrameRoundTrip, Zenon
    <2>4. /\ f.network_message = None /\ f.payload \in Octets /\ Holds(payload, 0, f.payload)
          /\ Len(wire) <= size => f.payload = payload
      BY <2>3, Zenon DEF ReadBack
    <2> HIDE DEF f
    <2>5. CASE message.kind = "multiple ack"
      <3> DEFINE R == Reports(message.p.results)
      <3>1. IsAnswer(payload, R)
        BY <1>4, <2>5, ReportsRead, Zenon DEF IsAnswer, payload
      <3>2. StartOfAnswer(f, R)
        BY <2>4, <3>1, Zenon DEF StartOfAnswer
      <3>3. StartOfAnswer(frame, Reports(message.p.results))'
        BY <1>2, <3>2, Zenon DEF f
      <3>4. message'.kind = "multiple ack" /\ "multiple ack" # "read multiple" /\ stage' # "decoded"
        BY <1>2, <2>1, <2>5, Zenon
      <3>5. QED
        BY <3>3, <3>4, Zenon DEF SeveralParts
    <2>6. CASE message.kind = "read multiple"
      <3>1. size = RECEIVE_SIZE
        <4>1. <<stage, message.kind>> \notin {<<"sent", "multiple ack">>, <<"answered", "read multiple">>}
          BY <1>5, <2>6, Zenon
        <4>2. QED
          BY <4>1, Zenon DEF Receive
      <3>2. Len(wire) <= size
        BY <1>4, <2>1, <2>6, <3>1, SeveralFits, Zenon
      <3>3. f.payload = payload
        BY <2>4, <3>2, Zenon
      <3>4. Arrived'
        <4>1. frame' = f /\ Encoded(message)' = payload
          BY <1>2, Zenon DEF f, payload
        <4>2. QED
          BY <2>4, <3>3, <4>1, Zenon DEF Arrived
      <3>5. message'.kind # "multiple ack" /\ stage' # "returned" /\ stage' # "read"
        BY <1>2, <2>1, <2>6, Zenon
      <3>6. QED
        BY <3>4, <3>5, Zenon DEF SeveralParts
    <2>7. QED
      BY <1>3, <2>5, <2>6, Zenon DEF Several
  <1>6. CASE stage = "answered"
    <2>1. stage' = "returned"
      BY <1>2, <1>6, Zenon
    <2>2. CASE message.kind = "multiple ack"
      <3>1. message'.kind = "multiple ack" /\ "multiple ack" # "read multiple"
            /\ stage' # "received" /\ stage' # "decoded"
        BY <1>2, <2>1, <2>2, Zenon
      <3>2. QED
        BY <3>1, Zenon DEF SeveralParts
    <2>3. CASE message.kind = "read multiple"
      <3> DEFINE apdu == ServerAnswer(frame)[1]
                 R == ServedReports(message)
      <3>1. FromSource /\ wire = Reply(frame, apdu)
        BY <1>1, <1>6, Zenon DEF WireInv
      <3>2. Arrived
        <4>1. stage \in {"received", "answered"} /\ SeveralUnderWay
          BY <1>0, <1>3, <1>6, Zenon DEF SeveralUnderWay
        <4>2. QED
          BY <2>3, <4>1, Zenon DEF SeveralInv, SeveralParts
      <3>3. IsAnswer(apdu, R)
        BY <1>4, <2>3, <3>2, MultipleServed, Zenon DEF Arrived
      <3> HIDE DEF apdu
      <3>4. apdu \in Octets
        BY <3>3, Zenon DEF IsAnswer
      <3>5. AsReplied(wire, size, apdu, route)
        BY <1>4, <3>1, <3>4, ReplyReads, Zenon DEF FromSource
      <3>6. f.payload \in Octets /\ Holds(apdu, 0, f.payload)
        BY <3>5, Zenon DEF AsReplied
      <3> HIDE DEF f
      <3>7. StartOfAnswer(f, R)
        BY <3>3, <3>6, Zenon DEF StartOfAnswer
      <3>8. StartOfAnswer(frame, ServedReports(message))'
        BY <1>2, <3>7 DEF f
      <3>9. message'.kind # "multiple ack" /\ stage' \notin {"received", "answered"} /\ stage' # "read"
        BY <1>2, <2>1, <2>3, Zenon
      <3>10. QED
        BY <3>8, <3>9, Zenon DEF SeveralParts
    <2>4. QED
      BY <1>3, <2>2, <2>3, Zenon DEF Several
  <1>7. QED
    BY <1>2, <1>5, <1>6, Zenon

\* The server has the request, and whoever decodes an answer reads what it should say.
LEMMA SeveralInvOthers ==
    ASSUME SeveralInv, [WireNext]_wireVars,
           \A size \in {RECEIVE_SIZE} \cup CutSizes : ~Receive(size)
    PROVE  SeveralInv'
  <1>1. WireInv /\ WireInv'
    BY WireInvSend, WireInvReceive, WireInvAnswer, WireInvOthers DEF WireNext, SeveralInv
  <1>2. SUFFICES ASSUME SeveralUnderWay' PROVE SeveralParts'
    BY <1>1, Zenon DEF SeveralInv
  <1>3. ASSUME NEW m \in Messages, NEW r \in Routes, Send(m, r) PROVE SeveralParts'
    <2>1. stage' = "sent"
      BY <1>3, Zenon DEF Send
    <2>2. /\ stage' # "received" /\ stage' # "decoded" /\ stage' \notin {"received", "answered"}
          /\ stage' # "returned" /\ stage' # "read"
      BY <2>1, Zenon
    <2>3. QED
      BY <2>2, Zenon DEF SeveralParts
  <1>4. CASE Decode
    <2>1. /\ stage = "received" /\ stage' = "decoded" /\ result' = Decoded(message.kind, frame)
          /\ message' = message
      BY <1>4, Zenon DEF Decode
    <2>2. /\ stage' # "received" /\ stage' \notin {"received", "answered"}
          /\ stage' # "returned" /\ stage' # "read"
      BY <2>1, Zenon
    <2>3. ASSUME message.kind = "multiple ack" PROVE Sound(result, Reports(message.p.results))'
      <3> DEFINE R == Reports(message.p.results)
      <3>1. SeveralUnderWay
        BY <1>2, <2>1, Zenon DEF SeveralUnderWay
      <3>2. StartOfAnswer(frame, R)
        BY <2>1, <2>3, <3>1, Zenon DEF SeveralInv, SeveralParts
      <3>3. result' = parse_read_property_multiple_ack(frame)
        BY <2>1, <2>3, Zenon DEF Decoded
      <3>4. Sound(parse_read_property_multiple_ack(frame), R)
        BY <3>2, StartReads, Zenon
      <3>5. Sound(result', R)
        BY <3>3, <3>4, Zenon
      <3>6. QED
        BY <2>1, <3>5, Zenon
    <2>4. QED
      BY <2>1, <2>2, <2>3, Zenon DEF SeveralParts
  <1>5. CASE Answer
    <2>1. /\ stage = "received" /\ message.kind \in Requests /\ message' = message /\ frame' = frame
          /\ stage' = IF Given(ServerAnswer(frame)) THEN "answered" ELSE "silent"
      BY <1>5, Zenon DEF Answer
    <2>2. /\ stage' # "received" /\ stage' # "decoded" /\ stage' # "returned" /\ stage' # "read"
      BY <2>1, Zenon
    <2>3. message.kind = "read multiple" => Arrived
      BY <1>2, <2>1, Zenon DEF SeveralInv, SeveralParts, SeveralUnderWay
    <2>4. Arrived => Arrived'
      BY <2>1, Zenon DEF Arrived
    <2>5. QED
      BY <2>1, <2>2, <2>3, <2>4, Zenon DEF SeveralParts
  <1>6. CASE Read
    <2>1. /\ stage = "returned" /\ stage' = "read" /\ message' = message
          /\ (message.kind = "read multiple" => result' = parse_read_property_multiple_ack(frame))
      BY <1>6, Zenon DEF Read
    <2>2. /\ stage' # "received" /\ stage' # "decoded" /\ stage' \notin {"received", "answered"}
          /\ stage' # "returned"
      BY <2>1, Zenon
    <2>3. ASSUME message.kind = "read multiple" PROVE Sound(result, ServedReports(message))'
      <3> DEFINE R == ServedReports(message)
      <3>1. SeveralUnderWay
        BY <1>2, <2>1, Zenon DEF SeveralUnderWay
      <3>2. StartOfAnswer(frame, R)
        BY <2>1, <2>3, <3>1, Zenon DEF SeveralInv, SeveralParts
      <3>3. Sound(parse_read_property_multiple_ack(frame), R)
        BY <3>2, StartReads, Zenon
      <3>4. Sound(result', R)
        BY <2>1, <2>3, <3>3, Zenon
      <3>5. ServedReports(message)' = R
        BY <2>1
      <3>6. QED
        BY <3>4, <3>5, Zenon
    <2>4. QED
      BY <2>1, <2>2, <2>3, Zenon DEF SeveralParts
  <1>7. CASE Finish
    <2>1. stage' = "idle"
      BY <1>7, Zenon DEF Finish
    <2>2. QED
      BY <1>2, <2>1, Zenon DEF SeveralUnderWay
  <1>8. CASE UNCHANGED wireVars
    <2>1. /\ stage' = stage /\ message' = message /\ route' = route /\ wire' = wire /\ cut' = cut
          /\ frame' = frame /\ result' = result
      BY <1>8 DEF wireVars
    <2>2. SeveralUnderWay /\ SeveralParts
      BY <1>2, <2>1, Zenon DEF SeveralUnderWay, SeveralInv
    <2>3. ServedReports(message)' = ServedReports(message) /\ (Arrived' <=> Arrived)
      BY <2>1 DEF Arrived
    <2>4. SeveralParts' <=> SeveralParts
      BY <2>1, <2>3, Zenon DEF SeveralParts
    <2>5. QED
      BY <2>2, <2>4, Zenon
  <1>9. QED
    BY <1>3, <1>4, <1>5, <1>6, <1>7, <1>8, Zenon DEF WireNext

\* What an answer of an example means, key by key.
LEMMA ReportMeant ==
    ASSUME NEW m \in Messages, m.kind = "multiple ack", NEW key, NEW res,
           <<key, res>> \in Reports(m.p.results)
    PROVE  key \in DOMAIN Meant(m)[1] /\ Meant(m)[1][key] = res
  <1> DEFINE R == Reports(m.p.results)
             whole == [k \in {a[1] : a \in R} |-> (CHOOSE a \in R : a[1] = k)[2]]
             x == <<key, res>>
  <1>1. Meant(m) = Some(whole)
    BY Zenon DEF Meant
  <1>2. \A a, b \in R : a[1] = b[1] => a = b
    <2>1. /\ m.id \in Octet /\ m.p.results \in Seq(ObjectReports)
          /\ \A r \in ToSet(m.p.results) :
               /\ r.object[1] < 1024 /\ r.object[2] <= MAX_INSTANCE
               /\ \A v \in ToSet(r.properties) :
                    /\ Referable([object |-> r.object, property |-> v.property, array_index |-> v.array_index])
                    /\ \A value \in ToSet(v.value) : Enclosable(value)
          /\ \A a, b \in Reports(m.p.results) : a[1] = b[1] => a = b
      BY ReportsAssumption, Zenon
    <2>2. QED
      BY <2>1, Zenon
  <1> HIDE DEF R
  <1>3. x \in R /\ x[1] = key /\ x[2] = res
    <2>1. x[1] = key /\ x[2] = res
      BY ONLY DEF x
    <2>2. QED
      BY <2>1, Zenon DEF R
  <1> HIDE DEF x
  <1>4. (CHOOSE a \in R : a[1] = key) = x
    <2> DEFINE c == CHOOSE a \in R : a[1] = key
    <2>1. c \in R /\ c[1] = key
      BY <1>3, Zenon
    <2> HIDE DEF c
    <2>2. c = x
      BY <1>2, <1>3, <2>1, Zenon
    <2>3. QED
      BY <2>2, Zenon DEF c
  <1>5. key \in {a[1] : a \in R}
    BY <1>3, Zenon
  <1>6. key \in DOMAIN whole /\ whole[key] = res
    BY <1>3, <1>4, <1>5, Zenon
  <1> HIDE DEF whole
  <1>7. Some(whole)[1] = whole
    BY ONLY DEF Some
  <1>8. QED
    BY <1>1, <1>6, <1>7, Zenon

\* codec.py and peer.py: whatever an example or the simulated server answers to a request for
\* several properties, however long the answer, however it is carried and wherever its end is
\* lost (recvfrom() takes 2048 octets): the client refuses the answer or reads results that the
\* whole answer gives.  No value is cut short, and none is filed under another object, property
\* or array index.
THEOREM CutNeverWrongHolds == WireSpec => []CutNeverWrong
  <1>1. WireInit => SeveralInv
    BY WireInvInit DEF WireInit, SeveralInv, SeveralUnderWay
  <1>2. SeveralInv /\ [WireNext]_wireVars => SeveralInv'
    BY SeveralInvReceive, SeveralInvOthers
  <1>3. SeveralInv => CutNeverWrong
    <2>1. SUFFICES ASSUME SeveralInv PROVE CutNeverWrong
      OBVIOUS
    <2>2. CASE stage = "decoded" /\ message.kind = "multiple ack"
      <3> DEFINE whole == Meant(message)[1]
      <3>1. stage # "idle" /\ message.kind \in Several
        BY <2>2, Zenon DEF Several
      <3>2. message \in Messages /\ Sound(result, Reports(message.p.results))
        <4>1. SeveralParts
          BY <2>1, <3>1, Zenon DEF SeveralInv, SeveralUnderWay
        <4>2. Sound(result, Reports(message.p.results))
          BY <2>2, <4>1, Zenon DEF SeveralParts
        <4>3. WireInv
          BY <2>1, Zenon DEF SeveralInv
        <4>4. message \in Messages
          BY <3>1, <4>3, Zenon DEF WireInv
        <4>5. QED
          BY <4>2, <4>4, Zenon
      <3>3. ASSUME NEW key, NEW res, <<key, res>> \in Reports(message.p.results)
            PROVE  key \in DOMAIN whole /\ res = whole[key]
        BY <2>2, <3>2, <3>3, ReportMeant, Zenon
      <3> HIDE DEF whole
      <3>4. Given(result) => \A key \in DOMAIN result[1] : key \in DOMAIN whole /\ result[1][key] = whole[key]
        BY <3>2, <3>3, Zenon DEF Sound
      <3>5. QED
        BY <2>2, <3>4, Zenon DEF CutNeverWrong, whole
    <2>3. CASE stage = "read" /\ message.kind = "read multiple"
      <3> DEFINE whole == AnsweredMultiple(message)
      <3>1. stage # "idle" /\ message.kind \in Several /\ stage # "decoded"
        BY <2>3, Zenon DEF Several
      <3>2. Sound(result, ServedReports(message))
        BY <2>1, <2>3, <3>1, Zenon DEF SeveralInv, SeveralUnderWay, SeveralParts
      <3>3. ASSUME NEW key, NEW res, <<key, res>> \in ServedReports(message)
            PROVE  key \in DOMAIN whole /\ res = whole[key]
        <4>1. PICK k \in DOMAIN whole : <<key, res>> = <<k, whole[k]>>
          BY <3>3, Zenon DEF ServedReports
        <4> HIDE DEF whole
        <4>2. key = k /\ res = whole[k]
          BY ONLY <4>1
        <4>3. QED
          BY <4>2, Zenon
      <3>4. Given(result) => \A key \in DOMAIN result[1] : key \in DOMAIN whole /\ result[1][key] = whole[key]
        BY <3>2, <3>3, Zenon DEF Sound
      <3> HIDE DEF whole
      <3>5. QED
        BY <2>3, <3>1, <3>4, Zenon DEF CutNeverWrong, whole
    <2>4. CASE ~((stage = "decoded" /\ message.kind = "multiple ack")
                 \/ (stage = "read" /\ message.kind = "read multiple"))
      BY <2>4, Zenon DEF CutNeverWrong
    <2>5. QED
      BY <2>2, <2>3, <2>4, Zenon
  <1>4. QED
    BY <1>1, <1>2, <1>3, PTL DEF WireSpec

-----------------------------------------------------------------------------
(* An answer that arrived whole gives every result                          *)

\* The frame of an answer is taken for one.
LEMMA AnswerTaken ==
    ASSUME NEW f, f.network_message = None, f.payload \in Octets, f.payload[1] = 48,
           f.payload[3] = SERVICE_READ_PROPERTY_MULTIPLE, f.payload # << >>
    PROVE  IsComplexAck(f, Some(SERVICE_READ_PROPERTY_MULTIPLE))
  <1> DEFINE type == pdu_type(f)
  <1>1. ~Given(f.network_message) /\ 48 \div 16 = 3
    BY DEF Given
  <1>2. type = Some(3)
    BY <1>1, Zenon DEF pdu_type
  <1>3. Some(3)[1] = 3 /\ Given(Some(3))
    BY DEF Some, Given, None
  <1>4. Given(type) /\ type[1] = 3
    BY <1>2, <1>3, Zenon
  <1>5. 3 \in {PDU_COMPLEX_ACK} /\ 3 \in {PDU_SIMPLE_ACK, PDU_COMPLEX_ACK, PDU_ERROR}
    BY DEF PDU_COMPLEX_ACK
  <1> HIDE DEF type
  <1>6. IsPdu(f, {PDU_COMPLEX_ACK}) /\ IsPdu(f, {PDU_SIMPLE_ACK, PDU_COMPLEX_ACK, PDU_ERROR})
    BY <1>4, <1>5, Zenon DEF IsPdu, type
  <1>7. service(f) = Some(SERVICE_READ_PROPERTY_MULTIPLE)
    BY <1>6, Zenon DEF service
  <1>8. QED
    BY <1>6, <1>7, Zenon DEF IsComplexAck

\* The results R, each under its key: what an answer should give.
Gives(res, R) ==
    /\ res = Some(res[1]) /\ Given(res)
    /\ DOMAIN res[1] = {a[1] : a \in R} /\ res[1] = [key \in DOMAIN res[1] |-> res[1][key]]
    /\ \A key \in DOMAIN res[1] : <<key, res[1][key]>> \in R

\* An answer that is all there and tells R gives R.
LEMMA WholeGives ==
    ASSUME NEW f, f.network_message = None, NEW R, WholeAnswer(f.payload, R)
    PROVE  Gives(parse_read_property_multiple_ack(f), R)
  <1> DEFINE v == f.payload
             T == Structured(v, 4)
             res == parse_read_property_multiple_ack(f)
             all == ResultsOf(v, T)
  <1>1. IsAnswer(v, R) /\ \A q \in R : q = <<q[1], q[2]>> /\ Told(v, 4, q)
    BY Zenon DEF WholeAnswer
  <1>2. v \in Octets /\ Reading(v, 4, R) /\ v[1] = 48 /\ v[3] = SERVICE_READ_PROPERTY_MULTIPLE
    BY <1>1, Zenon DEF IsAnswer
  <1>3. 4 \in 1..Len(v) + 1 /\ Whole(v, 4) /\ (\A i \in Entries(T) : SaysOneOf(v, T, i, R))
        /\ \A i \in 1..Len(T) : Sized(T[i])
    BY <1>2, Zenon DEF Reading
  <1>4. v # << >> /\ 4 \in Place
    <2>1. Len(v) \in Nat
      BY <1>2, OctetsAre, Zenon
    <2> HIDE DEF v
    <2>2. QED
      BY <1>3, <2>1 DEF Place
  <1>5. IsComplexAck(f, Some(SERVICE_READ_PROPERTY_MULTIPLE))
    BY <1>2, <1>4, AnswerTaken, Zenon
  <1>6. ~Broken(T)
    BY <1>2, <1>3, <1>4, WholeUnbroken, Zenon
  <1>7. ~Unclosed(T)
    BY <1>3, Zenon DEF Unclosed, SaysOneOf
  <1>8. ~\E i \in 1..Len(T) : IsValue(T[i], 0) /\ T[i].depth = 0 /\ Len(T[i].body) # 4
    BY <1>3, Zenon DEF Sized
  <1>9. res = Some(all)
    <2>1. MultipleAck(v, T) = Some(all)
      BY <1>6, <1>7, <1>8, Zenon DEF MultipleAck
    <2>2. QED
      BY <1>5, <2>1, Zenon DEF parse_read_property_multiple_ack
  <1>10. ASSUME NEW key \in DOMAIN all PROVE <<key, all[key]>> \in R
    <2>1. Holds(v, 0, v)
      BY <1>2, HoldsSelf, Zenon
    <2>2. QED
      BY <1>2, <1>4, <1>6, <1>7, <1>10, <2>1, CutReads, Zenon
  <1>11. ASSUME NEW q \in R PROVE q[1] \in DOMAIN all
    <2>1. q = <<q[1], q[2]>> /\ Told(v, 4, q)
      BY <1>1, <1>11, Zenon
    <2>2. PICK i \in Entries(T) : <<EntryKey(T, i), EntryResult(v, T, i)>> = q
      BY <2>1, Zenon DEF Told
    <2>3. EntryKey(T, i) = q[1]
      <3> DEFINE a == EntryKey(T, i)
                 b == EntryResult(v, T, i)
      <3>1. <<a, b>> = q
        BY <2>2, Zenon
      <3> HIDE DEF a, b
      <3>2. a = q[1]
        BY ONLY <3>1
      <3>3. QED
        BY <3>2, Zenon DEF a
    <2>4. QED
      BY <2>2, <2>3, EntryHasKey, Zenon
  <1>12. all = [key \in DOMAIN all |-> all[key]]
    <2> DEFINE keys == {EntryKey(T, i) : i \in Entries(T)}
               says(key) == EntryResult(v, T, Max({i \in Entries(T) : EntryKey(T, i) = key}))
    <2>1. all = [key \in keys |-> says(key)]
      BY Zenon DEF ResultsOf
    <2> HIDE DEF keys, says, all
    <2>2. QED
      BY <2>1, Zenon
  <1> HIDE DEF all, res
  <1>13. DOMAIN all = {a[1] : a \in R}
    <2>1. ASSUME NEW key \in DOMAIN all PROVE key \in {a[1] : a \in R}
      <3>1. <<key, all[key]>>[1] = key
        OBVIOUS
      <3>2. QED
        BY <1>10, <2>1, <3>1, Zenon
    <2>2. ASSUME NEW key \in {a[1] : a \in R} PROVE key \in DOMAIN all
      BY <1>11, <2>2, Zenon
    <2>3. QED
      BY <2>1, <2>2, Zenon
  <1>14. Some(all)[1] = all /\ Given(Some(all))
    BY DEF Some, Given, None
  <1>15. res[1] = all /\ Given(res)
    BY <1>9, <1>14, Zenon
  <1>16. QED
    BY <1>9, <1>10, <1>13, <1>15, <1>12, Zenon DEF Gives, res

\* An answer of an example is read as it was meant.
LEMMA MultipleRead ==
    ASSUME NEW m \in Messages, m.kind = "multiple ack", NEW g, g.network_message = None, g.payload = Encoded(m)
    PROVE  Decoded(m.kind, g) = Meant(m) /\ Encoded(m) \in Octets
  <1> DEFINE R == Reports(m.p.results)
             res == Decoded(m.kind, g)
             D == {a[1] : a \in R}
             says(key) == (CHOOSE a \in R : a[1] = key)[2]
             whole == [key \in D |-> says(key)]
  <1>1. /\ Encoded(m) \in Octets /\ Reading(Encoded(m), 4, R)
        /\ Encoded(m)[1] = 48 /\ Encoded(m)[3] = SERVICE_READ_PROPERTY_MULTIPLE
        /\ \A q \in R : Told(Encoded(m), 4, q)
    BY ReportsRead, Zenon
  <1>2. ASSUME NEW q \in R PROVE q = <<q[1], q[2]>>
    <2> DEFINE S == m.p.results
               of(s) == {<<<<s.object, v.property, v.array_index>>, ResultOf(v.value)>> : v \in ToSet(s.properties)}
    <2>1. R = UNION {of(s) : s \in ToSet(S)}
      BY Zenon DEF Reports
    <2>2. PICK s \in ToSet(S) : q \in of(s)
      <3> HIDE DEF of, R, S
      <3>1. QED
        BY <1>2, <2>1, Zenon
    <2>3. PICK v \in ToSet(s.properties) : q = <<<<s.object, v.property, v.array_index>>, ResultOf(v.value)>>
      BY <2>2, Zenon
    <2> DEFINE a == <<s.object, v.property, v.array_index>>
               b == ResultOf(v.value)
    <2>4. q = <<a, b>>
      BY <2>3, Zenon
    <2> HIDE DEF a, b
    <2>5. QED
      BY ONLY <2>4
  <1>3. Meant(m) = Some(whole) /\ res = parse_read_property_multiple_ack(g)
    BY Zenon DEF Meant, Decoded
  <1>4. ASSUME NEW key, NEW x, <<key, x>> \in R PROVE key \in DOMAIN Meant(m)[1] /\ Meant(m)[1][key] = x
    BY <1>4, ReportMeant, Zenon
  <1>5. Meant(m)[1] = whole
    <2> HIDE DEF whole
    <2>1. Some(whole)[1] = whole
      BY ONLY DEF Some
    <2>2. QED
      BY <1>3, <2>1, Zenon
  <1>6. DOMAIN whole = D /\ whole = [key \in D |-> whole[key]]
    <2> HIDE DEF D, says
    <2>1. DOMAIN whole = D /\ \A key \in D : whole[key] = says(key)
      BY Zenon
    <2>2. QED
      BY <2>1, Zenon
  <1> HIDE DEF R, res, whole
  <1>7. WholeAnswer(g.payload, R)
    BY <1>1, <1>2, Zenon DEF WholeAnswer, IsAnswer
  <1>8. Gives(res, R)
    BY <1>3, <1>7, WholeGives, Zenon
  <1> DEFINE f == res[1]
  <1>9. /\ res = Some(f) /\ DOMAIN f = D /\ f = [key \in DOMAIN f |-> f[key]]
        /\ \A key \in DOMAIN f : <<key, f[key]>> \in R
    BY <1>8, Zenon DEF Gives
  <1> HIDE DEF f, D
  <1>10. \A key \in D : f[key] = whole[key]
    BY <1>4, <1>5, <1>9, Zenon
  <1>11. f = whole
    BY <1>6, <1>9, <1>10, Zenon
  <1>12. QED
    BY <1>1, <1>3, <1>9, <1>11, Zenon DEF res

\* codec.py: what the client reads in the acknowledgement of a ReadPropertyMultiple that
\* arrived whole is what the answer holds, every result under its object, property and index
\* and no other, in a frame addressed as npdu() was asked to: for any number of objects and
\* properties and values nested to any depth.
THEOREM MultipleRoundTrip == WireSpec => [](stage # "idle" /\ message.kind = "multiple ack" => RoundTrip)
  <1>1. SentInv => (stage # "idle" /\ message.kind = "multiple ack" => RoundTrip)
    <2>1. SUFFICES ASSUME SentInv, stage # "idle", message.kind = "multiple ack" PROVE RoundTrip
      OBVIOUS
    <2>2. message \in Messages
      BY <2>1, Zenon DEF SentInv, WireInv
    <2>3. AnApdu(message)
      <3>1. Encoded(message) \in Octets
        BY <2>1, <2>2, ReportsRead, Zenon
      <3>2. "multiple ack" # "table" /\ "multiple ack" # "networks"
        BY Zenon
      <3>3. QED
        BY <2>1, <3>1, <3>2, Zenon DEF AnApdu
    <2>4. ASSUME NEW g, g.network_message = None, g.payload = Encoded(message)
          PROVE  Decoded(message.kind, g) = Meant(message)
      BY <2>1, <2>2, <2>4, MultipleRead, Zenon
    <2>5. QED
      BY <2>1, <2>3, <2>4, SentRoundTrip, Zenon
  <1>2. QED
    BY <1>1, SentInvHolds, PTL

-----------------------------------------------------------------------------
(* A client reads of several properties what the server serves             *)

\* What gives the reports of a request is what the request should give.
LEMMA GivesServed ==
    ASSUME NEW m, NEW res, Gives(res, ServedReports(m))
    PROVE  res = Some(AnsweredMultiple(m))
  <1> DEFINE R == ServedReports(m)
             whole == AnsweredMultiple(m)
             f == res[1]
  <1>1. /\ res = Some(f) /\ DOMAIN f = {a[1] : a \in R} /\ f = [key \in DOMAIN f |-> f[key]]
        /\ \A key \in DOMAIN f : <<key, f[key]>> \in R
    BY Zenon DEF Gives
  <1>2. R = {<<key, whole[key]>> : key \in DOMAIN whole}
    BY Zenon DEF ServedReports
  <1>3. whole = [key \in DOMAIN whole |-> whole[key]]
    <2> DEFINE of(spec) == {<<spec.object, spec.references[k].property, None>> : k \in 1..Len(spec.references)}
               keys == UNION {of(m.p.specs[i]) : i \in 1..Len(m.p.specs)}
               says(key) == IF <<key[1], key[2]>> \in DOMAIN Peer.served
                            THEN [value |-> FlattenSeq(Peer.served[key[1], key[2]])] ELSE [error |-> <<2, 32>>]
    <2>1. whole = [key \in keys |-> says(key)]
      BY Zenon DEF AnsweredMultiple
    <2> HIDE DEF keys, says, whole
    <2>2. QED
      BY <2>1, Zenon
  <1> HIDE DEF R, whole, f
  <1>4. ASSUME NEW key, NEW x, <<key, x>> \in R PROVE key \in DOMAIN whole /\ x = whole[key]
    <2>1. PICK k \in DOMAIN whole : <<key, x>> = <<k, whole[k]>>
      BY <1>2, <1>4, Zenon
    <2>2. key = k /\ x = whole[k]
      BY ONLY <2>1
    <2>3. QED
      BY <2>2, Zenon
  <1>5. DOMAIN f = DOMAIN whole
    <2>1. ASSUME NEW key \in DOMAIN f PROVE key \in DOMAIN whole
      BY <1>1, <1>4, <2>1, Zenon
    <2>2. ASSUME NEW key \in DOMAIN whole PROVE key \in DOMAIN f
      <3> DEFINE x == whole[key]
                 a == <<key, x>>
      <3>1. a \in R
        BY <1>2, <2>2, Zenon
      <3> HIDE DEF x
      <3>2. a[1] = key
        BY ONLY DEF a
      <3> HIDE DEF a
      <3>3. QED
        BY <1>1, <3>1, <3>2, Zenon
    <2>3. QED
      BY <2>1, <2>2, Zenon
  <1>6. \A key \in DOMAIN f : f[key] = whole[key]
    BY <1>1, <1>4, Zenon
  <1>7. f = whole
    BY <1>1, <1>3, <1>5, <1>6, Zenon
  <1>8. QED
    BY <1>1, <1>7, Zenon DEF whole

\* The requests for several that list no object twice: read_access_specifications() starts
\* an object over when it is listed again.
SeparatesUnderWay == stage # "idle" /\ message.kind = "read multiple" /\ Separate(message.p.specs)
\* The inductive invariant: what the client reads rests on the whole answer being in the
\* frame it has, and that on what the server read of the request (SeveralInv).
AnsweredParts ==
    /\ stage = "returned" /\ ~cut => /\ frame.network_message = None
                                     /\ WholeAnswer(frame.payload, ServedReports(message))
    /\ stage = "read" /\ ~cut => Gives(result, ServedReports(message))
AnsweredInv ==
    /\ SeveralInv /\ (SeparatesUnderWay => AnsweredParts)
    /\ stage \in {"answered", "silent", "returned", "read"} => message.kind \in Requests

\* The answer arrives as the server sent it, if none of it is lost.
LEMMA AnsweredInvReceive ==
    ASSUME AnsweredInv, NEW size \in {RECEIVE_SIZE} \cup CutSizes, Receive(size)
    PROVE  AnsweredInv'
  <1>1. SeveralInv /\ SeveralInv'
    BY SeveralInvReceive, Zenon DEF AnsweredInv
  <1>2. /\ stage \in {"sent", "answered"}
        /\ stage' = IF stage = "sent" THEN "received" ELSE "returned"
        /\ frame' = Frame(Slice(wire, 1, size)) /\ message' = message /\ route' = route
        /\ cut' = (Len(wire) > size)
    BY Zenon DEF Receive
  <1>3. stage' \in {"answered", "silent", "returned", "read"} => message'.kind \in Requests
    BY <1>2, Zenon DEF AnsweredInv
  <1>4. SUFFICES ASSUME SeparatesUnderWay' PROVE AnsweredParts'
    BY <1>1, <1>3, Zenon DEF AnsweredInv
  <1>5. CASE stage = "sent"
    <2>1. stage' # "returned" /\ stage' # "read"
      BY <1>2, <1>5, Zenon
    <2>2. QED
      BY <2>1, Zenon DEF AnsweredParts
  <1>6. CASE stage = "answered"
    <2> DEFINE apdu == ServerAnswer(frame)[1]
               R == ServedReports(message)
               f == Frame(Slice(wire, 1, size))
    <2>1. stage' = "returned" /\ stage' # "read" /\ stage # "idle"
      BY <1>2, <1>6, Zenon
    <2>2. message.kind = "read multiple" /\ Separate(message.p.specs)
      BY <1>2, <1>4, Zenon DEF SeparatesUnderWay
    <2>3. WireInv /\ Arrived
      <3>1. SeveralUnderWay /\ stage \in {"received", "answered"}
        BY <1>6, <2>1, <2>2, Zenon DEF SeveralUnderWay, Several
      <3>2. QED
        BY <1>1, <2>2, <3>1, Zenon DEF SeveralInv, SeveralParts
    <2>4. message \in Messages /\ route \in Routes /\ FromSource /\ wire = Reply(frame, apdu)
      BY <1>6, <2>1, <2>3, Zenon DEF WireInv
    <2>5. WholeAnswer(apdu, R)
      BY <2>2, <2>3, <2>4, MultipleServed, Zenon DEF Arrived
    <2> HIDE DEF apdu
    <2>6. apdu \in Octets
      BY <2>5, Zenon DEF WholeAnswer, IsAnswer
    <2>7. AsReplied(wire, size, apdu, route)
      BY <2>4, <2>6, ReplyReads, Zenon DEF FromSource
    <2>8. f.network_message = None /\ wire \in Octets /\ (Len(wire) <= size => f.payload = apdu)
      BY <2>7, Zenon DEF AsReplied
    <2>9. ~(Len(wire) > size) => Len(wire) <= size
      <3>1. Len(wire) \in Nat
        BY <2>8, OctetsAre, Zenon
      <3>2. size \in Nat
        <4>1. RECEIVE_SIZE \in Nat
          BY DEF RECEIVE_SIZE
        <4>2. QED
          BY <2>4, <4>1, CutSizesAssumption, Zenon
      <3> DEFINE l == Len(wire)
      <3> HIDE DEF l
      <3>3. l \in Nat
        BY <3>1, Zenon DEF l
      <3>4. ~(l > size) => l <= size
        BY ONLY <3>2, <3>3
      <3>5. QED
        BY <3>4, Zenon DEF l
    <2> HIDE DEF f, R
    <2>10. ~cut' => f.network_message = None /\ WholeAnswer(f.payload, R)
      BY <1>2, <2>5, <2>8, <2>9, Zenon
    <2>11. frame' = f /\ ServedReports(message)' = R
      BY <1>2 DEF f, R
    <2>12. QED
      BY <2>1, <2>10, <2>11, Zenon DEF AnsweredParts
  <1>7. QED
    BY <1>2, <1>5, <1>6, Zenon

\* The client decodes the answer it has.
LEMMA AnsweredInvOthers ==
    ASSUME AnsweredInv, [WireNext]_wireVars,
           \A size \in {RECEIVE_SIZE} \cup CutSizes : ~Receive(size)
    PROVE  AnsweredInv'
  <1>1. SeveralInv /\ SeveralInv'
    BY SeveralInvOthers, Zenon DEF AnsweredInv
  <1> DEFINE Answering == {"answered", "silent", "returned", "read"}
             Kept == (stage' \in Answering => message'.kind \in Requests) /\ (SeparatesUnderWay' => AnsweredParts')
  <1>2. SUFFICES Kept
    BY <1>1, Zenon DEF AnsweredInv
  <1>3. ASSUME stage' \notin Answering PROVE Kept
    <2>1. stage' # "returned" /\ stage' # "read"
      BY <1>3, Zenon
    <2>2. QED
      BY <1>3, <2>1, Zenon DEF AnsweredParts
  <1>4. ASSUME NEW m \in Messages, NEW r \in Routes, Send(m, r) PROVE Kept
    <2>1. stage' = "sent"
      BY <1>4, Zenon DEF Send
    <2>2. stage' \notin Answering
      BY <2>1, Zenon
    <2>3. QED
      BY <1>3, <2>2, Zenon
  <1>5. CASE Decode
    <2>1. stage' = "decoded"
      BY <1>5, Zenon DEF Decode
    <2>2. stage' \notin Answering
      BY <2>1, Zenon
    <2>3. QED
      BY <1>3, <2>2, Zenon
  <1>6. CASE Answer
    <2>1. /\ message.kind \in Requests /\ message' = message
          /\ stage' = IF Given(ServerAnswer(frame)) THEN "answered" ELSE "silent"
      BY <1>6, Zenon DEF Answer
    <2>2. stage' # "returned" /\ stage' # "read"
      BY <2>1, Zenon
    <2>3. QED
      BY <2>1, <2>2, Zenon DEF AnsweredParts
  <1>7. CASE Read
    <2>1. /\ stage = "returned" /\ stage' = "read" /\ message' = message /\ cut' = cut
          /\ (message.kind = "read multiple" => result' = parse_read_property_multiple_ack(frame))
      BY <1>7, Zenon DEF Read
    <2>2. stage' # "returned" /\ stage # "idle"
      BY <2>1, Zenon
    <2>3. message'.kind \in Requests
      BY <2>1, Zenon DEF AnsweredInv
    <2>4. ASSUME SeparatesUnderWay', ~cut' PROVE Gives(result, ServedReports(message))'
      <3> DEFINE R == ServedReports(message)
      <3>1. SeparatesUnderWay
        BY <2>1, <2>2, <2>4, Zenon DEF SeparatesUnderWay
      <3>2. frame.network_message = None /\ WholeAnswer(frame.payload, R)
        BY <2>1, <2>4, <3>1, Zenon DEF AnsweredInv, AnsweredParts
      <3>3. Gives(parse_read_property_multiple_ack(frame), R)
        BY <3>2, WholeGives, Zenon
      <3>4. Gives(result', R)
        BY <2>1, <3>1, <3>3, Zenon DEF SeparatesUnderWay
      <3>5. ServedReports(message)' = R
        BY <2>1
      <3>6. QED
        BY <3>4, <3>5, Zenon
    <2>5. QED
      BY <2>2, <2>3, <2>4, Zenon DEF AnsweredParts
  <1>8. CASE Finish
    <2>1. stage' = "idle"
      BY <1>8, Zenon DEF Finish
    <2>2. stage' \notin Answering
      BY <2>1, Zenon
    <2>3. QED
      BY <1>3, <2>2, Zenon
  <1>9. CASE UNCHANGED wireVars
    <2>1. /\ stage' = stage /\ message' = message /\ cut' = cut
          /\ frame' = frame /\ result' = result
      BY <1>9 DEF wireVars
    <2>2. ServedReports(message)' = ServedReports(message)
      BY <2>1
    <2>3. SeparatesUnderWay' <=> SeparatesUnderWay
      BY <2>1, Zenon DEF SeparatesUnderWay
    <2>4. AnsweredParts' <=> AnsweredParts
      BY <2>1, <2>2, Zenon DEF AnsweredParts
    <2>5. QED
      BY <2>1, <2>3, <2>4, Zenon DEF AnsweredInv
  <1>10. QED
    BY <1>4, <1>5, <1>6, <1>7, <1>8, <1>9, Zenon DEF WireNext

\* A ReadProperty of a whole property of a listed object, not refused.
LEMMA WholeServed ==
    ASSUME NEW id, NEW o, NEW property, Listed(o), <<o, property>> \notin Peer.refused
    PROVE  LET s == Served([id |-> id, p |-> [object |-> o, property |-> property, array_index |-> None]])
           IN  (IF Given(s.value) THEN [value |-> s.value[1]] ELSE [error |-> s.error[1]])
                 = IF <<o, property>> \in DOMAIN Peer.served
                   THEN [value |-> FlattenSeq(Peer.served[o, property])] ELSE [error |-> <<2, 32>>]
  <1> DEFINE m == [id |-> id, p |-> [object |-> o, property |-> property, array_index |-> None]]
             p == m.p
             key == <<p.object, p.property>>
             none == [value |-> None, error |-> None, abort |-> None, id |-> Some(m.id)]
  <1>1. p.object = o /\ p.property = property /\ p.array_index = None /\ key = <<o, property>>
    OBVIOUS
  <1>2. ~Given(p.array_index)
    BY <1>1, Zenon DEF Given
  <1>3. \E k \in DOMAIN Peer.served : k[1] = p.object
    BY <1>1, Zenon DEF Listed
  <1> HIDE DEF p, m
  <1>4. CASE <<o, property>> \in DOMAIN Peer.served
    <2> DEFINE v == FlattenSeq(Peer.served[key])
    <2>1. Served(m) = [none EXCEPT !.value = Some(v)]
      BY <1>1, <1>2, <1>3, <1>4, Zenon DEF Served, p
    <2>2. Peer.served[key] = Peer.served[o, property]
      BY <1>1, Zenon
    <2> HIDE DEF v
    <2>3. Served(m).value = Some(v)
      BY ONLY <2>1
    <2>4. Given(Some(v)) /\ Some(v)[1] = v
      BY ONLY DEF Given, None, Some
    <2>5. QED
      BY <1>4, <2>2, <2>3, <2>4, Zenon DEF m, v
  <1>5. CASE <<o, property>> \notin DOMAIN Peer.served
    <2>1. Served(m) = [none EXCEPT !.error = Some(<<2, 32>>)]
      BY <1>1, <1>2, <1>3, <1>5, Zenon DEF Served, p
    <2>2. Served(m).value = None /\ Served(m).error = Some(<<2, 32>>)
      BY ONLY <2>1
    <2>3. ~Given(None) /\ Some(<<2, 32>>)[1] = <<2, 32>>
      BY ONLY DEF Given, None, Some
    <2>4. QED
      BY <1>5, <2>2, <2>3, Zenon DEF m
  <1>6. QED
    BY <1>4, <1>5

\* Of whole properties of listed objects, none refused, the server's
\* ReadPropertyMultiple-ACK says what a ReadProperty of each would.
LEMMA EachAnswered ==
    ASSUME NEW m, WholeProperties(m.p.specs)
    PROVE  AnsweredMultiple(m) = ServedEach(m)
  <1> DEFINE specs == m.p.specs
             answered(spec) == {<<spec.object, spec.references[k].property, None>> : k \in 1..Len(spec.references)}
             asked(spec) == {<<spec.object, spec.references[k].property, spec.references[k].array_index>> :
                                k \in 1..Len(spec.references)}
             keys == UNION {answered(specs[i]) : i \in 1..Len(specs)}
             says(key) == IF <<key[1], key[2]>> \in DOMAIN Peer.served
                          THEN [value |-> FlattenSeq(Peer.served[key[1], key[2]])] ELSE [error |-> <<2, 32>>]
             single(key) == Served([id |-> m.id, p |-> [object |-> key[1], property |-> key[2],
                                                        array_index |-> key[3]]])
             brings(key) == IF Given(single(key).value) THEN [value |-> single(key).value[1]]
                            ELSE [error |-> single(key).error[1]]
  <1>1. AnsweredMultiple(m) = [key \in keys |-> says(key)]
    BY Zenon DEF AnsweredMultiple
  <1>2. ServedEach(m) = [key \in UNION {asked(specs[i]) : i \in 1..Len(specs)} |-> brings(key)]
    BY Zenon DEF ServedEach
  <1>3. ASSUME NEW i \in 1..Len(specs) PROVE asked(specs[i]) = answered(specs[i])
    <2>1. \A k \in 1..Len(specs[i].references) : specs[i].references[k].array_index = None
      BY Zenon DEF WholeProperties
    <2>2. QED
      BY <2>1, Zenon
  <1>4. UNION {asked(specs[i]) : i \in 1..Len(specs)} = keys
    <2> HIDE DEF asked, answered, specs
    <2>1. QED
      BY <1>3, Zenon
  <1>5. ASSUME NEW key \in keys PROVE says(key) = brings(key)
    <2>0. PICK i \in 1..Len(specs) : key \in answered(specs[i])
      BY Zenon
    <2>1. PICK k \in 1..Len(specs[i].references) :
            key = <<specs[i].object, specs[i].references[k].property, None>>
      BY <2>0, Zenon
    <2> DEFINE o == specs[i].object
               property == specs[i].references[k].property
               q == [id |-> m.id, p |-> [object |-> o, property |-> property, array_index |-> None]]
    <2>2. Listed(o) /\ <<o, property>> \notin Peer.refused
      BY <2>1, Zenon DEF WholeProperties
    <2> HIDE DEF o, property
    <2>3. key[1] = o /\ key[2] = property /\ key[3] = None
      BY <2>1, Zenon DEF o, property
    <2>4. single(key) = Served(q)
      BY <2>3, Zenon
    <2>5. says(key) = IF <<o, property>> \in DOMAIN Peer.served
                      THEN [value |-> FlattenSeq(Peer.served[o, property])] ELSE [error |-> <<2, 32>>]
      BY <2>3, Zenon
    <2>6. brings(key) = IF Given(Served(q).value) THEN [value |-> Served(q).value[1]]
                        ELSE [error |-> Served(q).error[1]]
      BY <2>4, Zenon
    <2>7. (IF Given(Served(q).value) THEN [value |-> Served(q).value[1]] ELSE [error |-> Served(q).error[1]])
            = IF <<o, property>> \in DOMAIN Peer.served
              THEN [value |-> FlattenSeq(Peer.served[o, property])] ELSE [error |-> <<2, 32>>]
      BY <2>2, WholeServed, Zenon
    <2> HIDE DEF q, says, brings
    <2>8. QED
      BY <2>5, <2>6, <2>7, Zenon
  <1> HIDE DEF keys, says, brings, asked, specs
  <1>6. QED
    BY <1>1, <1>2, <1>4, <1>5, Zenon

\* peer.py: a client reads from the simulated server what the test put there, for every
\* ReadProperty, Who-Is and ReadPropertyMultiple whose answer arrives whole, however it is
\* addressed and carried: of a ReadPropertyMultiple of whole properties every one of every
\* object it lists, with its value or the error for what is not there, and nothing else.
THEOREM ReadsWhatIsServedHolds == WireSpec => []ReadsWhatIsServed
  <1>1. WireInit => AnsweredInv
    <2>1. SUFFICES ASSUME WireInit PROVE AnsweredInv
      OBVIOUS
    <2>2. stage = "idle"
      BY <2>1, Zenon DEF WireInit
    <2>3. SeveralInv
      BY <2>1, <2>2, WireInvInit, Zenon DEF SeveralInv, SeveralUnderWay
    <2>4. stage \notin {"answered", "silent", "returned", "read"}
      BY <2>2, Zenon
    <2>5. QED
      BY <2>2, <2>3, <2>4, Zenon DEF AnsweredInv, SeparatesUnderWay
  <1>2. AnsweredInv /\ [WireNext]_wireVars => AnsweredInv'
    BY AnsweredInvReceive, AnsweredInvOthers
  <1>3. AnsweredInv /\ (SingleUnderWay => ReadsWhatIsServed) => ReadsWhatIsServed
    <2>1. SUFFICES ASSUME AnsweredInv, SingleUnderWay => ReadsWhatIsServed PROVE ReadsWhatIsServed
      OBVIOUS
    <2>2. CASE SingleUnderWay
      BY <2>1, <2>2, Zenon
    <2>3. CASE ~SingleUnderWay
      <3>1. stage \in {"answered", "silent", "returned", "read"} => message.kind = "read multiple"
        <4>1. \A kind \in Requests : kind \in Singles \/ kind = "read multiple"
          BY Zenon DEF Requests, Singles
        <4>2. stage \in {"answered", "silent", "returned", "read"} => stage # "idle" /\ message.kind \in Requests
          BY <2>1, Zenon DEF AnsweredInv
        <4>3. QED
          BY <2>3, <4>1, <4>2, Zenon DEF SingleUnderWay
      <3>2. "read multiple" # "who-is" /\ "read multiple" # "read"
        BY Zenon
      <3>3. ASSUME stage = "read", ~cut
            PROVE  /\ message.kind = "read multiple"
                   /\ WholeProperties(message.p.specs) => result = Some(ServedEach(message))
        <4>1. message.kind = "read multiple" /\ stage # "idle"
          BY <3>1, <3>3, Zenon
        <4>2. ASSUME WholeProperties(message.p.specs) PROVE result = Some(ServedEach(message))
          <5>1. SeparatesUnderWay
            BY <4>1, <4>2, Zenon DEF WholeProperties, SeparatesUnderWay
          <5>2. Gives(result, ServedReports(message))
            BY <2>1, <3>3, <5>1, Zenon DEF AnsweredInv, AnsweredParts
          <5>3. result = Some(AnsweredMultiple(message))
            BY <5>2, GivesServed, Zenon
          <5>4. AnsweredMultiple(message) = ServedEach(message)
            BY <4>2, EachAnswered, Zenon
          <5>5. QED
            BY <5>3, <5>4, Zenon
        <4>3. QED
          BY <4>1, <4>2, Zenon
      <3>4. stage \in {"silent", "answered"} => message.kind # "who-is"
        BY <3>1, <3>2, Zenon
      <3>5. ASSUME stage = "read", ~cut
            PROVE  CASE message.kind = "read" -> result = Served(message)
                     [] message.kind = "read multiple" ->
                          WholeProperties(message.p.specs) => result = Some(ServedEach(message))
                     [] message.kind = "who-is" -> result = Some(Peer.instance)
        BY <3>2, <3>3, <3>5, Zenon
      <3>6. QED
        BY <3>4, <3>5, Zenon DEF ReadsWhatIsServed
    <2>4. QED
      BY <2>2, <2>3, Zenon
  <1>4. QED
    BY <1>1, <1>2, <1>3, SinglesReadWhatIsServed, PTL DEF WireSpec
=============================================================================
