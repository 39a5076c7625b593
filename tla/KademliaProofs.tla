--------------------------- MODULE KademliaProofs ---------------------------
(* Proofs about module Kademlia, for every length of the IDs, bucket size, *)
(* number of nodes asked at once and number of nodes.                      *)
EXTENDS Kademlia, FiniteSetTheorems, SequenceTheorems, WellFoundedInduction, TLAPS

(* The history holds a node once.                                          *)
Distinct(s) == \A i, j \in 1 .. Len(s) : s[i] = s[j] => i = j

(* What the results that are not merged yet tell: who failed, and who else *)
(* there is.                                                               *)
Failed(rs) == {rs[i].from : i \in {j \in 1 .. Len(rs) : rs[j].err}}

Told(rs) == UNION {rs[i].contacts \ {Local} : i \in 1 .. Len(rs)}

(* A node that was asked is in one state: it is awaited, it has answered,  *)
(* or it has failed; and only the last, once merged, is out of             *)
(* closestList.                                                            *)
SearchInv ==
  /\ pc # "querying" => waiting = {} /\ results = << >>
  /\ heard = closestMap \cup Told(results)
  /\ closestList = (closestMap \ queried) \cup waiting \cup answered \cup Failed(results)
  /\ waiting \cap answered = {}
  /\ \A i \in 1 .. Len(results) :
       /\ results[i].from \in queried \ waiting
       /\ results[i].err => results[i].from \notin answered
       /\ \A j \in 1 .. Len(results) : results[i].from = results[j].from => i = j

-----------------------------------------------------------------------------
(* Sequences *)

(* What the constants are.                                                 *)
LEMMA ConstantFacts ==
  /\ Bits \in Nat /\ K \in Nat /\ Alpha \in Nat /\ Bits > 0 /\ K > 0 /\ Alpha > 0
  /\ Local \in IDs /\ Local \notin Nodes /\ Nodes \subseteq IDs /\ IsFiniteSet(Nodes)
  /\ Senders \subseteq Nodes \cup {Local}
<1>1. \A n \in {Bits, K, Alpha} : n \in Nat /\ n > 0
  BY KademliaAssumption
<1> QED
  BY <1>1, KademliaAssumption

(* The elements of a sequence are of its type.                             *)
LEMMA ElemsType == ASSUME NEW S, NEW s \in Seq(S) PROVE Elems(s) \subseteq S
  BY ElementOfSeq DEF Elems

(* Taking a contact out of a sequence keeps the others and their order.    *)
LEMMA WithoutFacts ==
  ASSUME NEW s \in Seq(Nodes), Distinct(s), NEW a
  PROVE  /\ Without(s, a) \in Seq(Nodes) /\ Elems(Without(s, a)) = Elems(s) \ {a} /\ Distinct(Without(s, a))
         /\ Len(Without(s, a)) = IF a \in Elems(s) THEN Len(s) - 1 ELSE Len(s)
         /\ \A b, c : b # a /\ c # a /\ Before(s, b, c) => Before(Without(s, a), b, c)
         /\ \A j, k \in 1 .. Len(Without(s, a)) :
              j < k => Before(s, Without(s, a)[j], Without(s, a)[k])
<1>a. Len(s) \in Nat /\ \A i \in 1 .. Len(s) : s[i] \in Nodes
  BY LenProperties, ElementOfSeq
<1>1. CASE a \notin Elems(s)
  BY <1>1, <1>a DEF Without, Before
<1>2. CASE a \in Elems(s)
  <2> DEFINE n == Len(s)
             x == existsIdx(s, a)
             w == Without(s, a)
  <2>1. x \in 1 .. n /\ s[x] = a
    BY <1>2 DEF existsIdx, Elems
  <2>2. w = SubSeq(s, 1, x - 1) \o SubSeq(s, x + 1, n)
    BY <1>2 DEF Without
  <2> HIDE DEF x, w
  <2>3. /\ SubSeq(s, 1, x - 1) \in Seq(Nodes) /\ Len(SubSeq(s, 1, x - 1)) = x - 1
        /\ \A i \in 1 .. x - 1 : SubSeq(s, 1, x - 1)[i] = s[i]
    BY <1>a, <2>1
  <2>4. /\ SubSeq(s, x + 1, n) \in Seq(Nodes) /\ Len(SubSeq(s, x + 1, n)) = n - x
        /\ \A i \in 1 .. n - x : SubSeq(s, x + 1, n)[i] = s[x + i]
    BY <1>a, <2>1
  <2>5. /\ w \in Seq(Nodes) /\ Len(w) = n - 1
        /\ \A i \in 1 .. n - 1 : w[i] = IF i < x THEN s[i] ELSE s[i + 1]
    <3> DEFINE u == SubSeq(s, 1, x - 1)
               v == SubSeq(s, x + 1, n)
    <3>1. /\ u \in Seq(Nodes) /\ v \in Seq(Nodes) /\ Len(u) = x - 1 /\ Len(v) = n - x /\ w = u \o v
          /\ \A i \in 1 .. x - 1 : u[i] = s[i]
          /\ \A i \in 1 .. n - x : v[i] = s[x + i]
      BY <2>2, <2>3, <2>4
    <3> HIDE DEF u, v
    <3>2. /\ w \in Seq(Nodes) /\ Len(w) = Len(u) + Len(v)
          /\ \A i \in 1 .. Len(u) + Len(v) : w[i] = IF i <= Len(u) THEN u[i] ELSE v[i - Len(u)]
      BY <3>1, ConcatProperties
    <3>3. Len(w) = n - 1
      BY <3>1, <3>2, <1>a, <2>1
    <3>4. ASSUME NEW i \in 1 .. n - 1 PROVE w[i] = IF i < x THEN s[i] ELSE s[i + 1]
      <4>1. i \in 1 .. Len(u) + Len(v) /\ (i < x <=> i <= Len(u))
        BY <3>1, <1>a, <2>1
      <4>2. CASE i < x
        BY <3>1, <3>2, <4>1, <4>2, <1>a, <2>1
      <4>3. CASE ~(i < x)
        <5>1. i - Len(u) \in 1 .. n - x /\ x + (i - Len(u)) = i + 1
          BY <3>1, <4>3, <1>a, <2>1
        <5> QED
          BY <3>1, <3>2, <4>1, <4>3, <5>1
      <4> QED
        BY <4>2, <4>3
    <3> QED
      BY <3>2, <3>3, <3>4
  <2> DEFINE old(i) == IF i < x THEN i ELSE i + 1
  <2>6. \A i \in 1 .. Len(w) : old(i) \in 1 .. n /\ old(i) # x /\ w[i] = s[old(i)]
    BY <1>a, <2>1, <2>5
  <2>7. \A i, j \in 1 .. Len(w) : (i < j => old(i) < old(j)) /\ (old(i) = old(j) => i = j)
    BY <1>a, <2>1, <2>5
  <2>8. \A k \in 1 .. n : k # x => \E i \in 1 .. Len(w) : old(i) = k
    <3> TAKE k \in 1 .. n
    <3> HAVE k # x
    <3>1. CASE k < x
      <4>1. k \in 1 .. Len(w)
        BY <1>a, <2>1, <2>5, <3>1
      <4> QED
        BY <3>1, <4>1
    <3>2. CASE k > x
      <4>1. k - 1 \in 1 .. Len(w) /\ ~(k - 1 < x) /\ (k - 1) + 1 = k
        BY <1>a, <2>1, <2>5, <3>2
      <4> QED
        BY <4>1
    <3> QED
      BY <1>a, <2>1, <3>1, <3>2
  <2>9. \A i, j \in 1 .. Len(w) : old(i) < old(j) => i < j
    BY <1>a, <2>1, <2>5
  <2> HIDE DEF old
  <2>10. \A k \in 1 .. n : s[k] = a <=> k = x
    BY <2>1 DEF Distinct
  <2>11. Elems(w) = Elems(s) \ {a}
    <3>1. ASSUME NEW i \in 1 .. Len(w) PROVE w[i] \in Elems(s) \ {a}
      BY <2>6, <2>10 DEF Elems
    <3>2. ASSUME NEW k \in 1 .. n, s[k] # a PROVE s[k] \in Elems(w)
      BY <2>6, <2>8, <2>10, <3>2 DEF Elems
    <3> QED
      BY <3>1, <3>2 DEF Elems
  <2>12. Distinct(w)
    BY <2>6, <2>7 DEF Distinct
  <2>13. ASSUME NEW b, NEW c, b # a, c # a, Before(s, b, c) PROVE Before(w, b, c)
    <3>1. PICK i \in 1 .. n, j \in 1 .. n : i < j /\ s[i] = b /\ s[j] = c
      BY <2>13 DEF Before
    <3>2. PICK ii \in 1 .. Len(w), jj \in 1 .. Len(w) : old(ii) = i /\ old(jj) = j
      BY <2>8, <2>10, <2>13, <3>1
    <3> QED
      BY <2>6, <2>9, <3>1, <3>2 DEF Before
  <2>14. \A j, k \in 1 .. Len(w) : j < k => Before(s, w[j], w[k])
    BY <2>6, <2>7 DEF Before
  <2> QED
    BY <1>2, <2>5, <2>11, <2>12, <2>13, <2>14 DEF w
<1> QED
  BY <1>1, <1>2

(* A contact at the end comes after all others.                            *)
LEMMA AppendFacts ==
  ASSUME NEW s \in Seq(Nodes), NEW a \in Nodes, Distinct(s), a \notin Elems(s), NEW r, r = Append(s, a)
  PROVE  /\ r \in Seq(Nodes) /\ Elems(r) = Elems(s) \cup {a} /\ Distinct(r)
         /\ Len(r) = Len(s) + 1
         /\ \A b, c : Before(s, b, c) => Before(r, b, c)
         /\ \A b \in Elems(s) : Before(r, b, a)
<1> DEFINE n == Len(s) + 1
<1>1. /\ r \in Seq(Nodes) /\ Len(r) = Len(s) + 1 /\ Len(s) \in Nat
      /\ \A i \in 1 .. Len(s) : r[i] = s[i]
      /\ r[Len(s) + 1] = a
  BY AppendProperties, LenProperties
<1>2. /\ \A i : i \in 1 .. Len(r) <=> i \in 1 .. Len(s) \/ i = n
      /\ \A i \in 1 .. Len(s) : i < n /\ ~(n < i) /\ i # n
      /\ ~(n < n)
  BY <1>1
<1>3. Len(r) = n /\ r[n] = a
  BY <1>1
<1> HIDE DEF n
<1>4. Elems(r) = Elems(s) \cup {a}
  BY <1>1, <1>2, <1>3 DEF Elems
<1>5. Distinct(r)
  BY <1>1, <1>2, <1>3 DEF Distinct, Elems
<1>6. \A b, c : Before(s, b, c) => Before(r, b, c)
  BY <1>1, <1>2 DEF Before
<1>7. \A b \in Elems(s) : Before(r, b, a)
  BY <1>1, <1>2, <1>3 DEF Before, Elems
<1> QED
  BY <1>1, <1>4, <1>5, <1>6, <1>7

(* Evicting the first contact of a bucket.                                 *)
LEMMA TailFacts ==
  ASSUME NEW s \in Seq(Nodes), Distinct(s), s # << >>, NEW r, r = Tail(s)
  PROVE  /\ r \in Seq(Nodes) /\ Elems(r) \subseteq Elems(s) /\ Distinct(r)
         /\ Len(r) = Len(s) - 1 /\ Len(s) > 0
         /\ s[1] \in Elems(s) /\ Elems(s) \subseteq Elems(r) \cup {s[1]}
         /\ \A c \in Elems(r) : Before(s, s[1], c)
         /\ \A j, k \in 1 .. Len(r) : j < k => Before(s, r[j], r[k])
<1>1. /\ r \in Seq(Nodes) /\ Len(r) = Len(s) - 1 /\ Len(s) \in Nat /\ Len(s) > 0
      /\ \A i \in 1 .. Len(r) : r[i] = s[i + 1]
  BY HeadTailProperties, LenProperties, EmptySeq
<1>2. /\ \A i \in 1 .. Len(r) : i + 1 \in 1 .. Len(s) /\ 1 < i + 1
      /\ \A i, j \in 1 .. Len(r) : (i + 1 = j + 1 => i = j) /\ (i < j => i + 1 < j + 1)
      /\ 1 \in 1 .. Len(s)
      /\ \A i \in 1 .. Len(s) : i = 1 \/ (i - 1 \in 1 .. Len(r) /\ (i - 1) + 1 = i)
  BY <1>1
<1>3. Elems(r) \subseteq Elems(s) /\ Distinct(r)
  BY <1>1, <1>2 DEF Elems, Distinct
<1>4. s[1] \in Elems(s) /\ Elems(s) \subseteq Elems(r) \cup {s[1]}
  <2>1. s[1] \in Elems(s)
    BY <1>2 DEF Elems
  <2>2. ASSUME NEW i \in 1 .. Len(s), i # 1 PROVE s[i] \in Elems(r)
    <3>1. i - 1 \in 1 .. Len(r) /\ (i - 1) + 1 = i
      BY <1>2, <2>2
    <3>2. r[i - 1] = s[i]
      BY <1>1, <3>1
    <3> QED
      BY <3>1, <3>2 DEF Elems
  <2> QED
    BY <2>1, <2>2 DEF Elems
<1>5. \A c \in Elems(r) : Before(s, s[1], c)
  BY <1>1, <1>2 DEF Elems, Before
<1>6. ASSUME NEW j \in 1 .. Len(r), NEW k \in 1 .. Len(r), j < k PROVE Before(s, r[j], r[k])
  <2>1. j + 1 \in 1 .. Len(s) /\ k + 1 \in 1 .. Len(s) /\ j + 1 < k + 1
    BY <1>2, <1>6
  <2>2. r[j] = s[j + 1] /\ r[k] = s[k + 1]
    BY <1>1
  <2> QED
    BY <2>1, <2>2 DEF Before
<1> QED
  BY <1>1, <1>3, <1>4, <1>5, <1>6

-----------------------------------------------------------------------------
(* The routing table *)

(* BucketsHoldMostRecent for one bucket.                                   *)
HoldsMostRecent(bucket, seen, i) ==
  LET mine == {a \in Elems(seen) : commonPrefixLength(Local, a) = i}
  IN /\ Elems(bucket) \subseteq mine /\ Len(bucket) <= K
     /\ \A j, k \in 1 .. Len(bucket) : j < k => Before(seen, bucket[j], bucket[k])
     /\ \A a \in mine \ Elems(bucket) :
          Len(bucket) = K /\ \A b \in Elems(bucket) : Before(seen, a, b)

TableInv ==
  /\ buckets \in [Indices -> Seq(Nodes)] /\ recent \in Seq(Nodes)
  /\ Distinct(recent)
  /\ \A i \in Indices : HoldsMostRecent(buckets[i], recent, i)

(* Every node has a bucket.                                                *)
LEMMA PrefixType == \A a : commonPrefixLength(Local, a) \in Indices
<1> SUFFICES ASSUME NEW a PROVE commonPrefixLength(Local, a) \in Indices
  OBVIOUS
<1> DEFINE Same == {i \in 1 .. Bits : \A j \in 1 .. i : Local[j] = a[j]}
<1>1. IsFiniteSet(1 .. Bits)
  BY FS_Interval, ConstantFacts
<1>2. Same \in SUBSET (1 .. Bits)
  OBVIOUS
<1> HIDE DEF Same
<1>3. Cardinality(Same) \in Nat
  BY <1>1, <1>2, FS_Subset, FS_CardinalityType
<1>4. (IF Cardinality(Same) > Bits - 1 THEN Bits - 1 ELSE Cardinality(Same)) \in Indices
  BY <1>3, ConstantFacts DEF Indices
<1> QED
  BY <1>4 DEF commonPrefixLength, Same

(* Nobody comes before itself.                                             *)
LEMMA BeforeIrreflexive == ASSUME NEW s, Distinct(s), Len(s) \in Nat, NEW a PROVE ~Before(s, a, a)
  BY DEF Before, Distinct

(* A sequence in the order of another one.                                 *)
LEMMA SameOrder ==
  ASSUME NEW s, NEW t, \A j, k \in 1 .. Len(s) : j < k => Before(t, s[j], s[k])
  PROVE  \A b, c : Before(s, b, c) => Before(t, b, c)
<1> SUFFICES ASSUME NEW b, NEW c, Before(s, b, c) PROVE Before(t, b, c)
  OBVIOUS
<1>1. PICK j \in 1 .. Len(s), k \in 1 .. Len(s) : j < k /\ s[j] = b /\ s[k] = c
  BY DEF Before
<1> QED
  BY <1>1

(* A node that is seen moves to the end of the history.                    *)
LEMMA SeenLast ==
  ASSUME NEW s \in Seq(Nodes), Distinct(s), NEW a \in Nodes
  PROVE  LET r == Append(Without(s, a), a)
         IN /\ r \in Seq(Nodes) /\ Distinct(r) /\ Elems(r) = Elems(s) \cup {a}
            /\ \A b, c : b # a /\ c # a /\ Before(s, b, c) => Before(r, b, c)
            /\ \A b \in Elems(s) : b # a => Before(r, b, a)
<1> DEFINE w == Without(s, a)
<1>1. /\ w \in Seq(Nodes) /\ Elems(w) = Elems(s) \ {a} /\ Distinct(w)
      /\ \A b, c : b # a /\ c # a /\ Before(s, b, c) => Before(w, b, c)
  BY WithoutFacts
<1> HIDE DEF w
<1>2. a \notin Elems(w)
  BY <1>1
<1>3. /\ Append(w, a) \in Seq(Nodes) /\ Elems(Append(w, a)) = Elems(w) \cup {a} /\ Distinct(Append(w, a))
      /\ \A b, c : Before(w, b, c) => Before(Append(w, a), b, c)
      /\ \A b \in Elems(w) : Before(Append(w, a), b, a)
  BY <1>1, <1>2, AppendFacts
<1>4. Elems(Append(w, a)) = Elems(s) \cup {a}
  BY <1>1, <1>3
<1> QED
  BY <1>1, <1>3, <1>4 DEF w

(* Which contacts a bucket holds after AddContact, and in which order.     *)
LEMMA BucketStep ==
  ASSUME NEW bucket \in Seq(Nodes), NEW seen \in Seq(Nodes), Distinct(seen), NEW a \in Nodes,
         NEW i, commonPrefixLength(Local, a) = i, HoldsMostRecent(bucket, seen, i),
         NEW rest, rest = Without(bucket, a),
         NEW kept, kept = IF a \notin Elems(bucket) /\ Len(rest) >= K THEN Tail(rest) ELSE rest,
         NEW seen2, seen2 = Append(Without(seen, a), a)
  PROVE  Append(kept, a) \in Seq(Nodes) /\ HoldsMostRecent(Append(kept, a), seen2, i)
<1> DEFINE mine == {b \in Elems(seen) : commonPrefixLength(Local, b) = i}
           mine2 == {b \in Elems(seen2) : commonPrefixLength(Local, b) = i}
<1>a. /\ Elems(bucket) \subseteq mine /\ Len(bucket) <= K
      /\ \A j, k \in 1 .. Len(bucket) : j < k => Before(seen, bucket[j], bucket[k])
      /\ \A b \in mine \ Elems(bucket) : Len(bucket) = K /\ \A c \in Elems(bucket) : Before(seen, b, c)
  BY DEF HoldsMostRecent
<1>b. Len(seen) \in Nat /\ Len(bucket) \in Nat /\ K \in Nat /\ K > 0
  BY LenProperties, ConstantFacts
<1>1. /\ seen2 \in Seq(Nodes) /\ Elems(seen2) = Elems(seen) \cup {a}
      /\ \A b, c : b # a /\ c # a /\ Before(seen, b, c) => Before(seen2, b, c)
      /\ \A b \in Elems(seen) : b # a => Before(seen2, b, a)
  BY SeenLast
<1>2. Distinct(bucket)
  <2>1. \A j, k \in 1 .. Len(bucket) : j < k => bucket[j] # bucket[k]
    BY <1>a, <1>b, BeforeIrreflexive
  <2> QED
    BY <1>b, <2>1 DEF Distinct
<1>3. mine2 = mine \cup {a}
  BY <1>1
<1>4. /\ rest \in Seq(Nodes) /\ Elems(rest) = Elems(bucket) \ {a} /\ Distinct(rest)
      /\ Len(rest) = IF a \in Elems(bucket) THEN Len(bucket) - 1 ELSE Len(bucket)
      /\ \A j, k \in 1 .. Len(rest) : j < k => Before(bucket, rest[j], rest[k])
  BY <1>2, WithoutFacts
<1> HIDE DEF mine, mine2
<1>5. \A b, c : Before(bucket, b, c) => Before(seen, b, c)
  BY <1>a, SameOrder
<1>6. /\ kept \in Seq(Nodes) /\ Distinct(kept) /\ Elems(kept) \subseteq Elems(bucket) \ {a}
      /\ Len(kept) + 1 <= K
      /\ \A j, k \in 1 .. Len(kept) : j < k => Before(bucket, kept[j], kept[k])
      /\ \A b \in mine2 \ (Elems(kept) \cup {a}) :
           Len(kept) + 1 = K /\ b \in mine /\ b # a /\ \A c \in Elems(kept) : Before(seen, b, c)
  <2>1. CASE a \in Elems(bucket)
    <3>1. kept = rest /\ Len(rest) = Len(bucket) - 1
      BY <2>1, <1>4
    <3>2. \A b \in mine2 \ (Elems(kept) \cup {a}) : b \in mine \ Elems(bucket) /\ b # a
      BY <1>3, <1>4, <3>1
    <3>3. Len(kept) + 1 = Len(bucket)
      BY <1>b, <3>1
    <3>4. \A b \in mine2 \ (Elems(kept) \cup {a}) :
            Len(kept) + 1 = K /\ b \in mine /\ b # a /\ \A c \in Elems(kept) : Before(seen, b, c)
      BY <1>a, <1>4, <3>1, <3>2, <3>3
    <3> QED
      BY <1>a, <1>4, <3>1, <3>3, <3>4
  <2>2. CASE a \notin Elems(bucket) /\ Len(rest) < K
    <3>1. kept = rest /\ Len(rest) = Len(bucket) /\ Elems(rest) = Elems(bucket)
      BY <2>2, <1>b, <1>4
    <3>2. mine \ Elems(bucket) = {}
      BY <1>a, <1>b, <2>2, <3>1
    <3>3. mine2 \ (Elems(kept) \cup {a}) = {}
      BY <1>3, <3>1, <3>2
    <3> QED
      BY <1>b, <1>4, <2>2, <3>1, <3>3
  <2>3. CASE a \notin Elems(bucket) /\ Len(rest) >= K
    <3>1. kept = Tail(rest) /\ Len(rest) = Len(bucket) /\ Elems(rest) = Elems(bucket) /\ Len(bucket) = K
      BY <1>a, <2>3, <1>b, <1>4
    <3>2. rest # << >>
      BY <1>b, <3>1, EmptySeq
    <3>3. /\ kept \in Seq(Nodes) /\ Elems(kept) \subseteq Elems(rest) /\ Distinct(kept)
          /\ Len(kept) = Len(rest) - 1
          /\ rest[1] \in Elems(rest) /\ Elems(rest) \subseteq Elems(kept) \cup {rest[1]}
          /\ \A c \in Elems(kept) : Before(rest, rest[1], c)
          /\ \A j, k \in 1 .. Len(kept) : j < k => Before(rest, kept[j], kept[k])
      <4>1. rest \in Seq(Nodes) /\ Distinct(rest) /\ kept = Tail(rest)
        BY <1>4, <3>1
      <4> QED
        BY <3>2, <4>1, TailFacts
    <3>4. \A b, c : Before(rest, b, c) => Before(bucket, b, c)
      BY <1>4, SameOrder
    <3>5. Len(kept) + 1 = K
      BY <1>b, <3>1, <3>3
    <3>6. ASSUME NEW b \in mine2 \ (Elems(kept) \cup {a})
          PROVE  b \in mine /\ b # a /\ \A c \in Elems(kept) : Before(seen, b, c)
      <4>1. b \in mine /\ b # a
        BY <1>3
      <4>2. CASE b = rest[1]
        BY <1>5, <3>3, <3>4, <4>1, <4>2
      <4>3. CASE b # rest[1]
        <5>1. b \in mine \ Elems(bucket)
          BY <3>1, <3>3, <4>1, <4>3
        <5> QED
          BY <1>a, <3>1, <3>3, <4>1, <5>1
      <4> QED
        BY <4>2, <4>3
    <3>7. Elems(kept) \subseteq Elems(bucket) \ {a}
      BY <2>3, <3>1, <3>3
    <3>8. Len(kept) + 1 <= K
      BY <3>5, <1>b
    <3> QED
      BY <3>3, <3>4, <3>5, <3>6, <3>7, <3>8
  <2> QED
    BY <1>b, <1>4, <2>1, <2>2, <2>3
<1>7. a \notin Elems(kept)
  BY <1>6
<1> DEFINE new == Append(kept, a)
<1>8. /\ new \in Seq(Nodes) /\ Elems(new) = Elems(kept) \cup {a} /\ Len(new) = Len(kept) + 1
      /\ \A j, k \in 1 .. Len(new) :
           j < k => \/ j \in 1 .. Len(kept) /\ k \in 1 .. Len(kept) /\ new[j] = kept[j] /\ new[k] = kept[k]
                    \/ new[j] \in Elems(kept) /\ new[k] = a
  <2>1. kept \in Seq(Nodes) /\ Distinct(kept) /\ new = Append(kept, a)
    BY <1>6
  <2> HIDE DEF new
  <2>2. new \in Seq(Nodes) /\ Elems(new) = Elems(kept) \cup {a} /\ Len(new) = Len(kept) + 1
    BY <2>1, <1>7, AppendFacts
  <2>3. ASSUME NEW j \in 1 .. Len(new), NEW k \in 1 .. Len(new), j < k
        PROVE  \/ j \in 1 .. Len(kept) /\ k \in 1 .. Len(kept) /\ new[j] = kept[j] /\ new[k] = kept[k]
               \/ new[j] \in Elems(kept) /\ new[k] = a
    <3>1. /\ Len(new) = Len(kept) + 1 /\ Len(kept) \in Nat
          /\ \A l \in 1 .. Len(kept) : new[l] = kept[l]
          /\ new[Len(kept) + 1] = a
      BY <2>1, AppendProperties, LenProperties
    <3>2. j \in 1 .. Len(kept) /\ (k \in 1 .. Len(kept) \/ k = Len(kept) + 1)
      BY <2>3, <3>1
    <3> QED
      BY <3>1, <3>2 DEF Elems
  <2> QED
    BY <2>2, <2>3
<1> HIDE DEF new
<1>9. \A c \in Elems(kept) : c # a /\ c \in Elems(seen) /\ c \in mine
  BY <1>a, <1>6 DEF mine
<1>10. Elems(new) \subseteq mine2 /\ Len(new) <= K
  BY <1>3, <1>6, <1>8, <1>9
<1>11. ASSUME NEW j \in 1 .. Len(new), NEW k \in 1 .. Len(new), j < k PROVE Before(seen2, new[j], new[k])
  <2>1. CASE j \in 1 .. Len(kept) /\ k \in 1 .. Len(kept) /\ new[j] = kept[j] /\ new[k] = kept[k]
    <3>1. kept[j] \in Elems(kept) /\ kept[k] \in Elems(kept) /\ Before(bucket, kept[j], kept[k])
      BY <1>6, <1>11, <2>1 DEF Elems
    <3> QED
      BY <1>1, <1>5, <1>9, <2>1, <3>1
  <2>2. CASE new[j] \in Elems(kept) /\ new[k] = a
    BY <1>1, <1>9, <2>2
  <2> QED
    BY <1>8, <1>11, <2>1, <2>2
<1>12. ASSUME NEW b \in mine2 \ Elems(new)
       PROVE  Len(new) = K /\ \A c \in Elems(new) : Before(seen2, b, c)
  <2>1. Len(kept) + 1 = K /\ b \in mine /\ b # a /\ \A c \in Elems(kept) : Before(seen, b, c)
    BY <1>6, <1>8
  <2>2. b \in Elems(seen)
    BY <2>1 DEF mine
  <2> QED
    BY <1>1, <1>8, <1>9, <2>1, <2>2
<1> QED
  BY <1>8, <1>10, <1>11, <1>12 DEF HoldsMostRecent, mine2, new

(* A bucket at another distance is left alone.                             *)
LEMMA OtherBucketStep ==
  ASSUME NEW bucket, NEW seen \in Seq(Nodes), Distinct(seen), NEW a \in Nodes,
         NEW i, commonPrefixLength(Local, a) # i, HoldsMostRecent(bucket, seen, i),
         NEW seen2, seen2 = Append(Without(seen, a), a)
  PROVE  HoldsMostRecent(bucket, seen2, i)
<1> DEFINE mine == {b \in Elems(seen) : commonPrefixLength(Local, b) = i}
<1>1. /\ Elems(seen2) = Elems(seen) \cup {a}
      /\ \A b, c : b # a /\ c # a /\ Before(seen, b, c) => Before(seen2, b, c)
  BY SeenLast
<1>2. mine = {b \in Elems(seen2) : commonPrefixLength(Local, b) = i} /\ a \notin mine
  BY <1>1
<1>3. /\ Elems(bucket) \subseteq mine /\ Len(bucket) <= K
      /\ \A j, k \in 1 .. Len(bucket) : j < k => Before(seen, bucket[j], bucket[k])
      /\ \A b \in mine \ Elems(bucket) : Len(bucket) = K /\ \A c \in Elems(bucket) : Before(seen, b, c)
  BY DEF HoldsMostRecent
<1> HIDE DEF mine
<1>4. \A j \in 1 .. Len(bucket) : bucket[j] \in mine
  BY <1>3 DEF Elems
<1>5. \A j, k \in 1 .. Len(bucket) : j < k => Before(seen2, bucket[j], bucket[k])
  BY <1>1, <1>2, <1>3, <1>4
<1>6. \A b \in mine \ Elems(bucket) : Len(bucket) = K /\ \A c \in Elems(bucket) : Before(seen2, b, c)
  BY <1>1, <1>2, <1>3
<1> QED
  BY <1>2, <1>3, <1>5, <1>6 DEF HoldsMostRecent

(* AddContact keeps the routing table in order.                            *)
LEMMA AddContactStep ==
  ASSUME TableInv, NEW a \in Nodes \cup {Local}, AddContact(a)
  PROVE  TableInv'
<1> DEFINE p == commonPrefixLength(Local, a)
           rest == Without(buckets[p], a)
           kept == IF a \notin Elems(buckets[p]) /\ Len(rest) >= K THEN Tail(rest) ELSE rest
           seen2 == Append(Without(recent, a), a)
<1>1. CASE a = Local
  BY <1>1 DEF AddContact, TableInv
<1>2. CASE a # Local
  <2>0. a \in Nodes
    BY <1>2
  <2>1. buckets' = [buckets EXCEPT ![p] = Append(kept, a)] /\ recent' = seen2
    BY <1>2 DEF AddContact
  <2>2. p \in Indices
    BY PrefixType
  <2>3. /\ buckets \in [Indices -> Seq(Nodes)] /\ recent \in Seq(Nodes) /\ Distinct(recent)
        /\ \A i \in Indices : HoldsMostRecent(buckets[i], recent, i)
    BY DEF TableInv
  <2>4. buckets[p] \in Seq(Nodes) /\ HoldsMostRecent(buckets[p], recent, p)
    BY <2>2, <2>3
  <2>5. Append(kept, a) \in Seq(Nodes) /\ HoldsMostRecent(Append(kept, a), seen2, p)
    BY <2>0, <2>3, <2>4, BucketStep
  <2>6. \A i \in Indices : i # p => HoldsMostRecent(buckets[i], seen2, i)
    BY <2>0, <2>3, OtherBucketStep
  <2>7. seen2 \in Seq(Nodes) /\ Distinct(seen2)
    BY <2>0, <2>3, SeenLast
  <2> HIDE DEF p, kept, seen2
  <2>8. /\ buckets' \in [Indices -> Seq(Nodes)] /\ buckets'[p] = Append(kept, a)
        /\ \A i \in Indices : i # p => buckets'[i] = buckets[i]
    BY <2>1, <2>2, <2>3, <2>5
  <2>9. \A i \in Indices : HoldsMostRecent(buckets'[i], recent', i)
    BY <2>1, <2>5, <2>6, <2>8
  <2> QED
    BY <2>1, <2>7, <2>8, <2>9 DEF TableInv
<1> QED
  BY <1>1, <1>2

-----------------------------------------------------------------------------
(* Distances *)

(* The distances are ordered: no chain of smaller ones comes back.         *)
LEMMA LessOrder ==
  ASSUME NEW d \in [1 .. Bits -> {0, 1}], NEW e \in [1 .. Bits -> {0, 1}], NEW f \in [1 .. Bits -> {0, 1}]
  PROVE  ~Less(d, d) /\ (Less(d, e) /\ Less(e, f) => Less(d, f))
<1>1. ~Less(d, d)
  BY DEF Less
<1>2. ASSUME Less(d, e), Less(e, f) PROVE Less(d, f)
  <2>1. PICK i \in 1 .. Bits : d[i] < e[i] /\ \A j \in 1 .. i - 1 : d[j] = e[j]
    BY <1>2 DEF Less
  <2>2. PICK k \in 1 .. Bits : e[k] < f[k] /\ \A j \in 1 .. k - 1 : e[j] = f[j]
    BY <1>2 DEF Less
  <2>3. CASE i < k
    <3>1. i \in 1 .. k - 1 /\ \A j \in 1 .. i - 1 : j \in 1 .. k - 1
      BY <2>3, ConstantFacts
    <3> QED
      BY <2>1, <2>2, <3>1 DEF Less
  <2>4. CASE k < i
    <3>1. k \in 1 .. i - 1 /\ \A j \in 1 .. k - 1 : j \in 1 .. i - 1
      BY <2>4, ConstantFacts
    <3> QED
      BY <2>1, <2>2, <3>1 DEF Less
  <2>5. CASE i = k
    <3>1. d[i] \in {0, 1} /\ e[i] \in {0, 1} /\ f[i] \in {0, 1}
      OBVIOUS
    <3>2. d[i] < f[i]
      BY <2>1, <2>2, <2>5, <3>1
    <3> QED
      BY <2>1, <2>2, <2>5, <3>2 DEF Less
  <2> QED
    BY <2>3, <2>4, <2>5, ConstantFacts
<1> QED
  BY <1>1, <1>2

(* A distance is a string of bits.                                         *)
LEMMA DistanceType == \A a, b : xorDistance(a, b) \in [1 .. Bits -> {0, 1}]
  BY DEF xorDistance

(* Some node of a nonempty set is among the closest: one such that the set *)
(* of nearer nodes is minimal.                                             *)
LEMMA SomeClosest ==
  ASSUME NEW S, IsFiniteSet(S), S # {}, NEW t, NEW n \in Nat, n > 0
  PROVE  Closest(S, t, n) # {}
<1> DEFINE Dist(a) == xorDistance(a, t)
           Nearer(a) == {b \in S : Less(Dist(b), Dist(a))}
           Sets == {Nearer(a) : a \in S}
<1>1. ASSUME NEW a \in S, NEW b \in Nearer(a)
      PROVE  b \in S /\ Nearer(b) \subseteq Nearer(a) /\ Nearer(b) # Nearer(a)
  <2>1. b \in S /\ Less(Dist(b), Dist(a))
    BY <1>1
  <2>2. ASSUME NEW c \in S, Less(Dist(c), Dist(b)) PROVE Less(Dist(c), Dist(a))
    <3>1. \A d : Dist(d) \in [1 .. Bits -> {0, 1}]
      BY DistanceType
    <3> HIDE DEF Dist
    <3> QED
      BY <2>1, <2>2, <3>1, LessOrder
  <2>3. ~Less(Dist(b), Dist(b))
    <3>1. Dist(b) \in [1 .. Bits -> {0, 1}]
      BY DistanceType
    <3> HIDE DEF Dist
    <3> QED
      BY <3>1, LessOrder
  <2> HIDE DEF Dist
  <2> QED
    BY <2>1, <2>2, <2>3
<1>2. ASSUME NEW a \in S PROVE Nearer(a) \in SUBSET S /\ IsFiniteSet(Nearer(a))
  <2>1. Nearer(a) \in SUBSET S
    OBVIOUS
  <2> HIDE DEF Nearer
  <2> QED
    BY <2>1, FS_Subset
<1> HIDE DEF Nearer
<1>3. Sets \subseteq FiniteSubsetsOf(S) /\ Sets # {}
  BY <1>2 DEF FiniteSubsetsOf
<1>4. PICK x \in Sets : \A y \in Sets : <<y, x>> \notin StrictSubsetOrdering(S)
  <2> HIDE DEF Sets
  <2>1. IsWellFoundedOn(StrictSubsetOrdering(S), FiniteSubsetsOf(S))
    BY FS_StrictSubsetOrderingWellFounded
  <2> QED
    BY <1>3, <2>1, WFMin
<1>5. PICK a \in S : x = Nearer(a)
  BY <1>4
<1>6. Nearer(a) = {}
  <2> SUFFICES ASSUME NEW b \in Nearer(a) PROVE FALSE
    OBVIOUS
  <2>1. b \in S /\ Nearer(b) \subseteq Nearer(a) /\ Nearer(b) # Nearer(a)
    BY <1>1
  <2>2. Nearer(b) \in Sets /\ Nearer(b) \in SUBSET S /\ Nearer(a) \in SUBSET S
    BY <1>2, <2>1
  <2>3. <<Nearer(b), Nearer(a)>> \in StrictSubsetOrdering(S)
    BY <2>1, <2>2 DEF StrictSubsetOrdering
  <2> QED
    BY <1>4, <1>5, <2>2, <2>3
<1>7. Cardinality(Nearer(a)) < n
  BY <1>6, FS_EmptySet
<1>8. a \in Closest(S, t, n)
  BY <1>7 DEF Closest, Nearer
<1> QED
  BY <1>8

-----------------------------------------------------------------------------
(* The search *)

TypeInv ==
  /\ pc \in Places /\ target \in Targets
  /\ queried \subseteq closestMap /\ closestMap \subseteq Nodes
  /\ closestMap \ queried \subseteq closestList /\ closestList \subseteq closestMap
  /\ waiting \subseteq queried /\ results \in Seq(Results)
  /\ found \subseteq Nodes /\ answered \subseteq queried /\ heard \subseteq Nodes

(* The closest of a set are in it.                                         *)
LEMMA ClosestSubset == \A S, t, n : Closest(S, t, n) \subseteq S
  BY DEF Closest

(* The routing table holds nodes.                                          *)
LEMMA ContactsType == ASSUME TableInv PROVE Contacts(buckets) \subseteq Nodes
<1>1. \A i \in Indices : buckets[i] \in Seq(Nodes)
  BY DEF TableInv
<1> QED
  BY <1>1, ElemsType DEF Contacts

(* What a new result adds.                                                 *)
LEMMA AppendResult ==
  ASSUME NEW rs \in Seq(Results), NEW r \in Results, NEW rs2, rs2 = Append(rs, r)
  PROVE  /\ rs2 \in Seq(Results)
         /\ Failed(rs2) = Failed(rs) \cup (IF r.err THEN {r.from} ELSE {})
         /\ \A x : x \in Told(rs2) <=> x \in Told(rs) \/ x \in r.contacts \ {Local}
         /\ \A i \in 1 .. Len(rs2) : (i \in 1 .. Len(rs) /\ rs2[i] = rs[i]) \/ (i = Len(rs) + 1 /\ rs2[i] = r)
<1> DEFINE n == Len(rs) + 1
<1>1. /\ rs2 \in Seq(Results) /\ Len(rs2) = n /\ Len(rs) \in Nat
      /\ \A i \in 1 .. Len(rs) : rs2[i] = rs[i]
      /\ rs2[n] = r
  BY AppendProperties, LenProperties
<1>2. \A i : i \in 1 .. Len(rs2) <=> i \in 1 .. Len(rs) \/ i = n
  BY <1>1
<1> HIDE DEF n
<1>3. Failed(rs2) = Failed(rs) \cup (IF r.err THEN {r.from} ELSE {})
  <2>1. \A x : x \in Failed(rs2) <=> \E i \in 1 .. Len(rs2) : rs2[i].err /\ x = rs2[i].from
    BY DEF Failed
  <2>2. \A x : x \in Failed(rs) <=> \E i \in 1 .. Len(rs) : rs[i].err /\ x = rs[i].from
    BY DEF Failed
  <2>3. \A x : x \in Failed(rs2) <=> x \in Failed(rs) \/ (r.err /\ x = r.from)
    BY <1>1, <1>2, <2>1, <2>2
  <2> QED
    BY <2>3
<1>4. Told(rs2) = Told(rs) \cup (r.contacts \ {Local})
  <2>1. \A x : x \in Told(rs2) <=> \E i \in 1 .. Len(rs2) : x \in rs2[i].contacts \ {Local}
    BY DEF Told
  <2>2. \A x : x \in Told(rs) <=> \E i \in 1 .. Len(rs) : x \in rs[i].contacts \ {Local}
    BY DEF Told
  <2>3. \A x : x \in Told(rs2) <=> x \in Told(rs) \/ x \in r.contacts \ {Local}
    BY <1>1, <1>2, <2>1, <2>2
  <2> QED
    BY <2>3
<1> QED
  BY <1>1, <1>2, <1>3, <1>4 DEF n

(* What is left when the first result is merged.                           *)
LEMMA TailResult ==
  ASSUME NEW rs \in Seq(Results), rs # << >>, NEW rs2, rs2 = Tail(rs)
  PROVE  /\ rs2 \in Seq(Results) /\ rs[1] \in Results /\ Head(rs) = rs[1] /\ 1 \in 1 .. Len(rs)
         /\ Failed(rs) = Failed(rs2) \cup (IF rs[1].err THEN {rs[1].from} ELSE {})
         /\ \A x : x \in Told(rs) <=> x \in Told(rs2) \/ x \in rs[1].contacts \ {Local}
         /\ \A i \in 1 .. Len(rs2) : i + 1 \in 1 .. Len(rs) /\ rs2[i] = rs[i + 1] /\ i + 1 # 1
         /\ \A i, j \in 1 .. Len(rs2) : i + 1 = j + 1 => i = j
<1>1. /\ rs2 \in Seq(Results) /\ Len(rs2) = Len(rs) - 1 /\ Len(rs) \in Nat /\ Len(rs) > 0
      /\ \A i \in 1 .. Len(rs2) : rs2[i] = rs[i + 1]
      /\ Head(rs) = rs[1]
  BY HeadTailProperties, LenProperties, EmptySeq
<1>2. /\ \A i \in 1 .. Len(rs2) : i + 1 \in 1 .. Len(rs) /\ i + 1 # 1
      /\ \A i, j \in 1 .. Len(rs2) : i + 1 = j + 1 => i = j
      /\ 1 \in 1 .. Len(rs)
      /\ \A i \in 1 .. Len(rs) : i = 1 \/ \E j \in 1 .. Len(rs2) : j + 1 = i
  <2>1. ASSUME NEW i \in 1 .. Len(rs), i # 1 PROVE i - 1 \in 1 .. Len(rs2) /\ (i - 1) + 1 = i
    BY <1>1, <2>1
  <2> QED
    BY <1>1, <2>1
<1>3. rs[1] \in Results
  BY <1>2, ElementOfSeq
<1>a. ASSUME NEW i \in 1 .. Len(rs), i # 1 PROVE \E j \in 1 .. Len(rs2) : rs2[j] = rs[i]
  <2>1. PICK j \in 1 .. Len(rs2) : j + 1 = i
    BY <1>2, <1>a
  <2>2. rs2[j] = rs[j + 1]
    BY <1>1
  <2> QED
    BY <2>1, <2>2
<1>b. ASSUME NEW j \in 1 .. Len(rs2) PROVE \E i \in 1 .. Len(rs) : rs2[j] = rs[i]
  BY <1>1, <1>2
<1>4. Failed(rs) = Failed(rs2) \cup (IF rs[1].err THEN {rs[1].from} ELSE {})
  <2>1. \A x : x \in Failed(rs2) <=> \E i \in 1 .. Len(rs2) : rs2[i].err /\ x = rs2[i].from
    BY DEF Failed
  <2>2. \A x : x \in Failed(rs) <=> \E i \in 1 .. Len(rs) : rs[i].err /\ x = rs[i].from
    BY DEF Failed
  <2>3. Failed(rs2) \subseteq Failed(rs)
    BY <1>b, <2>1, <2>2
  <2>4. rs[1].err => rs[1].from \in Failed(rs)
    BY <1>2, <2>2
  <2>5. \A x \in Failed(rs) : x \in Failed(rs2) \/ (rs[1].err /\ x = rs[1].from)
    BY <1>a, <2>1, <2>2
  <2> QED
    BY <2>3, <2>4, <2>5
<1>5. Told(rs) = Told(rs2) \cup (rs[1].contacts \ {Local})
  <2>1. \A x : x \in Told(rs2) <=> \E i \in 1 .. Len(rs2) : x \in rs2[i].contacts \ {Local}
    BY DEF Told
  <2>2. \A x : x \in Told(rs) <=> \E i \in 1 .. Len(rs) : x \in rs[i].contacts \ {Local}
    BY DEF Told
  <2>3. Told(rs2) \subseteq Told(rs)
    BY <1>b, <2>1, <2>2
  <2>4. rs[1].contacts \ {Local} \subseteq Told(rs)
    BY <1>2, <2>2
  <2>5. \A x \in Told(rs) : x \in Told(rs2) \/ x \in rs[1].contacts \ {Local}
    <3> TAKE x \in Told(rs)
    <3>1. PICK i \in 1 .. Len(rs) : x \in rs[i].contacts \ {Local}
      BY <2>2
    <3>2. CASE i # 1
      BY <1>a, <2>1, <3>1, <3>2
    <3> QED
      BY <3>1, <3>2
  <2> QED
    BY <2>3, <2>4, <2>5
<1> QED
  BY <1>1, <1>2, <1>3, <1>4, <1>5

(* What a result is made of.                                               *)
LEMMA ResultType ==
  /\ \A r \in Results : r.from \in Nodes /\ r.err \in BOOLEAN /\ r.contacts \subseteq Nodes \cup {Local}
  /\ \A n \in Nodes : [from |-> n, err |-> TRUE, contacts |-> {}] \in Results
  /\ \A n \in Nodes, S \in Replies : [from |-> n, err |-> FALSE, contacts |-> S] \in Results
  BY DEF Results, Replies

(* The search begins with what the routing table offers.                   *)
LEMMA StartStep ==
  ASSUME TableInv, TypeInv, SearchInv, NEW t \in Targets, IterativeFindNode(t)
  PROVE  TypeInv' /\ SearchInv' /\ SearchIsComplete'
<1>1. /\ pc = "idle" /\ target' = t /\ closestMap' = closestList' /\ heard' = closestList'
      /\ queried' = {} /\ answered' = {} /\ found' = {} /\ pc' = "round" /\ UNCHANGED <<waiting, results>>
      /\ closestList' = Closest(Contacts(buckets), t, K)
  BY DEF IterativeFindNode, FindClosestPeers
<1>2. closestList' \subseteq Nodes
  BY <1>1, ClosestSubset, ContactsType
<1>3. waiting = {} /\ results = << >>
  BY <1>1 DEF SearchInv
<1>4. Failed(<< >>) = {} /\ Told(<< >>) = {} /\ Len(<< >>) = 0
  BY EmptySeq DEF Failed, Told
<1>5. TypeInv'
  BY <1>1, <1>2, <1>3 DEF TypeInv, Places
<1>6. SearchInv'
  BY <1>1, <1>3, <1>4 DEF SearchInv
<1> QED
  BY <1>1, <1>5, <1>6 DEF SearchIsComplete

(* A round asks some nodes that were not asked, or the search is complete. *)
LEMMA RoundStep ==
  ASSUME TypeInv, SearchInv, Round
  PROVE  TypeInv' /\ SearchInv' /\ SearchIsComplete'
<1>a. /\ pc = "round" /\ waiting = {} /\ results = << >>
      /\ UNCHANGED <<target, closestList, closestMap, results, answered, heard>>
  BY DEF Round, SearchInv
<1>b. Failed(<< >>) = {} /\ Told(<< >>) = {} /\ Len(<< >>) = 0
  BY EmptySeq DEF Failed, Told
<1>c. heard = closestMap /\ closestList = (closestMap \ queried) \cup answered
  BY <1>a, <1>b DEF SearchInv
<1>d. toQuery \subseteq closestList \ queried
  BY ClosestSubset DEF toQuery
<1>1. CASE toQuery = {}
  <2>1. pc' = "done" /\ found' = Closest(closestList, target, K) /\ UNCHANGED <<queried, waiting>>
    BY <1>1 DEF Round
  <2>2. closestList \ queried = {}
    <3>1. closestList \ queried \in SUBSET Nodes
      BY DEF TypeInv
    <3>2. IsFiniteSet(closestList \ queried)
      BY <3>1, ConstantFacts, FS_Subset
    <3> QED
      BY <1>1, <3>2, ConstantFacts, SomeClosest DEF toQuery
  <2>3. queried = heard /\ closestList = answered
    BY <1>c, <2>2 DEF TypeInv
  <2>4. found' \subseteq Nodes
    BY <2>1, ClosestSubset DEF TypeInv
  <2>5. TypeInv'
    BY <1>a, <2>1, <2>4 DEF TypeInv, Places
  <2>6. SearchInv'
    BY <1>a, <2>1 DEF SearchInv
  <2> QED
    BY <1>a, <2>1, <2>3, <2>5, <2>6 DEF SearchIsComplete
<1>2. CASE toQuery # {}
  <2>1. /\ pc' = "querying" /\ found' = found
        /\ queried' = queried \cup toQuery /\ waiting' = toQuery
    BY <1>2 DEF Round
  <2>2. toQuery \subseteq closestMap /\ toQuery \cap queried = {} /\ answered \subseteq queried
    BY <1>d DEF TypeInv
  <2>3. TypeInv'
    BY <1>a, <2>1, <2>2 DEF TypeInv, Places
  <2>4. closestList' = (closestMap' \ queried') \cup waiting' \cup answered'
    BY <1>a, <1>c, <2>1, <2>2
  <2>5. SearchInv'
    BY <1>a, <1>b, <1>c, <2>1, <2>2, <2>4 DEF SearchInv
  <2> QED
    BY <2>1, <2>3, <2>5 DEF SearchIsComplete
<1> QED
  BY <1>1, <1>2

(* A node that was asked answers, or SendRequest gives up on it.           *)
LEMMA ReturnedStep ==
  ASSUME TypeInv, SearchInv, NEW n \in waiting, NEW r \in Results, Returned(n, r), r.from = n,
         answered' = IF r.err THEN answered ELSE answered \cup {n},
         heard' = heard \cup (r.contacts \ {Local})
  PROVE  TypeInv' /\ SearchInv' /\ SearchIsComplete'
<1>a. /\ pc = "querying" /\ waiting' = waiting \ {n} /\ results' = Append(results, r)
      /\ UNCHANGED <<pc, target, closestList, closestMap, queried, found>>
  BY DEF Returned
<1>b. results \in Seq(Results) /\ Len(results) \in Nat /\ n \in queried /\ n \in Nodes /\ n \notin answered
  BY LenProperties DEF TypeInv, SearchInv
<1>1. /\ results' \in Seq(Results)
      /\ Failed(results') = Failed(results) \cup (IF r.err THEN {r.from} ELSE {})
      /\ Told(results') = Told(results) \cup (r.contacts \ {Local})
      /\ \A i \in 1 .. Len(results') : \/ i \in 1 .. Len(results) /\ results'[i] = results[i]
                                       \/ i = Len(results) + 1 /\ results'[i] = r
  <2> DEFINE rs2 == results'
  <2>1. rs2 = Append(results, r)
    BY <1>a
  <2> HIDE DEF rs2
  <2>2. /\ rs2 \in Seq(Results)
        /\ Failed(rs2) = Failed(results) \cup (IF r.err THEN {r.from} ELSE {})
        /\ Told(rs2) = Told(results) \cup (r.contacts \ {Local})
        /\ \A i \in 1 .. Len(rs2) : (i \in 1 .. Len(results) /\ rs2[i] = results[i]) \/ (i = Len(results) + 1 /\ rs2[i] = r)
    <3>1. rs2 \in Seq(Results)
      BY <1>b, <2>1, AppendResult
    <3>2. Failed(rs2) = Failed(results) \cup (IF r.err THEN {r.from} ELSE {})
      BY <1>b, <2>1, AppendResult
    <3>3. \A x : x \in Told(rs2) <=> x \in Told(results) \/ x \in r.contacts \ {Local}
      BY <1>b, <2>1, AppendResult
    <3>4. \A i \in 1 .. Len(rs2) : (i \in 1 .. Len(results) /\ rs2[i] = results[i]) \/ (i = Len(results) + 1 /\ rs2[i] = r)
      BY <1>b, <2>1, AppendResult
    <3> QED
      BY <3>1, <3>2, <3>3, <3>4
  <2> QED
    BY <2>2 DEF rs2
<1>2. TypeInv'
  <2>1. r.contacts \ {Local} \subseteq Nodes
    BY ResultType
  <2>2. /\ waiting' \subseteq queried' /\ answered' \subseteq queried' /\ heard' \subseteq Nodes
    BY <1>a, <1>b, <2>1 DEF TypeInv
  <2> QED
    BY <1>a, <1>1, <2>2 DEF TypeInv
<1>3. \A i \in 1 .. Len(results) :
        /\ results[i].from \in queried \ waiting /\ results[i].from # n
        /\ results[i].err => results[i].from \notin answered
        /\ \A j \in 1 .. Len(results) : results[i].from = results[j].from => i = j
  BY DEF SearchInv
<1>4. ASSUME NEW i \in 1 .. Len(results')
      PROVE  /\ results'[i].from \in queried' \ waiting'
             /\ results'[i].err => results'[i].from \notin answered'
             /\ \A j \in 1 .. Len(results') : results'[i].from = results'[j].from => i = j
  <2>1. CASE i \in 1 .. Len(results) /\ results'[i] = results[i]
    BY <1>a, <1>1, <1>3, <2>1
  <2>2. CASE i = Len(results) + 1 /\ results'[i] = r
    BY <1>a, <1>b, <1>1, <1>3, <2>2
  <2> QED
    BY <1>1, <2>1, <2>2
<1>5. closestList' = (closestMap' \ queried') \cup waiting' \cup answered' \cup Failed(results')
  <2>1. closestList = (closestMap \ queried) \cup waiting \cup answered \cup Failed(results)
    BY DEF SearchInv
  <2>2. CASE r.err
    BY <1>a, <1>1, <2>1, <2>2
  <2>3. CASE ~r.err
    BY <1>a, <1>1, <2>1, <2>3
  <2> QED
    BY <2>2, <2>3
<1>6. heard' = closestMap' \cup Told(results') /\ waiting' \cap answered' = {}
  BY <1>a, <1>1 DEF SearchInv
<1>7. SearchInv'
  BY <1>a, <1>4, <1>5, <1>6 DEF SearchInv
<1> QED
  BY <1>a, <1>2, <1>7 DEF SearchIsComplete

(* A result is merged.                                                     *)
LEMMA MergeStep ==
  ASSUME TypeInv, SearchInv, Merge
  PROVE  TypeInv' /\ SearchInv' /\ SearchIsComplete'
<1> DEFINE r == results[1]
<1>a. /\ pc = "querying" /\ waiting = {} /\ results # << >> /\ results' = Tail(results)
      /\ UNCHANGED <<pc, target, queried, waiting, found, answered, heard>>
  BY DEF Merge
<1>b. results \in Seq(Results)
  BY DEF TypeInv
<1>1. /\ results' \in Seq(Results) /\ r \in Results /\ Head(results) = r /\ 1 \in 1 .. Len(results)
      /\ Failed(results) = Failed(results') \cup (IF r.err THEN {r.from} ELSE {})
      /\ Told(results) = Told(results') \cup (r.contacts \ {Local})
      /\ \A i \in 1 .. Len(results') :
           i + 1 \in 1 .. Len(results) /\ results'[i] = results[i + 1] /\ i + 1 # 1
      /\ \A i, j \in 1 .. Len(results') : i + 1 = j + 1 => i = j
  <2> DEFINE rs2 == results'
  <2>1. rs2 = Tail(results)
    BY <1>a
  <2> HIDE DEF rs2
  <2>2. /\ rs2 \in Seq(Results) /\ results[1] \in Results /\ Head(results) = results[1] /\ 1 \in 1 .. Len(results)
        /\ Failed(results) = Failed(rs2) \cup (IF results[1].err THEN {results[1].from} ELSE {})
        /\ Told(results) = Told(rs2) \cup (results[1].contacts \ {Local})
        /\ \A i \in 1 .. Len(rs2) :
             i + 1 \in 1 .. Len(results) /\ rs2[i] = results[i + 1] /\ i + 1 # 1
        /\ \A i, j \in 1 .. Len(rs2) : i + 1 = j + 1 => i = j
    <3>1. /\ rs2 \in Seq(Results) /\ results[1] \in Results /\ Head(results) = results[1]
          /\ 1 \in 1 .. Len(results)
      BY <1>a, <1>b, <2>1, TailResult
    <3>2. Failed(results) = Failed(rs2) \cup (IF results[1].err THEN {results[1].from} ELSE {})
      BY <1>a, <1>b, <2>1, TailResult
    <3>3. \A x : x \in Told(results) <=> x \in Told(rs2) \/ x \in results[1].contacts \ {Local}
      BY <1>a, <1>b, <2>1, TailResult
    <3>4. \A i \in 1 .. Len(rs2) : i + 1 \in 1 .. Len(results) /\ rs2[i] = results[i + 1] /\ i + 1 # 1
      BY <1>a, <1>b, <2>1, TailResult
    <3>5. \A i, j \in 1 .. Len(rs2) : i + 1 = j + 1 => i = j
      BY <1>a, <1>b, <2>1, TailResult
    <3> QED
      BY <3>1, <3>2, <3>3, <3>4, <3>5
  <2> QED
    BY <2>2 DEF rs2
<1>2. \A i \in 1 .. Len(results) :
        /\ results[i].from \in queried \ waiting
        /\ results[i].err => results[i].from \notin answered
        /\ \A j \in 1 .. Len(results) : results[i].from = results[j].from => i = j
  BY DEF SearchInv
<1>c. r.from \in Nodes /\ r.err \in BOOLEAN /\ r.contacts \subseteq Nodes \cup {Local} /\ r.from \in queried
  BY <1>1, <1>2, ResultType
<1>3. \A i \in 1 .. Len(results') :
        /\ results'[i].from \in queried' \ waiting' /\ results'[i].from # r.from
        /\ results'[i].err => results'[i].from \notin answered'
        /\ \A j \in 1 .. Len(results') : results'[i].from = results'[j].from => i = j
  <2> TAKE i \in 1 .. Len(results')
  <2>1. i + 1 \in 1 .. Len(results) /\ results'[i] = results[i + 1] /\ i + 1 # 1
    BY <1>1
  <2>2. results'[i].from # r.from
    BY <1>1, <1>2, <2>1
  <2>3. ASSUME NEW j \in 1 .. Len(results'), results'[i].from = results'[j].from PROVE i = j
    <3>1. j + 1 \in 1 .. Len(results) /\ results'[j] = results[j + 1]
      BY <1>1
    <3>2. i + 1 = j + 1
      BY <1>2, <2>1, <2>3, <3>1
    <3> QED
      BY <1>1, <3>2
  <2> QED
    BY <1>a, <1>2, <2>1, <2>2, <2>3
<1>4. r.from \notin Failed(results')
  BY <1>3 DEF Failed
<1>5. heard = closestMap \cup Told(results)
      /\ closestList = (closestMap \ queried) \cup answered \cup Failed(results)
  BY <1>a DEF SearchInv
<1> HIDE DEF r
<1>6. /\ closestMap' \subseteq Nodes /\ queried \subseteq closestMap' /\ closestList' \subseteq closestMap'
      /\ closestMap' \ queried \subseteq closestList'
      /\ heard = closestMap' \cup Told(results')
      /\ closestList' = (closestMap' \ queried) \cup answered \cup Failed(results')
  <2>0. /\ queried \subseteq closestMap /\ closestMap \subseteq Nodes
        /\ closestMap \ queried \subseteq closestList /\ closestList \subseteq closestMap
    BY DEF TypeInv
  <2>1. CASE r.err
    <3>1. closestList' = closestList \ {r.from} /\ closestMap' = closestMap
      BY <1>1, <2>1 DEF Merge
    <3>2. r.from \notin answered /\ r.contacts = {}
      <4>1. r.contacts = {}
        BY <1>1, <2>1 DEF Results
      <4>2. r.from \notin answered
        BY <1>1, <1>2, <2>1 DEF r
      <4> QED
        BY <4>1, <4>2
    <3>3. closestList' = (closestMap' \ queried) \cup answered \cup Failed(results')
      BY <1>1, <1>4, <1>5, <1>c, <2>1, <3>1, <3>2
    <3>4. heard = closestMap' \cup Told(results')
      BY <1>1, <1>5, <3>1, <3>2
    <3>5. closestMap' \ queried \subseteq closestList'
      BY <1>c, <2>0, <3>1
    <3> QED
      BY <2>0, <3>1, <3>3, <3>4, <3>5
  <2>2. CASE ~r.err
    <3>1. /\ closestList' = closestList \cup (r.contacts \ (closestMap \cup {Local}))
          /\ closestMap' = closestMap \cup (r.contacts \ {Local})
      BY <1>1, <2>2 DEF Merge
    <3>2. closestList' = (closestMap' \ queried) \cup answered \cup Failed(results')
      BY <1>1, <1>5, <2>0, <2>2, <3>1
    <3>3. heard = closestMap' \cup Told(results')
      BY <1>1, <1>5, <3>1
    <3>4. closestMap' \subseteq Nodes /\ closestList' \subseteq closestMap' /\ closestMap' \ queried \subseteq closestList'
      BY <1>c, <2>0, <3>1
    <3> QED
      BY <2>0, <3>1, <3>2, <3>3, <3>4
  <2> QED
    BY <1>c, <2>1, <2>2
<1>7. TypeInv'
  BY <1>a, <1>1, <1>6 DEF TypeInv
<1>8. SearchInv'
  <2>1. /\ heard' = closestMap' \cup Told(results')
        /\ closestList' = (closestMap' \ queried') \cup waiting' \cup answered' \cup Failed(results')
        /\ waiting' \cap answered' = {} /\ pc' = "querying"
    BY <1>a, <1>6
  <2> QED
    BY <1>3, <2>1 DEF SearchInv
<1> QED
  BY <1>a, <1>7, <1>8 DEF SearchIsComplete

-----------------------------------------------------------------------------
(* The theorems *)

Inv == TableInv /\ TypeInv /\ SearchInv /\ SearchIsComplete

(* All of it holds at the start.                                           *)
LEMMA InvInit == Init => Inv
<1> SUFFICES ASSUME Init PROVE Inv
  OBVIOUS
<1>1. << >> \in Seq(Nodes) /\ << >> \in Seq(Results) /\ Len(<< >>) = 0 /\ Elems(<< >>) = {}
  BY EmptySeq DEF Elems
<1>2. TableInv
  <2>1. Distinct(<< >>) /\ \A i \in Indices : HoldsMostRecent(<< >>, << >>, i)
    BY <1>1, ConstantFacts DEF Distinct, HoldsMostRecent
  <2> QED
    BY <1>1, <2>1 DEF Init, TableInv
<1>3. TypeInv
  BY <1>1 DEF Init, TypeInv, Places
<1>4. Failed(<< >>) = {} /\ Told(<< >>) = {}
  BY <1>1 DEF Failed, Told
<1>5. SearchInv
  BY <1>1, <1>4 DEF Init, SearchInv
<1> QED
  BY <1>2, <1>3, <1>5 DEF Init, Inv, SearchIsComplete

(* Every step keeps all of it.                                             *)
LEMMA InvStep == Inv /\ [Next]_vars => Inv'
<1> SUFFICES ASSUME Inv, [Next]_vars PROVE Inv'
  OBVIOUS
<1>a. TableInv /\ TypeInv /\ SearchInv /\ SearchIsComplete
  BY DEF Inv
<1>b. ASSUME UNCHANGED <<buckets, recent>> PROVE TableInv'
  BY <1>a, <1>b DEF TableInv
<1>1. ASSUME NEW a \in Senders, Seen(a) PROVE Inv'
  <2>1. TableInv'
    BY <1>1, <1>a, AddContactStep, ConstantFacts DEF Seen
  <2>2. TypeInv' /\ SearchInv' /\ SearchIsComplete'
    BY <1>1, <1>a DEF Seen, search, TypeInv, SearchInv, SearchIsComplete
  <2> QED
    BY <2>1, <2>2 DEF Inv
<1>2. ASSUME NEW t \in Targets, IterativeFindNode(t) PROVE Inv'
  <2>1. TableInv'
    BY <1>2, <1>b DEF IterativeFindNode
  <2> QED
    BY <1>2, <1>a, <2>1, StartStep DEF Inv
<1>3. CASE Round
  <2>1. TableInv'
    BY <1>3, <1>b DEF Round
  <2> QED
    BY <1>3, <1>a, <2>1, RoundStep DEF Inv
<1>4. CASE Merge
  <2>1. TableInv'
    <3>1. results \in Seq(Results) /\ results # << >>
      BY <1>4, <1>a DEF TypeInv, Merge
    <3>2. Head(results) \in Results
      BY <3>1, HeadTailProperties
    <3>3. Head(results).from \in Nodes \cup {Local}
      BY <3>2, ResultType
    <3>4. UNCHANGED <<buckets, recent>> \/ AddContact(Head(results).from)
      BY <1>4 DEF Merge
    <3> QED
      BY <1>a, <1>b, <3>3, <3>4, AddContactStep
  <2> QED
    BY <1>4, <1>a, <2>1, MergeStep DEF Inv
<1>5. CASE Merged
  <2>1. TableInv'
    BY <1>5, <1>b DEF Merged
  <2>2. TypeInv' /\ SearchInv' /\ SearchIsComplete'
    BY <1>5, <1>a DEF Merged, TypeInv, SearchInv, SearchIsComplete, Places
  <2> QED
    BY <2>1, <2>2 DEF Inv
<1>6. CASE Return
  <2>1. TableInv'
    BY <1>6, <1>b DEF Return
  <2>2. waiting = {} /\ results = << >>
    BY <1>6, <1>a DEF Return, SearchInv
  <2>3. Failed(<< >>) = {} /\ Told(<< >>) = {} /\ Len(<< >>) = 0
    BY EmptySeq DEF Failed, Told
  <2>4. TypeInv'
    BY <1>6, <1>a, <2>2 DEF Return, TypeInv, Places
  <2>5. SearchInv'
    BY <1>6, <2>2, <2>3 DEF Return, SearchInv
  <2>6. SearchIsComplete'
    BY <1>6 DEF Return, SearchIsComplete
  <2> QED
    BY <2>1, <2>4, <2>5, <2>6 DEF Inv
<1>7. ASSUME NEW n \in waiting, Fails(n) PROVE Inv'
  <2> DEFINE r == [from |-> n, err |-> TRUE, contacts |-> {}]
  <2>1. TableInv'
    BY <1>7, <1>b DEF Fails, Returned
  <2>2. n \in Nodes
    BY <1>a DEF TypeInv
  <2>3. /\ r \in Results /\ r.from = n /\ Returned(n, r)
        /\ answered' = IF r.err THEN answered ELSE answered \cup {n}
        /\ heard' = heard \cup (r.contacts \ {Local})
    BY <1>7, <2>2, ResultType DEF Fails
  <2> HIDE DEF r
  <2> QED
    BY <1>a, <2>1, <2>3, ReturnedStep DEF Inv
<1>8. ASSUME NEW n \in waiting, NEW S \in Replies, Answers(n, S) PROVE Inv'
  <2> DEFINE r == [from |-> n, err |-> FALSE, contacts |-> S]
  <2>1. TableInv'
    BY <1>8, <1>b DEF Answers, Returned
  <2>2. n \in Nodes
    BY <1>a DEF TypeInv
  <2>3. /\ r \in Results /\ r.from = n /\ Returned(n, r)
        /\ answered' = IF r.err THEN answered ELSE answered \cup {n}
        /\ heard' = heard \cup (r.contacts \ {Local})
    BY <1>8, <2>2, ResultType DEF Answers
  <2> HIDE DEF r
  <2> QED
    BY <1>a, <2>1, <2>3, ReturnedStep DEF Inv
<1>9. CASE UNCHANGED vars
  <2>1. TableInv'
    BY <1>9, <1>b DEF vars
  <2>2. TypeInv' /\ SearchInv' /\ SearchIsComplete'
    BY <1>9, <1>a DEF vars, search, TypeInv, SearchInv, SearchIsComplete
  <2> QED
    BY <2>1, <2>2 DEF Inv
<1> QED
  BY <1>1, <1>2, <1>3, <1>4, <1>5, <1>6, <1>7, <1>8, <1>9 DEF Next, Search

(* The variables keep their types; in particular this node is never among  *)
(* the nodes of its table or of a search, and no node is lost from one.    *)
THEOREM KademliaTypes == Spec => []KademliaTypeOK
<1>1. Inv => KademliaTypeOK
  BY DEF Inv, TableInv, TypeInv, KademliaTypeOK
<1> QED
  BY <1>1, InvInit, InvStep, PTL DEF Spec

(* Every bucket holds the K contacts of its distance that were seen last,  *)
(* in that order, whatever requests and searches come in between.          *)
THEOREM MostRecent == Spec => []BucketsHoldMostRecent
<1>1. Inv => BucketsHoldMostRecent
  BY DEF Inv, TableInv, HoldsMostRecent, BucketsHoldMostRecent
<1> QED
  BY <1>1, InvInit, InvStep, PTL DEF Spec

(* A search that returns has asked every node it started from or was told  *)
(* of, and returns the K closest of those that answered.                   *)
THEOREM CompleteSearch == Spec => []SearchIsComplete
<1>1. Inv => SearchIsComplete
  BY DEF Inv
<1> QED
  BY <1>1, InvInit, InvStep, PTL DEF Spec
=============================================================================
