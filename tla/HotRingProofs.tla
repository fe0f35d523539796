---------------------------- MODULE HotRingProofs ----------------------------
(***************************************************************************)
(* Proofs about HotRing, for hash values of any width, tables of any size, *)
(* any keys and any counters: the rings stay sorted around their wrap, the *)
(* nodes stay in their own buckets up to the first hotring_rehash, and     *)
(* __hash_get finds every key of a ring whose tags are of one table size.  *)
(*                                                                         *)
(* RingsSorted speaks of neighbours, and neighbours change with every      *)
(* node linked, unlinked or cut off.  The inductive invariant says instead *)
(* how any two nodes of a ring compare: seen from the head a ring is two   *)
(* ascending runs, the second of which lies below the first.  Every arc of *)
(* such a ring, entered anywhere, is such a ring again.                    *)
(***************************************************************************)
EXTENDS HotRing, FiniteSets, FiniteSetTheorems, WellFoundedInduction, TLAPS

----------------------------------------------------------------------------
(* The inductive invariant.                                                *)

\* The nodes of a ring; while it is cut, the milestones are among them.
NodeOf(K, T, V) ==
  [key : K, tag : T, value : V, counter : 0 .. NODE_COUNTER - 1]

AnyNode == NodeOf(Nat, Nat, Values \cup {NULL})
StoredNode == NodeOf(Keys, 0 .. 2^NBITS - 1, Values)

\* Two rings of the same nodes but for their counters.
Alike(r, s) ==
  /\ Len(s) = Len(r)
  /\ \A x \in 1 .. Len(r) :
       s[x].key = r[x].key /\ s[x].tag = r[x].tag /\ s[x].value = r[x].value

\* From the head on, ring ascends up to place c and again from there, and
\* nothing after c is above anything before.
SortedAt(ring, c) ==
  \A x, y \in 1 .. Len(ring) :
    x < y => /\ x <= c /\ c < y => ring[y].tag <= ring[x].tag
             /\ x > c \/ y <= c => ring[x].tag <= ring[y].tag

Sorted(ring) == \E c \in 0 .. Len(ring) : SortedAt(ring, c)

\* Ring i of a table that was never rehashed has the tags of its keys.
Uniform(i, ring) ==
  \A x \in 1 .. Len(ring) : ring[x].key = i * 2^(NBITS - K0) + ring[x].tag

RingOK(ring) ==
  /\ ring \in Seq(StoredNode)
  /\ Sorted(ring)

\* Bucket i of a table of 2^kb buckets.
BucketOK(kb, i, ring) ==
  /\ RingOK(ring)
  /\ kb = K0 => Uniform(i, ring)
  /\ kb <= K0 + 1 => \A x \in 1 .. Len(ring) : hashIndex(kb, ring[x].key) = i

HotRingInv ==
  /\ k \in K0 .. MaxK
  /\ DOMAIN slots = Buckets(k)
  /\ \A i \in Buckets(k) : BucketOK(k, i, slots[i])
  /\ heads \in [Buckets(k) -> 0 .. HEAD_COUNTER - 1]
  /\ nr_request \in 0 .. REQUESTS
  /\ fault \in {"none", "null", "index", "shared"}
  /\ fault = "shared" => MaxK > K0 + 1
----------------------------------------------------------------------------
(* Numbers.                                                                *)

\* A set of naturals that is not empty has a smallest element.
LEMMA Smallest ==
  ASSUME NEW T, T \subseteq Nat, T # {}
  PROVE  \E x \in T : \A y \in T : x <= y
<1> DEFINE R == OpToRel(<, Nat)
<1>1. PICK x \in T : \A y \in T : ~ (<<y, x>> \in R)
  <2>1. IsWellFoundedOn(R, Nat)
    BY NatLessThanWellFounded
  <2> QED
    BY <2>1, WFMin
<1>2. \A y \in T : ~ (y < x)
  BY <1>1 DEF OpToRel
<1> QED
  BY <1>2

\* What Min means.
LEMMA MinProperty ==
  ASSUME NEW T, T \subseteq Nat, T # {}
  PROVE  Min(T) \in T /\ \A y \in T : Min(T) <= y
BY Smallest DEF Min

\* Quotient and remainder.
LEMMA DivMod ==
  ASSUME NEW j \in Nat, NEW m \in Nat \ {0}
  PROVE  j = m * (j \div m) + (j % m) /\ j \div m \in Nat /\ j % m \in 0 .. m - 1
OBVIOUS

\* Quotient and remainder are unique.
LEMMA DivModUnique ==
  ASSUME NEW m \in Nat \ {0}, NEW q \in Nat, NEW x \in 0 .. m - 1
  PROVE  (q * m + x) \div m = q /\ (q * m + x) % m = x
OBVIOUS

\* The shifts by up to NBITS bits.
LEMMA PowersNat ==
  ASSUME NEW b \in 0 .. NBITS
  PROVE  2^b \in Nat \ {0}
<1> SUFFICES ASSUME ~ (2^b \in Nat \ {0}) PROVE FALSE
  OBVIOUS
<1> DEFINE T == {x \in 0 .. NBITS : ~ (2^x \in Nat \ {0})}
<1>1. T \subseteq Nat /\ T # {}
  OBVIOUS
<1>2. PICK x \in T : \A y \in T : x <= y
  BY <1>1, Smallest
<1>3. x # 0
  <2>1. 2^0 \in Nat \ {0}
    BY PowerAssumption
  <2> QED
    BY <1>2, <2>1
<1>4. PICK y \in 0 .. NBITS - 1 : x = y + 1
  <2>1. x - 1 \in 0 .. NBITS - 1 /\ x = (x - 1) + 1
    BY <1>2, <1>3, HotRingAssumption
  <2> QED
    BY <2>1
<1>5. 2^y \in Nat \ {0}
  BY <1>2, <1>4, HotRingAssumption
<1>6. 2^(y + 1) = 2 * 2^y
  BY PowerAssumption
<1>7. 2^x \in Nat \ {0}
  BY <1>4, <1>5, <1>6
<1> QED
  BY <1>2, <1>7

\* Shifting twice.
LEMMA PowersAdd ==
  ASSUME NEW b \in 0 .. NBITS, NEW a \in 0 .. NBITS - b
  PROVE  2^(a + b) = 2^a * 2^b
<1> SUFFICES ASSUME 2^(a + b) # 2^a * 2^b PROVE FALSE
  OBVIOUS
<1> DEFINE T == {x \in 0 .. NBITS - b : 2^(x + b) # 2^x * 2^b}
<1>1. T \subseteq Nat /\ a \in T
  BY HotRingAssumption
<1>2. PICK x \in T : \A y \in T : x <= y
  BY <1>1, Smallest
<1>3. 2^b \in Nat
  BY PowersNat
<1>4. x # 0
  <2>1. 2^0 = 1 /\ 0 + b = b /\ 1 * 2^b = 2^b
    BY <1>3, PowerAssumption
  <2> QED
    BY <2>1, <1>2
<1>5. PICK y \in 0 .. NBITS - b - 1 : x = y + 1
  <2>1. x - 1 \in 0 .. NBITS - b - 1 /\ x = (x - 1) + 1
    BY <1>2, <1>4, HotRingAssumption
  <2> QED
    BY <2>1
<1>6. 2^(y + b) = 2^y * 2^b
  BY <1>2, <1>5, HotRingAssumption
<1>7. 2^(y + 1) = 2 * 2^y /\ 2^((y + b) + 1) = 2 * 2^(y + b) /\ 2^y \in Nat
  <2>1. y \in 0 .. NBITS - 1 /\ y + b \in 0 .. NBITS - 1 /\ y \in 0 .. NBITS
    BY HotRingAssumption
  <2> QED
    BY <2>1, PowerAssumption, PowersNat
<1>8. (y + b) + 1 = x + b
  BY <1>5
<1>9. \A u, v \in Nat : 2 * (u * v) = (2 * u) * v
  OBVIOUS
<1>10. 2^(x + b) = 2^x * 2^b
  BY <1>3, <1>5, <1>6, <1>7, <1>8, <1>9
<1> QED
  BY <1>2, <1>10

\* The numbers that hotring_rehash of a table of kb bits works with.
LEMMA HalfIs ==
  ASSUME NEW kb \in K0 .. MaxK
  PROVE  /\ 2^(NBITS - kb) \in Nat \ {0} /\ 2^kb \in Nat \ {0} /\ 2^NBITS \in Nat \ {0}
         /\ 2^(kb + 1) = 2 * 2^kb
         /\ HalfTag(NBITS - kb) \in Nat \ {0}
         /\ 2^(NBITS - kb) = 2 * HalfTag(NBITS - kb)
         /\ 2^(NBITS - (kb + 1)) = HalfTag(NBITS - kb)
         /\ 2^NBITS = 2^kb * 2^(NBITS - kb)
<1>1. /\ kb \in 0 .. NBITS - 1 /\ kb \in 0 .. NBITS /\ NBITS - kb \in 0 .. NBITS
      /\ (NBITS - kb) - 1 \in 0 .. NBITS - 1 /\ (NBITS - kb) - 1 \in 0 .. NBITS
      /\ NBITS \in 0 .. NBITS
  BY HotRingAssumption
<1>2. 2^(NBITS - kb) \in Nat \ {0} /\ 2^kb \in Nat \ {0} /\ 2^NBITS \in Nat \ {0}
  BY <1>1, PowersNat
<1>3. 2^(kb + 1) = 2 * 2^kb
  BY <1>1, PowerAssumption
<1>4. HalfTag(NBITS - kb) \in Nat \ {0}
  BY <1>1, PowersNat DEF HalfTag
<1>5. 2^(NBITS - kb) = 2 * HalfTag(NBITS - kb)
  <2>1. 2^(((NBITS - kb) - 1) + 1) = 2 * 2^((NBITS - kb) - 1)
    BY <1>1, PowerAssumption
  <2>2. ((NBITS - kb) - 1) + 1 = NBITS - kb
    BY HotRingAssumption
  <2> QED
    BY <2>1, <2>2 DEF HalfTag
<1>6. 2^(NBITS - (kb + 1)) = HalfTag(NBITS - kb)
  <2>1. NBITS - (kb + 1) = (NBITS - kb) - 1
    BY HotRingAssumption
  <2> QED
    BY <2>1 DEF HalfTag
<1>7. 2^NBITS = 2^kb * 2^(NBITS - kb)
  <2>1. kb \in 0 .. NBITS - (NBITS - kb) /\ kb + (NBITS - kb) = NBITS
    BY <1>1, HotRingAssumption
  <2> QED
    BY <2>1, <1>1, PowersAdd
<1> QED
  BY <1>2, <1>3, <1>4, <1>5, <1>6, <1>7
----------------------------------------------------------------------------
(* What the operators on rings do, place by place.                         *)

\* One sequence after another.
LEMMA ConcatIs ==
  ASSUME NEW S, NEW a \in Seq(S), NEW b \in Seq(S)
  PROVE  /\ a \o b \in Seq(S) /\ Len(a \o b) = Len(a) + Len(b)
         /\ \A q \in 1 .. Len(a) + Len(b) :
              (a \o b)[q] = IF q <= Len(a) THEN a[q] ELSE b[q - Len(a)]
<1>1. a \o b \in Seq(S)
  OBVIOUS
<1>2. Len(a \o b) = Len(a) + Len(b)
  OBVIOUS
<1>3. \A q \in 1 .. Len(a) + Len(b) :
        (a \o b)[q] = IF q <= Len(a) THEN a[q] ELSE b[q - Len(a)]
  OBVIOUS
<1> QED
  BY <1>1, <1>2, <1>3

\* The node at place q was at place a before the head moved to place t.
Before(n, t, q, a) ==
  \/ q <= n - t + 1 /\ a = q + t - 1
  \/ q > n - t + 1 /\ a = q + t - 1 - n

\* Every node was somewhere.
LEMMA PlaceBefore ==
  ASSUME NEW n \in Nat, NEW t \in 1 .. n, NEW q \in 1 .. n
  PROVE  \E a \in 1 .. n : Before(n, t, q, a)
<1>1. CASE q <= n - t + 1
  <2>1. q + t - 1 \in 1 .. n
    BY <1>1
  <2> QED
    BY <1>1, <2>1 DEF Before
<1>2. CASE q > n - t + 1
  <2>1. q + t - 1 - n \in 1 .. n
    BY <1>2
  <2> QED
    BY <1>2, <2>1 DEF Before
<1> QED
  BY <1>1, <1>2

\* hotspot_shift moves the head to place t.
LEMMA RotateIs ==
  ASSUME NEW S, NEW ring \in Seq(S), NEW t \in 1 .. Len(ring)
  PROVE  /\ Rotate(ring, t) \in Seq(S) /\ Len(Rotate(ring, t)) = Len(ring)
         /\ \A q, x \in 1 .. Len(ring) :
              Before(Len(ring), t, q, x) => Rotate(ring, t)[q] = ring[x]
<1> DEFINE a == SubSeq(ring, t, Len(ring))  b == SubSeq(ring, 1, t - 1)
<1>1. a \in Seq(S) /\ Len(a) = Len(ring) - t + 1
      /\ \A q \in 1 .. Len(a) : a[q] = ring[q + t - 1]
  OBVIOUS
<1>2. b \in Seq(S) /\ Len(b) = t - 1
      /\ \A q \in 1 .. Len(b) : b[q] = ring[q]
  OBVIOUS
<1> HIDE DEF a, b
<1>3. Rotate(ring, t) = a \o b
  BY DEF Rotate, a, b
<1>4. a \o b \in Seq(S) /\ Len(a \o b) = Len(ring)
  BY <1>1, <1>2, ConcatIs
<1>5. ASSUME NEW q \in 1 .. Len(ring), NEW x \in 1 .. Len(ring),
             Before(Len(ring), t, q, x)
      PROVE  (a \o b)[q] = ring[x]
  <2>1. (a \o b)[q] = IF q <= Len(a) THEN a[q] ELSE b[q - Len(a)]
    BY <1>1, <1>2, <1>4, ConcatIs
  <2> QED
    <3>1. CASE q <= Len(ring) - t + 1 /\ x = q + t - 1
      BY <3>1, <2>1, <1>1
    <3>2. CASE q > Len(ring) - t + 1 /\ x = q + t - 1 - Len(ring)
      <4>1. q - Len(a) = x /\ q - Len(a) \in 1 .. Len(b) /\ ~ (q <= Len(a))
        BY <3>2, <1>1, <1>2
      <4> QED
        BY <4>1, <2>1, <1>2
    <3> QED
      BY <3>1, <3>2, <1>5 DEF Before
<1> QED
  BY <1>3, <1>4, <1>5

\* __hash_create links a node in before place p.
LEMMA InsertIs ==
  ASSUME NEW S, NEW ring \in Seq(S), NEW p \in 1 .. Len(ring) + 1, NEW e \in S
  PROVE  /\ InsertAt(ring, p, e) \in Seq(S)
         /\ Len(InsertAt(ring, p, e)) = Len(ring) + 1
         /\ \A q \in 1 .. Len(ring) + 1 :
              InsertAt(ring, p, e)[q] = IF q < p THEN ring[q]
                                        ELSE IF q = p THEN e ELSE ring[q - 1]
<1> DEFINE a == SubSeq(ring, 1, p - 1)  b == SubSeq(ring, p, Len(ring))
<1>1. a \in Seq(S) /\ Len(a) = p - 1 /\ \A q \in 1 .. Len(a) : a[q] = ring[q]
  OBVIOUS
<1>2. b \in Seq(S) /\ Len(b) = Len(ring) - p + 1
      /\ \A q \in 1 .. Len(b) : b[q] = ring[q + p - 1]
  OBVIOUS
<1> HIDE DEF a, b
<1>3. InsertAt(ring, p, e) = (a \o <<e>>) \o b
  BY DEF InsertAt, a, b
<1> DEFINE ae == a \o <<e>>
<1>4. ae \in Seq(S) /\ Len(ae) = p
      /\ \A q \in 1 .. p : ae[q] = IF q < p THEN ring[q] ELSE e
  BY <1>1
<1> HIDE DEF ae
<1>5. ae \o b \in Seq(S) /\ Len(ae \o b) = Len(ring) + 1
  <2>1. ae \o b \in Seq(S) /\ Len(ae \o b) = Len(ae) + Len(b)
    BY <1>2, <1>4, ConcatIs
  <2> QED
    BY <2>1, <1>2, <1>4
<1>6. ASSUME NEW q \in 1 .. Len(ring) + 1
      PROVE  (ae \o b)[q] = IF q < p THEN ring[q]
                            ELSE IF q = p THEN e ELSE ring[q - 1]
  <2>1. (ae \o b)[q] = IF q <= Len(ae) THEN ae[q] ELSE b[q - Len(ae)]
    BY <1>2, <1>4, <1>5
  <2> QED
    BY <2>1, <1>2, <1>4
<1> QED
  BY <1>3, <1>5, <1>6 DEF ae

\* hotring_delete unlinks the node at place p.
LEMMA RemoveIs ==
  ASSUME NEW S, NEW ring \in Seq(S), NEW p \in 1 .. Len(ring)
  PROVE  /\ RemoveAt(ring, p) \in Seq(S)
         /\ Len(RemoveAt(ring, p)) = Len(ring) - 1
         /\ \A q \in 1 .. Len(ring) - 1 :
              RemoveAt(ring, p)[q] = IF q < p THEN ring[q] ELSE ring[q + 1]
<1> DEFINE a == SubSeq(ring, 1, p - 1)  b == SubSeq(ring, p + 1, Len(ring))
<1>1. a \in Seq(S) /\ Len(a) = p - 1 /\ \A q \in 1 .. Len(a) : a[q] = ring[q]
  OBVIOUS
<1>2. b \in Seq(S) /\ Len(b) = Len(ring) - p
      /\ \A q \in 1 .. Len(b) : b[q] = ring[q + p]
  OBVIOUS
<1> HIDE DEF a, b
<1>3. RemoveAt(ring, p) = a \o b
  BY DEF RemoveAt, a, b
<1>4. a \o b \in Seq(S) /\ Len(a \o b) = Len(ring) - 1
  <2>1. a \o b \in Seq(S) /\ Len(a \o b) = Len(a) + Len(b)
    BY <1>1, <1>2, ConcatIs
  <2> QED
    BY <2>1, <1>1, <1>2
<1>5. ASSUME NEW q \in 1 .. Len(ring) - 1
      PROVE  (a \o b)[q] = IF q < p THEN ring[q] ELSE ring[q + 1]
  <2>1. (a \o b)[q] = IF q <= Len(a) THEN a[q] ELSE b[q - Len(a)]
    BY <1>1, <1>2, <1>4
  <2> QED
    BY <2>1, <1>1, <1>2
<1> QED
  BY <1>3, <1>4, <1>5

\* ring with another counter at place j.
WithCounter(ring, j, c) == [ring EXCEPT ![j].counter = c]

\* A counter changes nothing else.
LEMMA WithCounterIs ==
  ASSUME NEW K, NEW T, NEW V, NEW ring \in Seq(NodeOf(K, T, V)),
         NEW j \in 1 .. Len(ring), NEW c \in 0 .. NODE_COUNTER - 1
  PROVE  /\ WithCounter(ring, j, c) \in Seq(NodeOf(K, T, V))
         /\ Alike(ring, WithCounter(ring, j, c))
<1> DEFINE m == [ring[j] EXCEPT !.counter = c]
<1>1. m \in NodeOf(K, T, V) /\ m.key = ring[j].key /\ m.tag = ring[j].tag
      /\ m.value = ring[j].value
  <2>1. ring[j] \in NodeOf(K, T, V)
    OBVIOUS
  <2> QED
    BY <2>1 DEF NodeOf
<1>2. WithCounter(ring, j, c) = [ring EXCEPT ![j] = m]
  BY DEF WithCounter
<1> HIDE DEF m
<1>3. PICK s : s = [ring EXCEPT ![j] = m]
  OBVIOUS
<1>4. s \in Seq(NodeOf(K, T, V)) /\ Len(s) = Len(ring)
      /\ \A x \in 1 .. Len(ring) : s[x] = IF x = j THEN m ELSE ring[x]
  BY <1>1, <1>3
<1>5. Alike(ring, s)
  BY <1>1, <1>4 DEF Alike
<1> QED
  BY <1>2, <1>3, <1>4, <1>5

\* __hash_get counts an access.
LEMMA TouchIs ==
  ASSUME NEW K, NEW T, NEW V, NEW ring \in Seq(NodeOf(K, T, V)),
         NEW j \in 0 .. Len(ring)
  PROVE  Touch(ring, j) \in Seq(NodeOf(K, T, V)) /\ Alike(ring, Touch(ring, j))
<1>1. CASE j = 0
  BY <1>1 DEF Touch, Alike
<1>2. CASE j # 0
  <2>1. j \in 1 .. Len(ring)
    BY <1>2
  <2>2. ring[j] \in NodeOf(K, T, V)
    BY <2>1
  <2>3. ring[j].counter \in 0 .. NODE_COUNTER - 1
    BY <2>2 DEF NodeOf
  <2>4. (ring[j].counter + 1) % NODE_COUNTER \in 0 .. NODE_COUNTER - 1
    BY <2>3, HotRingAssumption
  <2>5. Touch(ring, j) = WithCounter(ring, j, (ring[j].counter + 1) % NODE_COUNTER)
    BY <1>2 DEF Touch, WithCounter
  <2> QED
    BY <2>1, <2>4, <2>5, WithCounterIs
<1> QED
  BY <1>1, <1>2

\* do_hotspot_shift resets the counters.
LEMMA CooledIs ==
  ASSUME NEW K, NEW T, NEW V, NEW ring \in Seq(NodeOf(K, T, V))
  PROVE  Cooled(ring) \in Seq(NodeOf(K, T, V)) /\ Alike(ring, Cooled(ring))
<1>1. 0 \in 0 .. NODE_COUNTER - 1
  BY HotRingAssumption
<1>2. PICK s : s = Cooled(ring)
  OBVIOUS
<1>3. \A x \in 1 .. Len(ring) :
        s[x] \in NodeOf(K, T, V) /\ s[x].key = ring[x].key
        /\ s[x].tag = ring[x].tag /\ s[x].value = ring[x].value
  <2> SUFFICES ASSUME NEW x \in 1 .. Len(ring)
               PROVE  s[x] \in NodeOf(K, T, V) /\ s[x].key = ring[x].key
                      /\ s[x].tag = ring[x].tag /\ s[x].value = ring[x].value
    OBVIOUS
  <2>1. ring[x] \in NodeOf(K, T, V) /\ s[x] = [ring[x] EXCEPT !.counter = 0]
    BY <1>2 DEF Cooled
  <2> QED
    BY <2>1, <1>1 DEF NodeOf
<1>4. s \in Seq(NodeOf(K, T, V)) /\ Len(s) = Len(ring)
  <2>1. s = [x \in 1 .. Len(ring) |-> s[x]]
    BY <1>2 DEF Cooled
  <2> QED
    BY <2>1, <1>3
<1> QED
  BY <1>2, <1>3, <1>4 DEF Alike
----------------------------------------------------------------------------
(* Sorted rings stay sorted.                                               *)

\* The counters do not matter.
LEMMA SortedAlike ==
  ASSUME NEW r, NEW s, Alike(r, s), Sorted(r)
  PROVE  Sorted(s)
BY DEF Alike, Sorted, SortedAt

\* Another head of the same ring.
LEMMA SortedRotate ==
  ASSUME NEW r, NEW s, Len(r) \in Nat, \A x \in 1 .. Len(r) : r[x].tag \in Nat,
         NEW t \in 1 .. Len(r), Len(s) = Len(r),
         \A q, a \in 1 .. Len(r) :
           Before(Len(r), t, q, a) => s[q].tag = r[a].tag,
         Sorted(r)
  PROVE  Sorted(s)
<1>1. PICK c \in 0 .. Len(r) : SortedAt(r, c)
  BY DEF Sorted
<1>2. CASE t <= c
  <2>1. SortedAt(s, c - t + 1)
    <3> SUFFICES ASSUME NEW x \in 1 .. Len(s), NEW y \in 1 .. Len(s), x < y
                 PROVE  /\ x <= c - t + 1 /\ c - t + 1 < y => s[y].tag <= s[x].tag
                        /\ x > c - t + 1 \/ y <= c - t + 1 => s[x].tag <= s[y].tag
      BY DEF SortedAt
    <3>1. PICK a \in 1 .. Len(r) : Before(Len(r), t, x, a)
      BY PlaceBefore
    <3>2. PICK b \in 1 .. Len(r) : Before(Len(r), t, y, b)
      BY PlaceBefore
    <3>3. s[x].tag = r[a].tag /\ s[y].tag = r[b].tag
          /\ r[a].tag \in Nat /\ r[b].tag \in Nat
      <4>1. s[x].tag = r[a].tag
        BY <3>1
      <4>2. s[y].tag = r[b].tag
        BY <3>2
      <4> QED
        BY <4>1, <4>2
    <3>4. /\ a < b /\ a <= c /\ c < b => r[b].tag <= r[a].tag
          /\ a < b /\ (a > c \/ b <= c) => r[a].tag <= r[b].tag
          /\ b < a /\ b <= c /\ c < a => r[a].tag <= r[b].tag
          /\ b < a /\ (b > c \/ a <= c) => r[b].tag <= r[a].tag
      BY <1>1 DEF SortedAt
    <3> QED
      BY <3>1, <3>2, <3>3, <3>4, <1>2 DEF Before
  <2> QED
    BY <2>1, <1>2 DEF Sorted
<1>3. CASE t > c
  <2>1. SortedAt(s, Len(r) - t + 1 + c)
    <3> SUFFICES ASSUME NEW x \in 1 .. Len(s), NEW y \in 1 .. Len(s), x < y
                 PROVE  /\ x <= Len(r) - t + 1 + c /\ Len(r) - t + 1 + c < y => s[y].tag <= s[x].tag
                        /\ x > Len(r) - t + 1 + c \/ y <= Len(r) - t + 1 + c => s[x].tag <= s[y].tag
      BY DEF SortedAt
    <3>1. PICK a \in 1 .. Len(r) : Before(Len(r), t, x, a)
      BY PlaceBefore
    <3>2. PICK b \in 1 .. Len(r) : Before(Len(r), t, y, b)
      BY PlaceBefore
    <3>3. s[x].tag = r[a].tag /\ s[y].tag = r[b].tag
          /\ r[a].tag \in Nat /\ r[b].tag \in Nat
      <4>1. s[x].tag = r[a].tag
        BY <3>1
      <4>2. s[y].tag = r[b].tag
        BY <3>2
      <4> QED
        BY <4>1, <4>2
    <3>4. /\ a < b /\ a <= c /\ c < b => r[b].tag <= r[a].tag
          /\ a < b /\ (a > c \/ b <= c) => r[a].tag <= r[b].tag
          /\ b < a /\ b <= c /\ c < a => r[a].tag <= r[b].tag
          /\ b < a /\ (b > c \/ a <= c) => r[b].tag <= r[a].tag
      BY <1>1 DEF SortedAt
    <3> QED
      BY <3>1, <3>2, <3>3, <3>4, <1>3 DEF Before
  <2> QED
    BY <2>1, <1>3 DEF Sorted
<1> QED
  BY <1>2, <1>3

\* An arc of a ring, closed.
LEMMA SortedArc ==
  ASSUME NEW r, NEW s, Len(r) \in Nat, \A x \in 1 .. Len(r) : r[x].tag \in Nat,
         NEW d \in Nat, Len(s) \in Nat, d + Len(s) <= Len(r),
         \A q \in 1 .. Len(s) : s[q].tag = r[q + d].tag,
         Sorted(r)
  PROVE  Sorted(s)
<1>1. PICK c \in 0 .. Len(r) : SortedAt(r, c)
  BY DEF Sorted
<1>2. CASE c <= d
  <2>1. SortedAt(s, 0)
    <3> SUFFICES ASSUME NEW x \in 1 .. Len(s), NEW y \in 1 .. Len(s), x < y
                 PROVE  /\ x <= 0 /\ 0 < y => s[y].tag <= s[x].tag
                        /\ x > 0 \/ y <= 0 => s[x].tag <= s[y].tag
      BY DEF SortedAt
    <3>1. PICK a \in 1 .. Len(r) : a = (x + d)
      BY <1>2
    <3>2. PICK b \in 1 .. Len(r) : b = (y + d)
      BY <1>2
    <3>3. s[x].tag = r[a].tag /\ s[y].tag = r[b].tag
          /\ r[a].tag \in Nat /\ r[b].tag \in Nat
      BY <3>1, <3>2
    <3>4. /\ a < b /\ a <= c /\ c < b => r[b].tag <= r[a].tag
          /\ a < b /\ (a > c \/ b <= c) => r[a].tag <= r[b].tag
          /\ b < a /\ b <= c /\ c < a => r[a].tag <= r[b].tag
          /\ b < a /\ (b > c \/ a <= c) => r[b].tag <= r[a].tag
      BY <1>1 DEF SortedAt
    <3> QED
      BY <3>1, <3>2, <3>3, <3>4, <1>2
  <2> QED
    BY <2>1 DEF Sorted
<1>3. CASE d < c /\ c <= d + Len(s)
  <2>1. SortedAt(s, c - d)
    <3> SUFFICES ASSUME NEW x \in 1 .. Len(s), NEW y \in 1 .. Len(s), x < y
                 PROVE  /\ x <= c - d /\ c - d < y => s[y].tag <= s[x].tag
                        /\ x > c - d \/ y <= c - d => s[x].tag <= s[y].tag
      BY DEF SortedAt
    <3>1. PICK a \in 1 .. Len(r) : a = (x + d)
      BY <1>3
    <3>2. PICK b \in 1 .. Len(r) : b = (y + d)
      BY <1>3
    <3>3. s[x].tag = r[a].tag /\ s[y].tag = r[b].tag
          /\ r[a].tag \in Nat /\ r[b].tag \in Nat
      BY <3>1, <3>2
    <3>4. /\ a < b /\ a <= c /\ c < b => r[b].tag <= r[a].tag
          /\ a < b /\ (a > c \/ b <= c) => r[a].tag <= r[b].tag
          /\ b < a /\ b <= c /\ c < a => r[a].tag <= r[b].tag
          /\ b < a /\ (b > c \/ a <= c) => r[b].tag <= r[a].tag
      BY <1>1 DEF SortedAt
    <3> QED
      BY <3>1, <3>2, <3>3, <3>4, <1>3
  <2> QED
    BY <2>1, <1>3 DEF Sorted
<1>4. CASE d + Len(s) < c
  <2>1. SortedAt(s, Len(s))
    <3> SUFFICES ASSUME NEW x \in 1 .. Len(s), NEW y \in 1 .. Len(s), x < y
                 PROVE  /\ x <= Len(s) /\ Len(s) < y => s[y].tag <= s[x].tag
                        /\ x > Len(s) \/ y <= Len(s) => s[x].tag <= s[y].tag
      BY DEF SortedAt
    <3>1. PICK a \in 1 .. Len(r) : a = (x + d)
      BY <1>4
    <3>2. PICK b \in 1 .. Len(r) : b = (y + d)
      BY <1>4
    <3>3. s[x].tag = r[a].tag /\ s[y].tag = r[b].tag
          /\ r[a].tag \in Nat /\ r[b].tag \in Nat
      BY <3>1, <3>2
    <3>4. /\ a < b /\ a <= c /\ c < b => r[b].tag <= r[a].tag
          /\ a < b /\ (a > c \/ b <= c) => r[a].tag <= r[b].tag
          /\ b < a /\ b <= c /\ c < a => r[a].tag <= r[b].tag
          /\ b < a /\ (b > c \/ a <= c) => r[b].tag <= r[a].tag
      BY <1>1 DEF SortedAt
    <3> QED
      BY <3>1, <3>2, <3>3, <3>4, <1>4
  <2> QED
    BY <2>1 DEF Sorted
<1> QED
  BY <1>2, <1>3, <1>4

\* A ring without the node at place p.
LEMMA SortedRemove ==
  ASSUME NEW r, NEW s, Len(r) \in Nat, \A x \in 1 .. Len(r) : r[x].tag \in Nat,
         NEW p \in 1 .. Len(r), Len(s) = Len(r) - 1,
         \A q \in 1 .. Len(s) :
           s[q].tag = IF q < p THEN r[q].tag ELSE r[q + 1].tag,
         Sorted(r)
  PROVE  Sorted(s)
<1>1. PICK c \in 0 .. Len(r) : SortedAt(r, c)
  BY DEF Sorted
<1>2. CASE p <= c
  <2>1. SortedAt(s, c - 1)
    <3> SUFFICES ASSUME NEW x \in 1 .. Len(s), NEW y \in 1 .. Len(s), x < y
                 PROVE  /\ x <= c - 1 /\ c - 1 < y => s[y].tag <= s[x].tag
                        /\ x > c - 1 \/ y <= c - 1 => s[x].tag <= s[y].tag
      BY DEF SortedAt
    <3>1. PICK a \in 1 .. Len(r) : a = (IF x < p THEN x ELSE x + 1)
      BY <1>2
    <3>2. PICK b \in 1 .. Len(r) : b = (IF y < p THEN y ELSE y + 1)
      BY <1>2
    <3>3. s[x].tag = r[a].tag /\ s[y].tag = r[b].tag
          /\ r[a].tag \in Nat /\ r[b].tag \in Nat
      BY <3>1, <3>2
    <3>4. /\ a < b /\ a <= c /\ c < b => r[b].tag <= r[a].tag
          /\ a < b /\ (a > c \/ b <= c) => r[a].tag <= r[b].tag
          /\ b < a /\ b <= c /\ c < a => r[a].tag <= r[b].tag
          /\ b < a /\ (b > c \/ a <= c) => r[b].tag <= r[a].tag
      BY <1>1 DEF SortedAt
    <3> QED
      BY <3>1, <3>2, <3>3, <3>4, <1>2
  <2> QED
    BY <2>1, <1>2 DEF Sorted
<1>3. CASE c < p
  <2>1. SortedAt(s, c)
    <3> SUFFICES ASSUME NEW x \in 1 .. Len(s), NEW y \in 1 .. Len(s), x < y
                 PROVE  /\ x <= c /\ c < y => s[y].tag <= s[x].tag
                        /\ x > c \/ y <= c => s[x].tag <= s[y].tag
      BY DEF SortedAt
    <3>1. PICK a \in 1 .. Len(r) : a = (IF x < p THEN x ELSE x + 1)
      BY <1>3
    <3>2. PICK b \in 1 .. Len(r) : b = (IF y < p THEN y ELSE y + 1)
      BY <1>3
    <3>3. s[x].tag = r[a].tag /\ s[y].tag = r[b].tag
          /\ r[a].tag \in Nat /\ r[b].tag \in Nat
      BY <3>1, <3>2
    <3>4. /\ a < b /\ a <= c /\ c < b => r[b].tag <= r[a].tag
          /\ a < b /\ (a > c \/ b <= c) => r[a].tag <= r[b].tag
          /\ b < a /\ b <= c /\ c < a => r[a].tag <= r[b].tag
          /\ b < a /\ (b > c \/ a <= c) => r[b].tag <= r[a].tag
      BY <1>1 DEF SortedAt
    <3> QED
      BY <3>1, <3>2, <3>3, <3>4, <1>3
  <2> QED
    BY <2>1, <1>3 DEF Sorted
<1> QED
  BY <1>2, <1>3

\* __hash_create's loop ends before the first node that fits, or before the
\* head.
LEMMA PositionIs ==
  ASSUME NEW ring, Len(ring) \in Nat \ {0}, NEW tag
  PROVE  /\ Position(ring, tag) \in 1 .. Len(ring)
         /\ Position(ring, tag) < Len(ring)
              => Fits(ring[Position(ring, tag)].tag, ring[Position(ring, tag) + 1].tag, tag)
         /\ \A i \in 1 .. Len(ring) - 1 :
              Fits(ring[i].tag, ring[i + 1].tag, tag) => Position(ring, tag) <= i
<1> DEFINE T == {Len(ring)} \cup
                {i \in 1 .. Len(ring) - 1 : Fits(ring[i].tag, ring[i + 1].tag, tag)}
<1>1. T \subseteq Nat /\ T # {}
  OBVIOUS
<1>2. Position(ring, tag) = Min(T)
  BY DEF Position
<1>3. Min(T) \in T /\ \A y \in T : Min(T) <= y
  BY <1>1, MinProperty
<1> HIDE DEF T
<1>4. Len(ring) \in T /\ \A i \in 1 .. Len(ring) - 1 :
                           Fits(ring[i].tag, ring[i + 1].tag, tag) => i \in T
  BY DEF T
<1>5. \A i \in T : i = Len(ring) \/ (i \in 1 .. Len(ring) - 1
                                     /\ Fits(ring[i].tag, ring[i + 1].tag, tag))
  BY DEF T
<1> QED
  BY <1>2, <1>3, <1>4, <1>5

\* If the loop reaches the head, no ascending stretch crosses the new tag.
LEMMA NoCrossing ==
  ASSUME NEW ring, Len(ring) \in Nat \ {0}, NEW tag \in Nat,
         \A x \in 1 .. Len(ring) : ring[x].tag \in Nat,
         \A i \in 1 .. Len(ring) - 1 : ~Fits(ring[i].tag, ring[i + 1].tag, tag),
         NEW x \in 1 .. Len(ring), NEW y \in 1 .. Len(ring), x < y,
         ring[x].tag < tag
  PROVE  ring[y].tag < tag
<1> SUFFICES ASSUME ring[y].tag >= tag PROVE FALSE
  OBVIOUS
<1> DEFINE T == {z \in x + 1 .. y : ring[z].tag >= tag}
<1>1. y \in T /\ T \subseteq Nat
  OBVIOUS
<1>2. PICK z \in T : \A w \in T : z <= w
  BY <1>1, Smallest
<1>3. z \in x + 1 .. y /\ ring[z].tag >= tag /\ z - 1 \notin T
  BY <1>2
<1>4. z - 1 \in 1 .. Len(ring) - 1 /\ ring[z - 1].tag < tag
  <2>1. CASE z - 1 = x
    BY <2>1
  <2>2. CASE z - 1 # x
    BY SMTT(30), <2>2, <1>3
  <2> QED
    BY <2>1, <2>2
<1>5. ring[(z - 1) + 1].tag >= tag
  BY <1>3
<1>6. Fits(ring[z - 1].tag, ring[(z - 1) + 1].tag, tag)
  BY <1>4, <1>5 DEF Fits
<1> QED
  BY <1>4, <1>6

\* s is r with a node of this tag after place p.
Inserted(r, s, p, tag) ==
  /\ Len(s) = Len(r) + 1
  /\ \A q \in 1 .. Len(s) :
       /\ q <= p => s[q].tag = r[q].tag
       /\ q = p + 1 => s[q].tag = tag
       /\ q > p + 1 => s[q].tag = r[q - 1].tag

\* A tag that belongs after the descent of the ring.
LEMMA SortedInsertLow ==
  ASSUME NEW r, NEW s, Len(r) \in Nat, \A x \in 1 .. Len(r) : r[x].tag \in Nat,
         NEW p \in 0 .. Len(r), NEW tag \in Nat, Inserted(r, s, p, tag),
         NEW c \in 0 .. Len(r), SortedAt(r, c), c <= p,
         \A x \in 1 .. Len(r) : /\ x <= c => tag <= r[x].tag
                                /\ c < x /\ x <= p => r[x].tag <= tag
                                /\ p < x => tag <= r[x].tag
  PROVE  Sorted(s)
<1>1. SortedAt(s, c)
  <2> SUFFICES ASSUME NEW x \in 1 .. Len(s), NEW y \in 1 .. Len(s), x < y
               PROVE  /\ x <= c /\ c < y => s[y].tag <= s[x].tag
                      /\ x > c \/ y <= c => s[x].tag <= s[y].tag
    BY DEF SortedAt
  <2>1. Len(s) = Len(r) + 1
    BY DEF Inserted
  <2>2. CASE x = p + 1
    <3>1. y - 1 \in 1 .. Len(r) /\ y - 1 > p
      BY <2>1, <2>2
    <3>2. s[x].tag = tag /\ s[y].tag = r[y - 1].tag /\ r[y - 1].tag \in Nat
      BY <2>1, <2>2, <3>1 DEF Inserted
    <3> QED
      BY <2>2, <3>1, <3>2
  <2>3. CASE y = p + 1
    <3>1. x \in 1 .. Len(r) /\ x <= p
      BY <2>1, <2>3
    <3>2. s[y].tag = tag /\ s[x].tag = r[x].tag /\ r[x].tag \in Nat
      BY <2>1, <2>3, <3>1 DEF Inserted
    <3> QED
      BY <2>3, <3>1, <3>2
  <2>4. CASE x # p + 1 /\ y # p + 1
    <3>1. PICK a \in 1 .. Len(r) : (a = x /\ x <= p) \/ (a = x - 1 /\ x > p + 1)
      <4>1. CASE x <= p
        BY <4>1
      <4>2. CASE x > p + 1
        <5>1. x - 1 \in 1 .. Len(r)
          BY <4>2, <2>1
        <5> QED
          BY <4>2, <5>1
      <4> QED
        BY <4>1, <4>2, <2>4
    <3>2. PICK b \in 1 .. Len(r) : (b = y /\ y <= p) \/ (b = y - 1 /\ y > p + 1)
      <4>1. CASE y <= p
        BY <4>1
      <4>2. CASE y > p + 1
        <5>1. y - 1 \in 1 .. Len(r)
          BY <4>2, <2>1
        <5> QED
          BY <4>2, <5>1
      <4> QED
        BY <4>1, <4>2, <2>4
    <3>3. s[x].tag = r[a].tag
      BY <3>1, <2>1 DEF Inserted
    <3>4. s[y].tag = r[b].tag
      BY <3>2, <2>1 DEF Inserted
    <3>5. /\ a < b /\ r[a].tag \in Nat /\ r[b].tag \in Nat
          /\ a <= c /\ c < b => r[b].tag <= r[a].tag
          /\ a > c \/ b <= c => r[a].tag <= r[b].tag
      <4>1. a < b
        BY <3>1, <3>2
      <4> QED
        BY <4>1 DEF SortedAt
    <3> QED
      BY <3>1, <3>2, <3>3, <3>4, <3>5
  <2> QED
    BY <2>2, <2>3, <2>4
<1>2. c \in 0 .. Len(s)
  BY DEF Inserted
<1> QED
  BY <1>1, <1>2 DEF Sorted

\* A tag that belongs before the descent of the ring.
LEMMA SortedInsertHigh ==
  ASSUME NEW r, NEW s, Len(r) \in Nat, \A x \in 1 .. Len(r) : r[x].tag \in Nat,
         NEW p \in 0 .. Len(r), NEW tag \in Nat, Inserted(r, s, p, tag),
         NEW c \in 0 .. Len(r), SortedAt(r, c), p <= c,
         \A x \in 1 .. Len(r) : /\ x <= p => r[x].tag <= tag
                                /\ p < x /\ x <= c => tag <= r[x].tag
                                /\ c < x => r[x].tag <= tag
  PROVE  Sorted(s)
<1>1. SortedAt(s, (c + 1))
  <2> SUFFICES ASSUME NEW x \in 1 .. Len(s), NEW y \in 1 .. Len(s), x < y
               PROVE  /\ x <= (c + 1) /\ (c + 1) < y => s[y].tag <= s[x].tag
                      /\ x > (c + 1) \/ y <= (c + 1) => s[x].tag <= s[y].tag
    BY DEF SortedAt
  <2>1. Len(s) = Len(r) + 1
    BY DEF Inserted
  <2>2. CASE x = p + 1
    <3>1. y - 1 \in 1 .. Len(r) /\ y - 1 > p
      BY <2>1, <2>2
    <3>2. s[x].tag = tag /\ s[y].tag = r[y - 1].tag /\ r[y - 1].tag \in Nat
      BY <2>1, <2>2, <3>1 DEF Inserted
    <3> QED
      BY <2>2, <3>1, <3>2
  <2>3. CASE y = p + 1
    <3>1. x \in 1 .. Len(r) /\ x <= p
      BY <2>1, <2>3
    <3>2. s[y].tag = tag /\ s[x].tag = r[x].tag /\ r[x].tag \in Nat
      BY <2>1, <2>3, <3>1 DEF Inserted
    <3> QED
      BY <2>3, <3>1, <3>2
  <2>4. CASE x # p + 1 /\ y # p + 1
    <3>1. PICK a \in 1 .. Len(r) : (a = x /\ x <= p) \/ (a = x - 1 /\ x > p + 1)
      <4>1. CASE x <= p
        BY <4>1
      <4>2. CASE x > p + 1
        <5>1. x - 1 \in 1 .. Len(r)
          BY <4>2, <2>1
        <5> QED
          BY <4>2, <5>1
      <4> QED
        BY <4>1, <4>2, <2>4
    <3>2. PICK b \in 1 .. Len(r) : (b = y /\ y <= p) \/ (b = y - 1 /\ y > p + 1)
      <4>1. CASE y <= p
        BY <4>1
      <4>2. CASE y > p + 1
        <5>1. y - 1 \in 1 .. Len(r)
          BY <4>2, <2>1
        <5> QED
          BY <4>2, <5>1
      <4> QED
        BY <4>1, <4>2, <2>4
    <3>3. s[x].tag = r[a].tag
      BY <3>1, <2>1 DEF Inserted
    <3>4. s[y].tag = r[b].tag
      BY <3>2, <2>1 DEF Inserted
    <3>5. /\ a < b /\ r[a].tag \in Nat /\ r[b].tag \in Nat
          /\ a <= c /\ c < b => r[b].tag <= r[a].tag
          /\ a > c \/ b <= c => r[a].tag <= r[b].tag
      <4>1. a < b
        BY <3>1, <3>2
      <4> QED
        BY <4>1 DEF SortedAt
    <3> QED
      BY <3>1, <3>2, <3>3, <3>4, <3>5
  <2> QED
    BY <2>2, <2>3, <2>4
<1>2. (c + 1) \in 0 .. Len(s)
  BY DEF Inserted
<1> QED
  BY <1>1, <1>2 DEF Sorted

\* A ring with a node linked in where __hash_create puts it is sorted again.
LEMMA SortedInsert ==
  ASSUME NEW r, NEW s, Len(r) \in Nat \ {0},
         \A x \in 1 .. Len(r) : r[x].tag \in Nat, NEW tag \in Nat,
         Inserted(r, s, Position(r, tag), tag), Sorted(r)
  PROVE  Sorted(s)
<1>1. PICK c \in 0 .. Len(r) : SortedAt(r, c)
  BY DEF Sorted
<1>2. PICK p \in 1 .. Len(r) : p = Position(r, tag)
  BY PositionIs
<1>3. Inserted(r, s, p, tag)
  BY <1>2
<1>4. /\ p < Len(r) => Fits(r[p].tag, r[p + 1].tag, tag)
      /\ \A i \in 1 .. Len(r) - 1 : Fits(r[i].tag, r[i + 1].tag, tag) => p <= i
  BY <1>2, PositionIs
<1>5. \A x, y \in 1 .. Len(r) :
        /\ x <= c /\ c < y => r[y].tag <= r[x].tag
        /\ x <= y /\ (x > c \/ y <= c) => r[x].tag <= r[y].tag
  BY <1>1 DEF SortedAt
<1>6. CASE p < Len(r)
  <2>1. p + 1 \in 1 .. Len(r)
    BY <1>6
  <2>2. CASE r[p].tag > r[p + 1].tag
    <3>1. p = c
      BY <2>1, <2>2, <1>5
    <3>2. tag <= r[p + 1].tag \/ r[p].tag < tag
      BY <1>4, <1>6, <2>1, <2>2 DEF Fits
    <3>3. CASE tag <= r[p + 1].tag
      <4>1. \A x \in 1 .. Len(r) : /\ x <= c => tag <= r[x].tag
                                   /\ c < x /\ x <= p => r[x].tag <= tag
                                   /\ p < x => tag <= r[x].tag
        BY <1>5, <2>1, <3>1, <3>3
      <4> QED
        BY <4>1, <3>1, <1>1, <1>3, SortedInsertLow
    <3>4. CASE r[p].tag < tag
      <4>1. \A x \in 1 .. Len(r) : /\ x <= p => r[x].tag <= tag
                                   /\ p < x /\ x <= c => tag <= r[x].tag
                                   /\ c < x => r[x].tag <= tag
        BY <1>5, <2>1, <3>1, <3>4
      <4>2. p \in 0 .. Len(r) /\ p <= c
        BY <3>1
      <4> QED
        BY <4>1, <4>2, <1>1, <1>3, SortedInsertHigh
    <3> QED
      BY <3>2, <3>3, <3>4
  <2>3. CASE ~ (r[p].tag > r[p + 1].tag)
    <3>1. r[p].tag < tag /\ tag <= r[p + 1].tag
      BY <1>4, <1>6, <2>1, <2>3 DEF Fits
    <3>2. p # c
      BY <1>5, <2>1, <3>1
    <3>3. CASE p < c
      <4>1. \A x \in 1 .. Len(r) : /\ x <= p => r[x].tag <= tag
                                   /\ p < x /\ x <= c => tag <= r[x].tag
                                   /\ c < x => r[x].tag <= tag
        BY <1>5, <2>1, <3>1, <3>3
      <4> QED
        BY <4>1, <3>3, <1>1, <1>3, SortedInsertHigh
    <3>4. CASE p > c
      <4>1. \A x \in 1 .. Len(r) : /\ x <= c => tag <= r[x].tag
                                   /\ c < x /\ x <= p => r[x].tag <= tag
                                   /\ p < x => tag <= r[x].tag
        BY <1>5, <2>1, <3>1, <3>4
      <4> QED
        BY SMTT(30), <4>1, <3>4, <1>1, <1>3, SortedInsertLow
    <3> QED
      BY <3>2, <3>3, <3>4
  <2> QED
    BY <2>2, <2>3
<1>7. CASE p = Len(r)
  <2>1. \A i \in 1 .. Len(r) - 1 : ~Fits(r[i].tag, r[i + 1].tag, tag)
    BY <1>4, <1>7
  <2>2. \A x, y \in 1 .. Len(r) : x < y /\ r[x].tag < tag => r[y].tag < tag
    BY <2>1, NoCrossing
  <2>3. CASE c \in 1 .. Len(r) - 1 /\ r[c].tag > r[c + 1].tag
    <3>1. c \in 1 .. Len(r) /\ c + 1 \in 1 .. Len(r)
      BY <2>3
    <3>2. r[c + 1].tag < tag /\ tag <= r[c].tag
      BY <2>1, <2>3, <3>1 DEF Fits
    <3>3. \A x \in 1 .. Len(r) : /\ x <= c => tag <= r[x].tag
                                 /\ c < x /\ x <= p => r[x].tag <= tag
                                 /\ p < x => tag <= r[x].tag
      <4> TAKE x \in 1 .. Len(r)
      <4>1. x <= c => tag <= r[x].tag
        BY <2>2, <3>1, <3>2
      <4>2. c < x => r[x].tag <= tag
        BY <2>2, <3>1, <3>2
      <4> QED
        BY <4>1, <4>2, <1>7
    <3> QED
      BY <3>3, <2>3, <1>1, <1>3, <1>7, SortedInsertLow
  <2>4. CASE c \notin 1 .. Len(r) - 1 \/ r[c].tag <= r[c + 1].tag
    <3>1. \A x, y \in 1 .. Len(r) : x <= y => r[x].tag <= r[y].tag
      <4> SUFFICES ASSUME NEW x \in 1 .. Len(r), NEW y \in 1 .. Len(r), x <= y
                   PROVE  r[x].tag <= r[y].tag
        OBVIOUS
      <4>1. CASE c = 0 \/ c = Len(r)
        BY <4>1, <1>5
      <4>2. CASE c \in 1 .. Len(r) - 1 /\ r[c].tag <= r[c + 1].tag
        <5>1. c \in 1 .. Len(r) /\ c + 1 \in 1 .. Len(r)
          BY <4>2
        <5>2. r[x].tag <= r[c].tag
          BY <5>1, <1>5
        <5>3. r[c + 1].tag <= r[y].tag
          BY <5>1, <1>5
        <5>4. r[x].tag \in Nat /\ r[y].tag \in Nat /\ r[c].tag \in Nat
              /\ r[c + 1].tag \in Nat
          BY <5>1
        <5> QED
          BY SMTT(30), <5>4, <5>2, <5>3, <4>2
      <4> QED
        BY <4>1, <4>2, <2>4
    <3>2. SortedAt(r, 0) /\ SortedAt(r, Len(r))
      BY <3>1 DEF SortedAt
    <3>3. 1 \in 1 .. Len(r)
      OBVIOUS
    <3>4. CASE r[1].tag < tag
      <4>1. \A x \in 1 .. Len(r) : /\ x <= 0 => tag <= r[x].tag
                                   /\ 0 < x /\ x <= p => r[x].tag <= tag
                                   /\ p < x => tag <= r[x].tag
        BY <2>2, <3>3, <3>4, <1>7
      <4> QED
        BY SMTT(30), <4>1, <3>2, <1>3, <1>7, SortedInsertLow
    <3>5. CASE ~ (r[1].tag < tag)
      <4>1. \A x \in 1 .. Len(r) : /\ x <= Len(r) => tag <= r[x].tag
                                   /\ Len(r) < x /\ x <= p => r[x].tag <= tag
                                   /\ p < x => tag <= r[x].tag
        BY <3>1, <3>3, <3>5, <1>7
      <4> QED
        BY <4>1, <3>2, <1>3, <1>7, SortedInsertLow
    <3> QED
      BY <3>4, <3>5
  <2> QED
    BY <2>3, <2>4
<1> QED
  BY <1>6, <1>7

\* __hash_create keeps a ring sorted and leaves its head in place; the new
\* node is right after Position.
LEMMA PlaceIs ==
  ASSUME NEW S, S \subseteq AnyNode, NEW ring \in Seq(S), NEW n \in S
  PROVE  LET s == Place(ring, n)
             p == IF ring = <<>> THEN 0 ELSE Position(ring, n.tag)
         IN  /\ s \in Seq(S) /\ Len(s) = Len(ring) + 1 /\ p \in 0 .. Len(ring)
             /\ ring # <<>> => p >= 1
             /\ \A q \in 1 .. Len(s) :
                  s[q] = IF q <= p THEN ring[q] ELSE IF q = p + 1 THEN n ELSE ring[q - 1]
             /\ Sorted(ring) => Sorted(s)
<1> DEFINE s == Place(ring, n)
           p == IF ring = <<>> THEN 0 ELSE Position(ring, n.tag)
<1>0. /\ n.tag \in Nat /\ Len(ring) \in Nat
      /\ \A x \in 1 .. Len(ring) : ring[x] \in S /\ ring[x].tag \in Nat
  BY DEF AnyNode, NodeOf
<1>1. CASE ring = <<>>
  <2>1. s = <<n>> /\ p = 0 /\ Len(ring) = 0
    BY <1>1 DEF Place
  <2>2. Sorted(s)
    BY <2>1 DEF Sorted, SortedAt
  <2> QED
    BY <2>1, <2>2, <1>1
<1>2. CASE ring # <<>>
  <2>1. Len(ring) \in Nat \ {0} /\ p = Position(ring, n.tag)
    BY <1>0, <1>2
  <2>2. p \in 1 .. Len(ring)
    BY <2>1, PositionIs
  <2>3. s = InsertAt(ring, p + 1, n)
    BY <1>2, <2>1 DEF Place
  <2> HIDE DEF s, p
  <2>4. p + 1 \in 1 .. Len(ring) + 1
    BY <2>2, <1>0
  <2>5. s \in Seq(S) /\ Len(s) = Len(ring) + 1
        /\ \A q \in 1 .. Len(ring) + 1 :
             s[q] = IF q < p + 1 THEN ring[q] ELSE IF q = p + 1 THEN n ELSE ring[q - 1]
    <3>1. PICK m \in 1 .. Len(ring) + 1 : m = p + 1
      BY <2>4
    <3>2. /\ InsertAt(ring, m, n) \in Seq(S)
          /\ Len(InsertAt(ring, m, n)) = Len(ring) + 1
          /\ \A q \in 1 .. Len(ring) + 1 :
               InsertAt(ring, m, n)[q] = IF q < m THEN ring[q]
                                         ELSE IF q = m THEN n ELSE ring[q - 1]
      BY InsertIs
    <3> QED
      BY <3>1, <3>2, <2>3
  <2>6. \A q \in 1 .. Len(s) :
          s[q] = IF q <= p THEN ring[q] ELSE IF q = p + 1 THEN n ELSE ring[q - 1]
    BY <2>5, <2>2, <1>0
  <2>7. ASSUME Sorted(ring) PROVE Sorted(s)
    <3>1. Inserted(ring, s, p, n.tag)
      BY <2>2, <2>5, <2>6, <1>0 DEF Inserted
    <3> QED
      BY <3>1, <2>1, <2>7, <1>0, SortedInsert
  <2> QED
    BY <2>2, <2>5, <2>6, <2>7, <1>0 DEF s, p
<1> QED
  BY <1>1, <1>2

\* A sorted ring descends at most once, its last node being followed by the
\* head.
LEMMA SortedOnce ==
  ASSUME NEW ring, Len(ring) \in Nat,
         \A x \in 1 .. Len(ring) : ring[x].tag \in Nat, Sorted(ring),
         NEW j \in 1 .. Len(ring), NEW l \in 1 .. Len(ring),
         NEW m \in 1 .. Len(ring), m = IF j = Len(ring) THEN 1 ELSE j + 1,
         NEW o \in 1 .. Len(ring), o = IF l = Len(ring) THEN 1 ELSE l + 1,
         ring[j].tag > ring[m].tag, ring[l].tag > ring[o].tag
  PROVE  j = l
<1>1. PICK c \in 0 .. Len(ring) : SortedAt(ring, c)
  BY DEF Sorted
<1>2. \A x \in 1 .. Len(ring) : \A y \in 1 .. Len(ring) :
        x < y => /\ x <= c /\ c < y => ring[y].tag <= ring[x].tag
                 /\ x > c \/ y <= c => ring[x].tag <= ring[y].tag
  BY <1>1 DEF SortedAt
<1>3. 1 \in 1 .. Len(ring) /\ Len(ring) \in 1 .. Len(ring)
  OBVIOUS
<1>4. j # Len(ring) => j = c
  BY <1>2, <1>3
<1>5. l # Len(ring) => l = c
  BY <1>2, <1>3, SMTT(30)
<1>6. j = Len(ring) => c = 0 \/ c = Len(ring)
  BY <1>2, <1>3
<1>7. l = Len(ring) => c = 0 \/ c = Len(ring)
  BY <1>2, <1>3
<1> QED
  BY <1>4, <1>5, <1>6, <1>7
----------------------------------------------------------------------------
(* __hash_get.                                                             *)

\* What __hash_get finds has the key, and is the first that has.
LEMMA FindIs ==
  ASSUME NEW S, NEW ring \in Seq(S), NEW key
  PROVE  /\ Find(ring, key) \in 0 .. Len(ring)
         /\ Find(ring, key) # 0
              => /\ ring[Find(ring, key)].key = key
                 /\ \A x \in 1 .. Len(ring) :
                      ring[x].key = key => Find(ring, key) <= x
<1> DEFINE ends == {j \in 2 .. Len(ring) :
                      \/ ring[j].key = key
                      \/ Passed(ring[j - 1].key, ring[j].key, key)}
<1>1. CASE ring = <<>>
  BY <1>1 DEF Find
<1>2. CASE ring # <<>> /\ ring[1].key = key
  <2>1. Find(ring, key) = 1 /\ 1 \in 1 .. Len(ring)
    BY <1>2 DEF Find
  <2> QED
    BY <2>1, <1>2
<1>3. CASE ring # <<>> /\ ring[1].key # key
  <2>1. Find(ring, key) = IF ends = {} THEN 0
                          ELSE IF ring[Min(ends)].key = key THEN Min(ends) ELSE 0
    BY <1>3 DEF Find
  <2>2. ends \subseteq Nat /\ ends \subseteq 1 .. Len(ring)
        /\ \A x \in 2 .. Len(ring) : ring[x].key = key => x \in ends
    OBVIOUS
  <2> HIDE DEF ends
  <2>3. CASE ends = {}
    BY <2>1, <2>3
  <2>4. CASE ends # {}
    <3>1. Min(ends) \in ends /\ \A x \in ends : Min(ends) <= x
      BY <2>2, <2>4, MinProperty
    <3>2. Min(ends) \in 1 .. Len(ring)
      BY <3>1, <2>2
    <3>3. \A x \in 1 .. Len(ring) : ring[x].key = key => Min(ends) <= x
      BY <3>1, <2>2, <1>3
    <3> QED
      BY <2>1, <2>4, <3>2, <3>3
  <2> QED
    BY <2>3, <2>4
<1> QED
  BY <1>1, <1>2, <1>3

\* In a sorted ring whose keys are its tags plus the same number, the search
\* does not stop before the key.
LEMMA FindComplete ==
  ASSUME NEW S, S \subseteq AnyNode, NEW ring \in Seq(S), Sorted(ring), NEW d \in Int,
         \A x \in 1 .. Len(ring) : ring[x].key = d + ring[x].tag,
         NEW a \in 1 .. Len(ring)
  PROVE  Find(ring, ring[a].key) # 0
<1>0. \A x \in 1 .. Len(ring) : ring[x].tag \in Nat /\ ring[x].key \in Nat
  BY DEF AnyNode, NodeOf
<1> DEFINE key == ring[a].key
           ends == {j \in 2 .. Len(ring) :
                      \/ ring[j].key = key
                      \/ Passed(ring[j - 1].key, ring[j].key, key)}
<1>1. CASE ring[1].key = key
  BY <1>1 DEF Find
<1>2. CASE ring[1].key # key
  <2>1. ring # <<>>
    OBVIOUS
  <2>2. Find(ring, key) = IF ends = {} THEN 0
                          ELSE IF ring[Min(ends)].key = key THEN Min(ends) ELSE 0
    BY <1>2, <2>1 DEF Find
  <2>3. a \in ends /\ ends \subseteq Nat
    BY <1>2
  <2>4. PICK m : m = Min(ends)
    OBVIOUS
  <2>5. m \in ends /\ m <= a
    BY <2>3, <2>4, MinProperty
  <2>6. SUFFICES ring[m].key = key
    <3>1. ends # {} /\ m # 0
      BY <2>3, <2>5
    <3> HIDE DEF ends
    <3> QED
      BY <3>1, <2>2, <2>4
  <2>7. SUFFICES ASSUME ring[m].key # key, Passed(ring[m - 1].key, ring[m].key, key)
                 PROVE  FALSE
    BY <2>5
  <2>8. m - 1 \in 1 .. Len(ring) /\ m \in 1 .. Len(ring) /\ m < a
    BY <2>5, <2>7
  <2>9. Passed(ring[m - 1].tag, ring[m].tag, ring[a].tag)
    <3>1. /\ ring[m - 1].key = d + ring[m - 1].tag /\ ring[m - 1].tag \in Nat
          /\ ring[m].key = d + ring[m].tag /\ ring[m].tag \in Nat
          /\ key = d + ring[a].tag /\ ring[a].tag \in Nat
      BY <2>8, <1>0
    <3> QED
      BY SMTT(30), <3>1, <2>7 DEF Passed
  <2>10. PICK c \in 0 .. Len(ring) : SortedAt(ring, c)
    BY DEF Sorted
  <2>11. /\ m - 1 <= c /\ c < m => ring[m].tag <= ring[m - 1].tag
         /\ m - 1 > c \/ m <= c => ring[m - 1].tag <= ring[m].tag
         /\ m - 1 <= c /\ c < a => ring[a].tag <= ring[m - 1].tag
         /\ m - 1 > c \/ a <= c => ring[m - 1].tag <= ring[a].tag
         /\ m <= c /\ c < a => ring[a].tag <= ring[m].tag
         /\ m > c \/ a <= c => ring[m].tag <= ring[a].tag
    BY <2>8, <2>10 DEF SortedAt
  <2>12. ring[m - 1].tag \in Nat /\ ring[m].tag \in Nat /\ ring[a].tag \in Nat
    BY <2>8, <1>0
  <2>13. PICK u \in Nat, v \in Nat, w \in Nat :
           u = ring[m - 1].tag /\ v = ring[m].tag /\ w = ring[a].tag
    BY <2>12
  <2>14. Passed(u, v, w)
    BY <2>9, <2>13
  <2>15. /\ m - 1 <= c /\ c < m => v <= u
         /\ m - 1 > c \/ m <= c => u <= v
         /\ m - 1 <= c /\ c < a => w <= u
         /\ m <= c /\ c < a => w <= v
         /\ m > c \/ a <= c => v <= w
    BY <2>11, <2>13
  <2>16. m \in Int /\ a \in Int /\ c \in Int /\ m < a
    BY <2>8
  <2> HIDE DEF key, ends
  <2> QED
    BY <2>14, <2>15, <2>16 DEF Passed
<1> QED
  BY <1>1, <1>2
----------------------------------------------------------------------------
(* Where the nodes of a ring that is cut in two end up.                    *)

\* f numbers the elements of R from 1 to n.
Numbers(f, n, R) ==
  /\ f \in [1 .. n -> R]
  /\ \A x, y \in 1 .. n : f[x] = f[y] => x = y
  /\ \A z \in R : \E x \in 1 .. n : f[x] = z

\* The same node but for its counter.
Similar(m, n) == m.key = n.key /\ m.tag = n.tag /\ m.value = n.value

\* The fields of the nodes of a ring.
LEMMA NodesAre ==
  ASSUME NEW ring \in Seq(AnyNode)
  PROVE  /\ Len(ring) \in Nat
         /\ \A x \in 1 .. Len(ring) : /\ ring[x] \in AnyNode /\ ring[x].tag \in Nat
                                      /\ ring[x].key \in Nat
<1>1. \A x \in 1 .. Len(ring) : ring[x] \in AnyNode
  OBVIOUS
<1>2. \A m \in AnyNode : m.tag \in Nat /\ m.key \in Nat
  BY DEF AnyNode, NodeOf
<1> QED
  BY <1>1, <1>2

\* The node that was at place p is at place q after the head moved to place t.
LEMMA MovedIs ==
  ASSUME NEW n \in Nat, NEW t \in 1 .. n, NEW p \in 1 .. n
  PROVE  /\ ((p + n - t) % n) + 1 \in 1 .. n
         /\ Before(n, t, ((p + n - t) % n) + 1, p)
<1>0. n \in Nat \ {0}
  OBVIOUS
<1>1. CASE p >= t
  <2>1. p - t \in 0 .. n - 1 /\ 1 \in Nat
    BY <1>1
  <2>2. (1 * n + (p - t)) % n = p - t
    BY <1>0, <2>1, DivModUnique
  <2>3. 1 * n + (p - t) = p + n - t
    OBVIOUS
  <2> QED
    BY <2>1, <2>2, <2>3, <1>1 DEF Before
<1>2. CASE p < t
  <2>1. p + n - t \in 0 .. n - 1 /\ 0 \in Nat
    BY <1>2
  <2>2. (0 * n + (p + n - t)) % n = p + n - t
    BY <1>0, <2>1, DivModUnique
  <2>3. 0 * n + (p + n - t) = p + n - t
    OBVIOUS
  <2> QED
    BY <2>1, <2>2, <2>3, <1>2 DEF Before
<1> QED
  BY <1>1, <1>2

\* Moving the head is one to one.
LEMMA BeforeOnce ==
  ASSUME NEW n \in Nat, NEW t \in 1 .. n,
         NEW q \in 1 .. n, NEW a \in 1 .. n, NEW r \in 1 .. n, NEW b \in 1 .. n,
         Before(n, t, q, a), Before(n, t, r, b)
  PROVE  q = r <=> a = b
BY DEF Before

\* A sequence without its head.
LEMMA TailIs ==
  ASSUME NEW S, NEW s \in Seq(S), s # <<>>
  PROVE  Tail(s) \in Seq(S) /\ Len(Tail(s)) = Len(s) - 1
         /\ \A x \in 1 .. Len(s) - 1 : Tail(s)[x] = s[x + 1]
OBVIOUS

\* The ring entered at its node p, without that node.
LEMMA FromIs ==
  ASSUME NEW part \in Seq(AnyNode), NEW p \in 1 .. Len(part), Sorted(part)
  PROVE  LET s == DropHead(Rotate(part, p)) IN
         /\ s \in Seq(AnyNode) /\ Sorted(s)
         /\ \E f : /\ Numbers(f, Len(s), (1 .. Len(part)) \ {p})
                   /\ \A x \in 1 .. Len(s) : s[x] = part[f[x]]
<1> DEFINE n == Len(part)
           w == Rotate(part, p)
           s == DropHead(w)
<1>1. n \in Nat /\ \A x \in 1 .. n : part[x].tag \in Nat
  BY NodesAre
<1>2. w \in Seq(AnyNode) /\ Len(w) = n
      /\ \A q, x \in 1 .. n : Before(n, p, q, x) => w[q] = part[x]
  BY RotateIs
<1> HIDE DEF w
<1>3. s = Tail(w) /\ w # <<>>
  BY <1>2 DEF DropHead
<1> HIDE DEF s
<1>4. s \in Seq(AnyNode) /\ Len(s) = n - 1 /\ \A x \in 1 .. n - 1 : s[x] = w[x + 1]
  BY <1>2, <1>3, TailIs
<1>5. Sorted(w)
  BY ZenonT(40), <1>1, <1>2, SortedRotate
<1>6. Sorted(s)
  <2>1. \A q \in 1 .. Len(s) : s[q].tag = w[q + 1].tag
    BY <1>4
  <2>2. \A x \in 1 .. Len(w) : w[x].tag \in Nat
    BY <1>2, NodesAre
  <2>3. Len(w) \in Nat /\ 1 \in Nat /\ Len(s) \in Nat /\ 1 + Len(s) <= Len(w)
    BY <1>1, <1>2, <1>4
  <2> QED
    BY <2>1, <2>2, <2>3, <1>5, SortedArc
<1> DEFINE f == [x \in 1 .. n - 1 |-> CHOOSE a \in 1 .. n : Before(n, p, x + 1, a)]
<1>7. \A x \in 1 .. n - 1 : f[x] \in 1 .. n /\ Before(n, p, x + 1, f[x])
  <2> TAKE x \in 1 .. n - 1
  <2>1. x + 1 \in 1 .. n
    BY <1>1
  <2>2. \E a \in 1 .. n : Before(n, p, x + 1, a)
    BY <2>1, <1>1, PlaceBefore
  <2> QED
    BY <2>2
<1>8. Before(n, p, 1, p) /\ 1 \in 1 .. n
  BY <1>1 DEF Before
<1>9. f \in [1 .. n - 1 -> (1 .. n) \ {p}]
  <2>1. \A x \in 1 .. n - 1 : f[x] # p
    <3> TAKE x \in 1 .. n - 1
    <3>1. x + 1 \in 1 .. n /\ x + 1 # 1
      BY <1>1
    <3> HIDE DEF f
    <3> QED
      BY <3>1, <1>1, <1>7, <1>8, BeforeOnce
  <2> QED
    BY <2>1, <1>7
<1> HIDE DEF f, n
<1>10. \A x, y \in 1 .. n - 1 : f[x] = f[y] => x = y
  <2> SUFFICES ASSUME NEW x \in 1 .. n - 1, NEW y \in 1 .. n - 1, f[x] = f[y]
               PROVE  x = y
    OBVIOUS
  <2>1. x + 1 \in 1 .. n /\ y + 1 \in 1 .. n
    BY <1>1
  <2>2. x + 1 = y + 1
    BY <2>1, <1>1, <1>7, BeforeOnce DEF n
  <2> QED
    BY <2>2
<1>11. \A z \in (1 .. n) \ {p} : \E x \in 1 .. n - 1 : f[x] = z
  <2> TAKE z \in (1 .. n) \ {p}
  <2>1. PICK q \in 1 .. n : Before(n, p, q, z)
    BY <1>1, MovedIs DEF n
  <2>2. q # 1
    BY <2>1, <1>1, <1>8, BeforeOnce DEF n
  <2>3. q - 1 \in 1 .. n - 1 /\ (q - 1) + 1 = q
    BY <2>2, <1>1
  <2>4. Before(n, p, q, f[q - 1]) /\ f[q - 1] \in 1 .. n
    BY <2>3, <1>7
  <2>5. f[q - 1] = z
    BY <2>1, <2>4, <1>1, BeforeOnce DEF n
  <2> QED
    BY <2>3, <2>5
<1>12. Numbers(f, Len(s), (1 .. n) \ {p})
  BY <1>4, <1>9, <1>10, <1>11 DEF Numbers
<1>13. \A x \in 1 .. Len(s) : s[x] = part[f[x]]
  <2> TAKE x \in 1 .. Len(s)
  <2>1. x \in 1 .. n - 1 /\ x + 1 \in 1 .. n
    BY <1>1, <1>4
  <2>2. s[x] = w[x + 1] /\ Before(n, p, x + 1, f[x]) /\ f[x] \in 1 .. n
    BY <2>1, <1>4, <1>7
  <2> QED
    BY <2>1, <2>2, <1>2 DEF n
<1>14. \E g : /\ Numbers(g, Len(s), (1 .. Len(part)) \ {p})
              /\ \A x \in 1 .. Len(s) : s[x] = part[g[x]]
  BY <1>12, <1>13 DEF n
<1> QED
  BY <1>4, <1>6, <1>14 DEF s, w

\* Places a to b of a ring, closed to a ring: its last node is written to.
Arc(cut, a, b) == WithCounter(SubSeq(cut, a, b), Len(SubSeq(cut, a, b)), 0)

\* An arc has the nodes it is cut from.
LEMMA ArcIs ==
  ASSUME NEW cut \in Seq(AnyNode), Sorted(cut),
         NEW a \in 1 .. Len(cut), NEW b \in a .. Len(cut)
  PROVE  /\ Arc(cut, a, b) \in Seq(AnyNode) /\ Sorted(Arc(cut, a, b))
         /\ Len(Arc(cut, a, b)) = b - a + 1
         /\ \A x \in 1 .. b - a + 1 : Similar(Arc(cut, a, b)[x], cut[x + a - 1])
<1> DEFINE u == SubSeq(cut, a, b)
<1>1. u \in Seq(AnyNode) /\ Len(u) = b - a + 1
      /\ \A x \in 1 .. b - a + 1 : u[x] = cut[x + a - 1]
  OBVIOUS
<1>2. Arc(cut, a, b) = WithCounter(u, Len(u), 0)
  BY DEF Arc
<1> HIDE DEF u
<1>3. Sorted(u)
  <2>1. \A q \in 1 .. Len(u) : u[q].tag = cut[q + (a - 1)].tag
    BY <1>1
  <2>2. a - 1 \in Nat /\ Len(u) \in Nat /\ (a - 1) + Len(u) <= Len(cut)
    BY <1>1
  <2>3. Len(cut) \in Nat /\ \A x \in 1 .. Len(cut) : cut[x].tag \in Nat
    BY NodesAre
  <2> QED
    BY <2>1, <2>2, <2>3, SortedArc
<1>4. Len(u) \in 1 .. Len(u) /\ 0 \in 0 .. NODE_COUNTER - 1
  BY <1>1, HotRingAssumption
<1>5. WithCounter(u, Len(u), 0) \in Seq(AnyNode) /\ Alike(u, WithCounter(u, Len(u), 0))
  BY <1>1, <1>4, WithCounterIs DEF AnyNode
<1>6. Sorted(WithCounter(u, Len(u), 0))
  BY <1>3, <1>5, SortedAlike
<1> QED
  BY <1>1, <1>2, <1>5, <1>6 DEF Alike, Similar

\* A half of the ring, entered at its milestone and without it.
LEMMA HalfRing ==
  ASSUME NEW cut \in Seq(AnyNode), Sorted(cut),
         NEW a \in 1 .. Len(cut), NEW b \in a .. Len(cut), NEW mile \in a .. b
  PROVE  LET s == DropHead(Rotate(Arc(cut, a, b), mile - a + 1)) IN
         /\ s \in Seq(AnyNode) /\ Sorted(s)
         /\ \E f : /\ Numbers(f, Len(s), (a .. b) \ {mile})
                   /\ \A x \in 1 .. Len(s) : Similar(s[x], cut[f[x]])
<1> DEFINE part == Arc(cut, a, b)
           p == mile - a + 1
           s == DropHead(Rotate(part, p))
<1>1. /\ part \in Seq(AnyNode) /\ Sorted(part) /\ Len(part) = b - a + 1
      /\ \A x \in 1 .. b - a + 1 : Similar(part[x], cut[x + a - 1])
  BY ArcIs
<1> HIDE DEF part
<1>2. p \in 1 .. Len(part)
  BY <1>1
<1>3. /\ s \in Seq(AnyNode) /\ Sorted(s)
      /\ \E g : /\ Numbers(g, Len(s), (1 .. Len(part)) \ {p})
                /\ \A x \in 1 .. Len(s) : s[x] = part[g[x]]
  <2> HIDE DEF p
  <2> QED
    BY <1>1, <1>2, FromIs
<1>4. PICK g : /\ Numbers(g, Len(s), (1 .. Len(part)) \ {p})
               /\ \A x \in 1 .. Len(s) : s[x] = part[g[x]]
  BY <1>3
<1> HIDE DEF s
<1> DEFINE f == [x \in 1 .. Len(s) |-> g[x] + a - 1]
<1>5. \A x \in 1 .. Len(s) : g[x] \in 1 .. b - a + 1 /\ g[x] # p
  BY <1>1, <1>4 DEF Numbers
<1>6. f \in [1 .. Len(s) -> (a .. b) \ {mile}]
  <2>1. \A x \in 1 .. Len(s) : g[x] + a - 1 \in (a .. b) \ {mile}
    BY <1>5
  <2> QED
    BY <2>1
<1>7. \A x, y \in 1 .. Len(s) : f[x] = f[y] => x = y
  <2> SUFFICES ASSUME NEW x \in 1 .. Len(s), NEW y \in 1 .. Len(s), f[x] = f[y]
               PROVE  x = y
    OBVIOUS
  <2>1. g[x] = g[y]
    BY <1>5
  <2> QED
    BY <2>1, <1>4 DEF Numbers
<1>8. \A z \in (a .. b) \ {mile} : \E x \in 1 .. Len(s) : f[x] = z
  <2> TAKE z \in (a .. b) \ {mile}
  <2>1. z - a + 1 \in (1 .. Len(part)) \ {p}
    BY <1>1
  <2>2. PICK x \in 1 .. Len(s) : g[x] = z - a + 1
    BY <2>1, <1>4 DEF Numbers
  <2>3. f[x] = z
    BY <2>2
  <2> QED
    BY <2>3
<1>9. Numbers(f, Len(s), (a .. b) \ {mile})
  BY <1>6, <1>7, <1>8 DEF Numbers
<1>10. \A x \in 1 .. Len(s) : Similar(s[x], cut[f[x]])
  BY <1>1, <1>4, <1>5
<1>11. \E h : /\ Numbers(h, Len(s), (a .. b) \ {mile})
              /\ \A x \in 1 .. Len(s) : Similar(s[x], cut[h[x]])
  BY <1>9, <1>10
<1> QED
  BY <1>3, <1>11 DEF s, part

\* The place in the ring of the node at place p, before nodes were linked in
\* at place a and then at place b.
Unlinked(a, b, p) ==
  LET q == IF p < b THEN p ELSE p - 1 IN IF q < a THEN q ELSE q - 1

\* The place of the node that was linked in first.
FirstLinked(a, b) == IF a >= b THEN a + 1 ELSE a

\* The places of the other nodes of a ring of n.
Others(n, a, b) == (1 .. n + 2) \ {b, FirstLinked(a, b)}

\* Linking two nodes in keeps the others apart.
LEMMA UnlinkedIs ==
  ASSUME NEW n \in Nat, NEW a \in 1 .. n + 1, NEW b \in 1 .. n + 2
  PROVE  /\ FirstLinked(a, b) \in 1 .. n + 2 /\ FirstLinked(a, b) # b
         /\ \A p \in Others(n, a, b) : Unlinked(a, b, p) \in 1 .. n
         /\ \A p, q \in Others(n, a, b) :
              Unlinked(a, b, p) = Unlinked(a, b, q) => p = q
<1> DEFINE m == FirstLinked(a, b)
           R == (1 .. n + 2) \ {b, m}
<1>1. m \in 1 .. n + 2 /\ m # b
  BY DEF FirstLinked
<1>2. \A p \in R : Unlinked(a, b, p) \in 1 .. n
  BY DEF Unlinked, FirstLinked
<1>3. \A p, q \in R : Unlinked(a, b, p) = Unlinked(a, b, q) => p = q
  BY DEF Unlinked, FirstLinked
<1> QED
  BY <1>1, <1>2, <1>3 DEF Others
\* And every node is among them.
LEMMA UnlinkedOnto ==
  ASSUME NEW n \in Nat, NEW a \in 1 .. n + 1, NEW b \in 1 .. n + 2, NEW z \in 1 .. n
  PROVE  \E p \in Others(n, a, b) : Unlinked(a, b, p) = z
<1> DEFINE y == IF z < a THEN z ELSE z + 1
           p == IF y < b THEN y ELSE y + 1
<1>1. p \in Others(n, a, b) /\ Unlinked(a, b, p) = z
  BY DEF Unlinked, FirstLinked, Others
<1> QED
  BY <1>1
----------------------------------------------------------------------------
(* hotring_rehash of one bucket.                                           *)

\* The names of Split.
Half == HalfTag(NBITS - k)
Base(i) == i * 2^(NBITS - k)
MileT(i) == Node(Base(i) + Half, Half, NULL)
Mile0(i) == Node(Base(i), 0, NULL)
AtT(ring) == Position(ring, Half) + 1
With1(i, ring) == Place(ring, MileT(i))
At0(i, ring) == Position(With1(i, ring), 0) + 1
With2(i, ring) == Place(With1(i, ring), Mile0(i))
Pos0(i, ring) == Find(With2(i, ring), Base(i))
PosT(i, ring) == Find(With2(i, ring), Base(i) + Half)
Cut(i, ring) ==
  Rotate(Touch(Touch(With2(i, ring), Pos0(i, ring)), PosT(i, ring)), Pos0(i, ring))
Moved(i, ring, p) ==
  ((p + Len(With2(i, ring)) - Pos0(i, ring)) % Len(With2(i, ring))) + 1
Parts(i, ring) ==
  << Arc(Cut(i, ring), 1, Moved(i, ring, PosT(i, ring)) - 1),
     Arc(Cut(i, ring), Moved(i, ring, PosT(i, ring)), Len(With2(i, ring))) >>
First(i, ring) == Len(Parts(i, ring)[1])
From(i, ring, p) ==
  DropHead(IF p <= First(i, ring) THEN Rotate(Parts(i, ring)[1], p)
           ELSE Rotate(Parts(i, ring)[2], p - First(i, ring)))
AtMile0(i, ring) == Moved(i, ring, At0(i, ring))
AtMileT(i, ring) == Moved(i, ring, FirstLinked(AtT(ring), At0(i, ring)))

\* Split in these names.
LEMMA SplitIs ==
  ASSUME NEW i, NEW ring
  PROVE  Split(i, ring) =
    IF Base(i) >= 2^(NBITS - 1) THEN [fault |-> "index"]
    ELSE IF Pos0(i, ring) <= 1 \/ PosT(i, ring) <= 1 THEN [fault |-> "null"]
    ELSE IF (AtMile0(i, ring) <= First(i, ring)) = (AtMileT(i, ring) <= First(i, ring))
         THEN [fault |-> "shared"]
    ELSE [fault |-> "none", even |-> From(i, ring, AtMile0(i, ring)),
          odd |-> From(i, ring, AtMileT(i, ring))]
BY DEF Split, Half, Base, MileT, Mile0, AtT, With1, At0, With2, Pos0, PosT, Cut, Moved,
       Parts, First, From, AtMile0, AtMileT, FirstLinked, Arc, WithCounter

\* The milestones are nodes.
LEMMA MilesAre ==
  ASSUME k \in K0 .. MaxK, NEW i \in Nat
  PROVE  /\ MileT(i) \in AnyNode /\ Mile0(i) \in AnyNode
         /\ Half \in Nat \ {0} /\ Base(i) \in Nat
         /\ MileT(i).tag = Half /\ MileT(i).key = Base(i) + Half
         /\ Mile0(i).tag = 0 /\ Mile0(i).key = Base(i)
<1>1. Half \in Nat \ {0} /\ 2^(NBITS - k) \in Nat
  BY HalfIs DEF Half
<1>2. Base(i) \in Nat
  BY <1>1 DEF Base
<1> HIDE DEF Half, Base
<1>3. 1 \in 0 .. NODE_COUNTER - 1
  BY HotRingAssumption
<1> QED
  BY <1>1, <1>2, <1>3 DEF MileT, Mile0, Node, AnyNode, NodeOf

\* What is stored can be in a ring.
LEMMA StoredAny ==
  StoredNode \subseteq AnyNode
<1>1. Keys \subseteq Nat /\ 0 .. 2^NBITS - 1 \subseteq Nat
  BY HotRingAssumption
<1> QED
  BY <1>1 DEF StoredNode, AnyNode, NodeOf

\* hotring_rehash_init: the ring with its two milestones.
LEMMA WithIs ==
  ASSUME k \in K0 .. MaxK, NEW i \in Nat,
         NEW ring \in Seq(StoredNode), ring # <<>>, Sorted(ring)
  PROVE  LET w == With2(i, ring)
             n == Len(ring)
             a == AtT(ring)
             b == At0(i, ring)
         IN  /\ n \in Nat \ {0} /\ w \in Seq(AnyNode) /\ Len(w) = n + 2 /\ Sorted(w)
             /\ a \in 2 .. n + 1 /\ b \in 2 .. n + 2
             /\ \A p \in (1 .. n + 2) \ {b, FirstLinked(a, b)} :
                  Unlinked(a, b, p) \in 1 .. n /\ w[p] = ring[Unlinked(a, b, p)]
             /\ w[b] = Mile0(i) /\ w[FirstLinked(a, b)] = MileT(i)
             /\ w[1] = ring[1]
<1> DEFINE v == With1(i, ring)
           w == With2(i, ring)
           n == Len(ring)
           a == AtT(ring)
           b == At0(i, ring)
<1>1. n \in Nat \ {0} /\ ring \in Seq(AnyNode)
  <2>1. ring \in Seq(AnyNode)
    BY StoredAny
  <2> QED
    BY <2>1
<1>2. /\ MileT(i) \in AnyNode /\ Mile0(i) \in AnyNode
      /\ MileT(i).tag = Half /\ Mile0(i).tag = 0
  BY MilesAre
<1>3. /\ v \in Seq(AnyNode) /\ Len(v) = n + 1 /\ Sorted(v) /\ a \in 2 .. n + 1
      /\ \A q \in 1 .. n + 1 :
           v[q] = IF q < a THEN ring[q] ELSE IF q = a THEN MileT(i) ELSE ring[q - 1]
  <2>1. LET s == Place(ring, MileT(i))
            p == IF ring = <<>> THEN 0 ELSE Position(ring, MileT(i).tag)
        IN  /\ s \in Seq(AnyNode) /\ Len(s) = Len(ring) + 1 /\ p \in 0 .. Len(ring)
            /\ ring # <<>> => p >= 1
            /\ \A q \in 1 .. Len(s) :
                 s[q] = IF q <= p THEN ring[q]
                        ELSE IF q = p + 1 THEN MileT(i) ELSE ring[q - 1]
            /\ Sorted(ring) => Sorted(s)
    BY <1>1, <1>2, PlaceIs
  <2>2. PICK p \in 1 .. n : p = Position(ring, Half)
    BY <2>1, <1>2
  <2>3. a = p + 1
    BY <2>2 DEF AtT
  <2>4. \A q \in 1 .. Len(v) : v[q] = IF q <= p THEN ring[q]
                               ELSE IF q = p + 1 THEN MileT(i) ELSE ring[q - 1]
    BY <2>1, <2>2, <1>2 DEF With1
  <2> HIDE DEF a
  <2> QED
    BY <2>1, <2>2, <2>3, <2>4, <1>1 DEF With1
<1> HIDE DEF v, a
<1>4. v # <<>>
  BY <1>1, <1>3
<1>5. /\ w \in Seq(AnyNode) /\ Len(w) = n + 2 /\ Sorted(w) /\ b \in 2 .. n + 2
      /\ \A q \in 1 .. n + 2 :
           w[q] = IF q < b THEN v[q] ELSE IF q = b THEN Mile0(i) ELSE v[q - 1]
  <2>1. LET s == Place(v, Mile0(i))
            p == IF v = <<>> THEN 0 ELSE Position(v, Mile0(i).tag)
        IN  /\ s \in Seq(AnyNode) /\ Len(s) = Len(v) + 1 /\ p \in 0 .. Len(v)
            /\ v # <<>> => p >= 1
            /\ \A q \in 1 .. Len(s) :
                 s[q] = IF q <= p THEN v[q]
                        ELSE IF q = p + 1 THEN Mile0(i) ELSE v[q - 1]
            /\ Sorted(v) => Sorted(s)
    BY <1>2, <1>3, PlaceIs
  <2>2. PICK p \in 1 .. Len(v) : p = Position(v, 0)
    BY <2>1, <1>2, <1>4
  <2>3. b = p + 1 /\ w = Place(v, Mile0(i))
    BY <2>2 DEF At0, With2, v
  <2>4. \A q \in 1 .. Len(w) : w[q] = IF q <= p THEN v[q]
                               ELSE IF q = p + 1 THEN Mile0(i) ELSE v[q - 1]
    BY <2>1, <2>2, <2>3, <1>2, <1>4
  <2>5. w \in Seq(AnyNode) /\ Len(w) = Len(v) + 1 /\ Sorted(w)
    BY <2>1, <2>3, <1>3
  <2> HIDE DEF b, w
  <2> QED
    BY <2>2, <2>3, <2>4, <2>5, <1>1, <1>3
<1> HIDE DEF w, b
<1>6. ASSUME NEW p \in (1 .. n + 2) \ {b, FirstLinked(a, b)}
      PROVE  Unlinked(a, b, p) \in 1 .. n /\ w[p] = ring[Unlinked(a, b, p)]
  <2>1. Unlinked(a, b, p) \in 1 .. n
    <3>1. a \in 1 .. n + 1 /\ b \in 1 .. n + 2 /\ n \in Nat /\ p \in Others(n, a, b)
      BY <1>1, <1>3, <1>5 DEF Others
    <3> QED
      BY <3>1, UnlinkedIs
  <2>2. PICK q \in 1 .. n + 1 : q = IF p < b THEN p ELSE p - 1
    BY <1>1, <1>5
  <2>3. w[p] = v[q] /\ q # a
    BY <2>2, <1>3, <1>5 DEF FirstLinked
  <2>4. v[q] = ring[IF q < a THEN q ELSE q - 1]
    BY <2>3, <1>3
  <2> QED
    BY <2>1, <2>2, <2>3, <2>4 DEF Unlinked
<1>7. w[b] = Mile0(i) /\ w[FirstLinked(a, b)] = MileT(i) /\ w[1] = ring[1]
  BY <1>1, <1>3, <1>5 DEF FirstLinked
<1> QED
  BY <1>1, <1>3, <1>5, <1>6, <1>7 DEF w, b, a, v

\* What a rehash starts from: a ring in use of a table that can still grow.
Splittable(i, ring) ==
  /\ k \in K0 .. MaxK /\ i \in Nat
  /\ ring \in Seq(StoredNode) /\ ring # <<>> /\ Sorted(ring)

\* Both milestones are found, and not at the head.
Found(i, ring) == Pos0(i, ring) > 1 /\ PosT(i, ring) > 1

\* The ring cut open before the node found for tag 0, and where the node
\* found for tag T/2 is in it.
LEMMA CutIs ==
  ASSUME NEW i, NEW ring, Splittable(i, ring), Found(i, ring)
  PROVE  LET w == With2(i, ring)
             N == Len(ring) + 2
             c == Cut(i, ring)
             pos == Pos0(i, ring)
             t == Moved(i, ring, PosT(i, ring))
         IN  /\ N \in Nat /\ pos \in 2 .. N /\ PosT(i, ring) \in 2 .. N
             /\ w[pos].key = Base(i) /\ w[PosT(i, ring)].key = Base(i) + Half
             /\ c \in Seq(AnyNode) /\ Len(c) = N /\ Sorted(c)
             /\ \A q, p \in 1 .. N : Before(N, pos, q, p) => Similar(c[q], w[p])
             /\ \A p \in 1 .. N : /\ Moved(i, ring, p) \in 1 .. N
                                  /\ Before(N, pos, Moved(i, ring, p), p)
             /\ t \in 2 .. N
             /\ Parts(i, ring) = << Arc(c, 1, t - 1), Arc(c, t, N) >>
             /\ First(i, ring) = t - 1
<1> DEFINE w == With2(i, ring)
           N == Len(ring) + 2
           c == Cut(i, ring)
           pos == Pos0(i, ring)
           post == PosT(i, ring)
           t == Moved(i, ring, post)
<1>1. N \in Nat /\ w \in Seq(AnyNode) /\ Len(w) = N /\ Sorted(w)
  BY WithIs DEF Splittable
<1>2. Half \in Nat \ {0} /\ Base(i) \in Nat
  BY MilesAre DEF Splittable
<1> HIDE DEF w
<1>3. pos \in 2 .. N /\ post \in 2 .. N
      /\ w[pos].key = Base(i) /\ w[post].key = Base(i) + Half
  <2>1. pos = Find(w, Base(i)) /\ post = Find(w, Base(i) + Half)
    BY DEF Pos0, PosT, w
  <2>2. pos \in 0 .. N /\ (pos # 0 => w[pos].key = Base(i))
    BY <2>1, <1>1, FindIs
  <2>3. post \in 0 .. N /\ (post # 0 => w[post].key = Base(i) + Half)
    BY <2>1, <1>1, FindIs
  <2> QED
    BY <2>2, <2>3, <1>1 DEF Found
<1> HIDE DEF pos, post, N
<1>4. PICK u : u = Touch(Touch(w, pos), post)
  OBVIOUS
<1>5. u \in Seq(AnyNode) /\ Alike(w, u) /\ Len(u) = N /\ Sorted(u)
  <2>1. Touch(w, pos) \in Seq(AnyNode) /\ Alike(w, Touch(w, pos))
    BY <1>1, <1>3, TouchIs DEF AnyNode
  <2>2. post \in 0 .. Len(Touch(w, pos))
    BY <2>1, <1>1, <1>3 DEF Alike
  <2>3. u \in Seq(AnyNode) /\ Alike(Touch(w, pos), u)
    BY <2>1, <2>2, <1>4, TouchIs DEF AnyNode
  <2>4. Alike(w, u)
    BY <2>1, <2>3 DEF Alike
  <2> QED
    BY <2>3, <2>4, <1>1, SortedAlike DEF Alike
<1>6. c = Rotate(u, pos)
  BY <1>4 DEF Cut, w, pos, post
<1> HIDE DEF c
<1>7. pos \in 1 .. Len(u)
  BY <1>3, <1>5, <1>1
<1>8. c \in Seq(AnyNode) /\ Len(c) = N
      /\ \A q, p \in 1 .. N : Before(N, pos, q, p) => c[q] = u[p]
  BY <1>5, <1>6, <1>7, RotateIs
<1>9. \A q, p \in 1 .. N : Before(N, pos, q, p) => Similar(c[q], w[p])
  BY <1>1, <1>5, <1>8 DEF Alike, Similar
<1>10. Sorted(c)
  <2>1. Len(u) \in Nat /\ \A x \in 1 .. Len(u) : u[x].tag \in Nat
    BY <1>5, NodesAre
  <2>2. \A q, p \in 1 .. Len(u) : Before(Len(u), pos, q, p) => c[q].tag = u[p].tag
    BY <1>5, <1>8
  <2> QED
    BY ZenonT(40), <2>1, <2>2, <1>5, <1>7, <1>8, SortedRotate
<1>11. \A p \in 1 .. N : /\ Moved(i, ring, p) \in 1 .. N
                         /\ Before(N, pos, Moved(i, ring, p), p)
  <2> TAKE p \in 1 .. N
  <2>1. Moved(i, ring, p) = ((p + N - pos) % N) + 1
    BY <1>1 DEF Moved, w, pos
  <2>2. pos \in 1 .. N
    BY <1>1, <1>3
  <2> QED
    BY <2>1, <2>2, <1>1, MovedIs
<1>12. t \in 2 .. N
  <2>1. post \in 1 .. N /\ pos \in 1 .. N /\ 1 \in 1 .. N
    BY <1>1, <1>3
  <2>2. t \in 1 .. N /\ Before(N, pos, t, post)
    BY <2>1, <1>11
  <2>3. pos # post
    BY <1>2, <1>3
  <2>4. Before(N, pos, 1, pos)
    BY <2>1, <1>1 DEF Before
  <2>5. t # 1
    BY <2>1, <2>2, <2>3, <2>4, <1>1, BeforeOnce
  <2> QED
    BY <2>2, <2>5
<1>13. Parts(i, ring) = << Arc(c, 1, t - 1), Arc(c, t, N) >>
  BY <1>1 DEF Parts, c, w, post
<1> HIDE DEF t
<1>14. First(i, ring) = t - 1
  <2>1. First(i, ring) = Len(Arc(c, 1, t - 1))
    BY <1>13 DEF First
  <2>2. PICK m : m = t - 1
    OBVIOUS
  <2>3. 1 \in 1 .. Len(c) /\ m \in 1 .. Len(c)
    BY <2>2, <1>1, <1>8, <1>12
  <2>4. Len(Arc(c, 1, m)) = m - 1 + 1
    BY <2>3, <1>8, <1>10, ArcIs
  <2> QED
    BY <2>1, <2>2, <2>4, <1>12
<1> QED
  BY <1>1, <1>3, <1>8, <1>9, <1>10, <1>11, <1>12, <1>13, <1>14
     DEF w, N, c, pos, post, t

\* Each of the new heads has a half of its own.
Apart(i, ring) ==
  (AtMile0(i, ring) <= First(i, ring)) # (AtMileT(i, ring) <= First(i, ring))

\* The two new rings have between them the nodes of the cut ring, without the
\* milestones.
LEMMA HalvesAre ==
  ASSUME NEW i, NEW ring, Splittable(i, ring), Found(i, ring), Apart(i, ring)
  PROVE  LET N == Len(ring) + 2
             c == Cut(i, ring)
             t == Moved(i, ring, PosT(i, ring))
             even == From(i, ring, AtMile0(i, ring))
             odd == From(i, ring, AtMileT(i, ring))
         IN  /\ even \in Seq(AnyNode) /\ Sorted(even)
             /\ odd \in Seq(AnyNode) /\ Sorted(odd)
             /\ \E f, g, R, Q :
                  /\ Numbers(f, Len(even), R) /\ Numbers(g, Len(odd), Q)
                  /\ R \cap Q = {}
                  /\ R \cup Q = (1 .. N) \ {AtMile0(i, ring), AtMileT(i, ring)}
                  /\ \A x \in 1 .. Len(even) : Similar(even[x], c[f[x]])
                  /\ \A x \in 1 .. Len(odd) : Similar(odd[x], c[g[x]])
                  /\ AtMile0(i, ring) <= First(i, ring)
                       => R \subseteq 1 .. t - 1 /\ Q \subseteq t .. N
<1> DEFINE N == Len(ring) + 2
           c == Cut(i, ring)
           t == Moved(i, ring, PosT(i, ring))
           m == AtMile0(i, ring)
           o == AtMileT(i, ring)
           even == From(i, ring, m)
           odd == From(i, ring, o)
<1>1. /\ N \in Nat /\ c \in Seq(AnyNode) /\ Len(c) = N /\ Sorted(c) /\ t \in 2 .. N
      /\ Parts(i, ring) = << Arc(c, 1, t - 1), Arc(c, t, N) >> /\ First(i, ring) = t - 1
  BY CutIs
<1>2. m \in 1 .. N /\ o \in 1 .. N
  <2>1. \A p \in 1 .. N : Moved(i, ring, p) \in 1 .. N
    BY CutIs
  <2>2. LET n == Len(ring) a == AtT(ring) b == At0(i, ring) IN
        n \in Nat /\ a \in 2 .. n + 1 /\ b \in 2 .. n + 2
    BY WithIs DEF Splittable
  <2>3. At0(i, ring) \in 1 .. N /\ FirstLinked(AtT(ring), At0(i, ring)) \in 1 .. N
    BY <2>2 DEF FirstLinked
  <2> QED
    BY <2>1, <2>3 DEF AtMile0, AtMileT
<1>3. (m <= t - 1) # (o <= t - 1)
  BY <1>1 DEF Apart
<1>4. ASSUME NEW p
      PROVE  From(i, ring, p) = IF p <= t - 1 THEN DropHead(Rotate(Arc(c, 1, t - 1), p))
                                ELSE DropHead(Rotate(Arc(c, t, N), p - (t - 1)))
  BY <1>1 DEF From
<1> HIDE DEF N, c, t, m, o
<1>5. ASSUME NEW p \in 1 .. t - 1
      PROVE  LET s == From(i, ring, p) IN
             /\ s \in Seq(AnyNode) /\ Sorted(s)
             /\ \E f : /\ Numbers(f, Len(s), (1 .. t - 1) \ {p})
                       /\ \A x \in 1 .. Len(s) : Similar(s[x], c[f[x]])
  <2>1. PICK b : b = t - 1
    OBVIOUS
  <2>2. 1 \in 1 .. Len(c) /\ b \in 1 .. Len(c) /\ p \in 1 .. b /\ p - 1 + 1 = p
    BY <2>1, <1>1
  <2>3. LET s == DropHead(Rotate(Arc(c, 1, b), p - 1 + 1)) IN
         /\ s \in Seq(AnyNode) /\ Sorted(s)
         /\ \E f : /\ Numbers(f, Len(s), (1 .. b) \ {p})
                   /\ \A x \in 1 .. Len(s) : Similar(s[x], c[f[x]])
    BY <2>2, <1>1, HalfRing
  <2>4. From(i, ring, p) = DropHead(Rotate(Arc(c, 1, b), p - 1 + 1))
    BY <2>1, <2>2, <1>4
  <2> QED
    BY <2>1, <2>3, <2>4
<1>6. ASSUME NEW p \in t .. N
      PROVE  LET s == From(i, ring, p) IN
             /\ s \in Seq(AnyNode) /\ Sorted(s)
             /\ \E f : /\ Numbers(f, Len(s), (t .. N) \ {p})
                       /\ \A x \in 1 .. Len(s) : Similar(s[x], c[f[x]])
  <2>1. t \in 1 .. Len(c) /\ N \in t .. Len(c) /\ p - (t - 1) = p - t + 1
        /\ ~ (p <= t - 1)
    BY <1>1
  <2>2. LET s == DropHead(Rotate(Arc(c, t, N), p - t + 1)) IN
         /\ s \in Seq(AnyNode) /\ Sorted(s)
         /\ \E f : /\ Numbers(f, Len(s), (t .. N) \ {p})
                   /\ \A x \in 1 .. Len(s) : Similar(s[x], c[f[x]])
    BY <2>1, <1>1, HalfRing
  <2>3. From(i, ring, p) = DropHead(Rotate(Arc(c, t, N), p - t + 1))
    BY <2>1, <1>4
  <2> QED
    BY <2>2, <2>3
<1>7. CASE m <= t - 1
  <2>1. m \in 1 .. t - 1 /\ o \in t .. N
    BY <1>1, <1>2, <1>3, <1>7
  <2>2. PICK f : /\ Numbers(f, Len(even), (1 .. t - 1) \ {m})
                 /\ \A x \in 1 .. Len(even) : Similar(even[x], c[f[x]])
    BY <2>1, <1>5
  <2>3. PICK g : /\ Numbers(g, Len(odd), (t .. N) \ {o})
                 /\ \A x \in 1 .. Len(odd) : Similar(odd[x], c[g[x]])
    BY <2>1, <1>6
  <2>4. even \in Seq(AnyNode) /\ Sorted(even) /\ odd \in Seq(AnyNode) /\ Sorted(odd)
    BY <2>1, <1>5, <1>6
  <2> DEFINE R == (1 .. t - 1) \ {m}
             Q == (t .. N) \ {o}
  <2>5. R \cap Q = {} /\ R \cup Q = (1 .. N) \ {m, o}
        /\ R \subseteq 1 .. t - 1 /\ Q \subseteq t .. N
    BY <2>1, <1>1
  <2> HIDE DEF R, Q, even, odd
  <2>6. Numbers(f, Len(even), R) /\ Numbers(g, Len(odd), Q)
    BY <2>2, <2>3 DEF R, Q
  <2>7. \E fe, go, E, O :
                  /\ Numbers(fe, Len(even), E) /\ Numbers(go, Len(odd), O)
                  /\ E \cap O = {}
                  /\ E \cup O = (1 .. N) \ {m, o}
                  /\ \A x \in 1 .. Len(even) : Similar(even[x], c[fe[x]])
                  /\ \A x \in 1 .. Len(odd) : Similar(odd[x], c[go[x]])
                  /\ m <= First(i, ring) => E \subseteq 1 .. t - 1 /\ O \subseteq t .. N
    BY <2>2, <2>3, <2>5, <2>6
  <2> QED
    BY <2>4, <2>7 DEF even, odd, N, c, t, m, o
<1>8. CASE ~ (m <= t - 1)
  <2>1. o \in 1 .. t - 1 /\ m \in t .. N
    BY <1>1, <1>2, <1>3, <1>8
  <2>2. PICK f : /\ Numbers(f, Len(even), (t .. N) \ {m})
                 /\ \A x \in 1 .. Len(even) : Similar(even[x], c[f[x]])
    BY <2>1, <1>6
  <2>3. PICK g : /\ Numbers(g, Len(odd), (1 .. t - 1) \ {o})
                 /\ \A x \in 1 .. Len(odd) : Similar(odd[x], c[g[x]])
    BY <2>1, <1>5
  <2>4. even \in Seq(AnyNode) /\ Sorted(even) /\ odd \in Seq(AnyNode) /\ Sorted(odd)
    BY <2>1, <1>5, <1>6
  <2> DEFINE R == (t .. N) \ {m}
             Q == (1 .. t - 1) \ {o}
  <2>5. R \cap Q = {} /\ R \cup Q = (1 .. N) \ {m, o}
    BY <2>1, <1>1
  <2> HIDE DEF R, Q, even, odd
  <2>6. Numbers(f, Len(even), R) /\ Numbers(g, Len(odd), Q) /\ ~ (m <= First(i, ring))
    BY <2>2, <2>3, <1>1, <1>8 DEF R, Q
  <2>7. \E fe, go, E, O :
                  /\ Numbers(fe, Len(even), E) /\ Numbers(go, Len(odd), O)
                  /\ E \cap O = {}
                  /\ E \cup O = (1 .. N) \ {m, o}
                  /\ \A x \in 1 .. Len(even) : Similar(even[x], c[fe[x]])
                  /\ \A x \in 1 .. Len(odd) : Similar(odd[x], c[go[x]])
                  /\ m <= First(i, ring) => E \subseteq 1 .. t - 1 /\ O \subseteq t .. N
    BY <2>2, <2>3, <2>5, <2>6
  <2> QED
    BY <2>4, <2>7 DEF even, odd, N, c, t, m, o
<1> QED
  BY <1>7, <1>8

\* The nodes of ring are, each once, in even or in odd.
Parted(ring, even, odd) ==
  \E f, g, R :
    /\ R \subseteq 1 .. Len(ring)
    /\ Numbers(f, Len(even), R) /\ Numbers(g, Len(odd), (1 .. Len(ring)) \ R)
    /\ \A x \in 1 .. Len(even) : Similar(even[x], ring[f[x]])
    /\ \A x \in 1 .. Len(odd) : Similar(odd[x], ring[g[x]])

\* One numbering after another.
LEMMA NumbersThrough ==
  ASSUME NEW n \in Nat, NEW f, NEW R, Numbers(f, n, R), NEW S, NEW h \in [S -> Nat],
         R \subseteq S, \A p, q \in S : h[p] = h[q] => p = q
  PROVE  Numbers([x \in 1 .. n |-> h[f[x]]], n, {h[p] : p \in R})
<1> DEFINE e == [x \in 1 .. n |-> h[f[x]]]
           T == {h[p] : p \in R}
<1>1. \A x \in 1 .. n : f[x] \in R /\ e[x] = h[f[x]]
  BY DEF Numbers
<1>2. e \in [1 .. n -> T]
  BY <1>1
<1>3. \A x, y \in 1 .. n : e[x] = e[y] => x = y
  BY <1>1 DEF Numbers
<1>4. \A z \in T : \E x \in 1 .. n : e[x] = z
  <2> TAKE z \in T
  <2>1. PICK p \in R : z = h[p]
    OBVIOUS
  <2>2. PICK x \in 1 .. n : f[x] = p
    BY DEF Numbers
  <2> QED
    BY <2>1, <2>2, <1>1
<1> HIDE DEF e, T
<1>5. Numbers(e, n, T)
  BY <1>2, <1>3, <1>4 DEF Numbers
<1> QED
  BY <1>5 DEF e, T

\* hotring_rehash of a bucket loses no node and duplicates none.
LEMMA SplitKeeps ==
  ASSUME NEW i, NEW ring, Splittable(i, ring), Found(i, ring), Apart(i, ring)
  PROVE  Parted(ring, From(i, ring, AtMile0(i, ring)), From(i, ring, AtMileT(i, ring)))
<1> DEFINE n == Len(ring)
           N == n + 2
           w == With2(i, ring)
           a == AtT(ring)
           b == At0(i, ring)
           l == FirstLinked(a, b)
           c == Cut(i, ring)
           pos == Pos0(i, ring)
           m == AtMile0(i, ring)
           o == AtMileT(i, ring)
           even == From(i, ring, m)
           odd == From(i, ring, o)
           S == (1 .. N) \ {m, o}
<1>1. /\ n \in Nat \ {0} /\ a \in 2 .. n + 1 /\ b \in 2 .. n + 2
      /\ \A p \in (1 .. N) \ {b, l} :
           Unlinked(a, b, p) \in 1 .. n /\ w[p] = ring[Unlinked(a, b, p)]
  BY WithIs DEF Splittable
<1>2. /\ N \in Nat /\ pos \in 2 .. N
      /\ \A q, p \in 1 .. N : Before(N, pos, q, p) => Similar(c[q], w[p])
      /\ \A p \in 1 .. N : /\ Moved(i, ring, p) \in 1 .. N
                           /\ Before(N, pos, Moved(i, ring, p), p)
  BY CutIs
<1>3. m = Moved(i, ring, b) /\ o = Moved(i, ring, l)
  BY DEF AtMile0, AtMileT
<1>4. /\ even \in Seq(AnyNode) /\ odd \in Seq(AnyNode)
      /\ \E f, g, R, Q :
                  /\ Numbers(f, Len(even), R) /\ Numbers(g, Len(odd), Q)
                  /\ R \cap Q = {}
                  /\ R \cup Q = S
                  /\ \A x \in 1 .. Len(even) : Similar(even[x], c[f[x]])
                  /\ \A x \in 1 .. Len(odd) : Similar(odd[x], c[g[x]])
  BY HalvesAre
<1> HIDE DEF w, a, b, c, pos, m, o, even, odd
<1>5. /\ l \in 1 .. n + 2
      /\ \A p, q \in (1 .. n + 2) \ {b, l} : Unlinked(a, b, p) = Unlinked(a, b, q) => p = q
      /\ \A z \in 1 .. n : \E p \in (1 .. n + 2) \ {b, l} : Unlinked(a, b, p) = z
  <2>1. a \in 1 .. n + 1 /\ b \in 1 .. n + 2 /\ n \in Nat
    BY <1>1
  <2> HIDE DEF n
  <2>2. FirstLinked(a, b) \in 1 .. n + 2
    BY <2>1, UnlinkedIs
  <2>3. \A p, q \in Others(n, a, b) : Unlinked(a, b, p) = Unlinked(a, b, q) => p = q
    BY <2>1, UnlinkedIs
  <2>4. \A z \in 1 .. n : \E p \in Others(n, a, b) : Unlinked(a, b, p) = z
    BY <2>1, UnlinkedOnto
  <2> QED
    BY <2>2, <2>3, <2>4 DEF Others
<1> HIDE DEF l, n
<1> DEFINE P(q) == CHOOSE p \in 1 .. N : Before(N, pos, q, p)
<1>6. pos \in 1 .. N /\ b \in 1 .. N /\ N \in Nat /\ l \in 1 .. N /\ n \in Nat
  BY <1>1, <1>2, <1>5
<1> HIDE DEF N
<1>7. \A q \in 1 .. N : P(q) \in 1 .. N /\ Before(N, pos, q, P(q))
  BY <1>6, PlaceBefore
<1> HIDE DEF P
<1>8. ASSUME NEW q \in S
      PROVE  q \in 1 .. N /\ P(q) \in (1 .. N) \ {b, l}
  <2>1. q \in 1 .. N /\ q # m /\ q # o
    OBVIOUS
  <2>2. Before(N, pos, q, P(q)) /\ P(q) \in 1 .. N
    BY <2>1, <1>7
  <2>3. Before(N, pos, m, b) /\ Before(N, pos, o, l) /\ m \in 1 .. N /\ o \in 1 .. N
    BY <1>2, <1>3, <1>6
  <2>4. P(q) # b
    BY <2>1, <2>2, <2>3, <1>6, BeforeOnce
  <2>5. P(q) # l
    BY <2>1, <2>2, <2>3, <1>6, BeforeOnce
  <2> QED
    BY <2>1, <2>2, <2>4, <2>5
<1> DEFINE h == [q \in S |-> Unlinked(a, b, P(q))]
<1>9. \A q \in S : h[q] \in 1 .. n /\ Similar(c[q], ring[h[q]])
  <2> TAKE q \in S
  <2>1. q \in 1 .. N /\ P(q) \in (1 .. N) \ {b, l} /\ h[q] = Unlinked(a, b, P(q))
    BY <1>8
  <2>2. h[q] \in 1 .. n /\ w[P(q)] = ring[h[q]]
    BY <2>1, <1>1
  <2>3. Similar(c[q], w[P(q)])
    BY <2>1, <1>2, <1>7
  <2> QED
    BY <2>2, <2>3
<1>10. \A p, q \in S : h[p] = h[q] => p = q
  <2> SUFFICES ASSUME NEW p \in S, NEW q \in S, h[p] = h[q]
               PROVE  p = q
    OBVIOUS
  <2>1. P(p) = P(q)
    BY <1>5, <1>8 DEF N
  <2>2. p \in 1 .. N /\ q \in 1 .. N
    BY <1>8
  <2> QED
    BY <2>1, <2>2, <1>6, <1>7, BeforeOnce
<1>11. \A z \in 1 .. n : \E q \in S : h[q] = z
  <2> TAKE z \in 1 .. n
  <2>1. PICK p \in (1 .. N) \ {b, l} : Unlinked(a, b, p) = z
    BY <1>5 DEF N
  <2>2. PICK q : q = Moved(i, ring, p)
    OBVIOUS
  <2>3. q \in 1 .. N /\ Before(N, pos, q, p)
    BY <2>1, <2>2, <1>2
  <2>4. P(q) = p
    BY <2>1, <2>3, <1>6, <1>7, BeforeOnce
  <2>5. q # m /\ q # o
    <3>1. Before(N, pos, m, b) /\ Before(N, pos, o, l) /\ m \in 1 .. N /\ o \in 1 .. N
      BY <1>2, <1>3, <1>6
    <3>2. q # m
      BY <3>1, <2>1, <2>3, <1>6, BeforeOnce
    <3>3. q # o
      BY <3>1, <2>1, <2>3, <1>6, BeforeOnce
    <3> QED
      BY <3>2, <3>3
  <2> QED
    BY <2>1, <2>3, <2>4, <2>5
<1>12. h \in [S -> Nat]
  BY <1>9, <1>6
<1>13. PICK f, g, R, Q :
                  /\ Numbers(f, Len(even), R) /\ Numbers(g, Len(odd), Q)
                  /\ R \cap Q = {}
                  /\ R \cup Q = S
                  /\ \A x \in 1 .. Len(even) : Similar(even[x], c[f[x]])
                  /\ \A x \in 1 .. Len(odd) : Similar(odd[x], c[g[x]])
  BY <1>4
<1> HIDE DEF h, S
<1> DEFINE T == {h[p] : p \in R}
           U == {h[p] : p \in Q}
           fe == [x \in 1 .. Len(even) |-> h[f[x]]]
           go == [x \in 1 .. Len(odd) |-> h[g[x]]]
<1>14. Len(even) \in Nat /\ Len(odd) \in Nat
  BY <1>4
<1>15. Numbers(fe, Len(even), T)
  BY <1>10, <1>12, <1>13, <1>14, NumbersThrough
<1>16. Numbers(go, Len(odd), U)
  BY <1>10, <1>12, <1>13, <1>14, NumbersThrough
<1>17. T \subseteq 1 .. n /\ U = (1 .. n) \ T
  BY <1>9, <1>10, <1>11, <1>13
<1>18. \A x \in 1 .. Len(even) : Similar(even[x], ring[fe[x]])
  <2> TAKE x \in 1 .. Len(even)
  <2>1. f[x] \in S /\ Similar(even[x], c[f[x]]) /\ fe[x] = h[f[x]]
    BY <1>13 DEF Numbers
  <2> QED
    BY <2>1, <1>9 DEF Similar
<1>19. \A x \in 1 .. Len(odd) : Similar(odd[x], ring[go[x]])
  <2> TAKE x \in 1 .. Len(odd)
  <2>1. g[x] \in S /\ Similar(odd[x], c[g[x]]) /\ go[x] = h[g[x]]
    BY <1>13 DEF Numbers
  <2> QED
    BY <2>1, <1>9 DEF Similar
<1> HIDE DEF T, U, fe, go
<1>20. Parted(ring, even, odd)
  BY <1>15, <1>16, <1>17, <1>18, <1>19 DEF Parted, n
<1> QED
  BY <1>20 DEF even, odd, m, o
----------------------------------------------------------------------------
(* The first hotring_rehash: the tags of a ring are of one table size.     *)

\* A node is linked in before the nodes that have its tag, unless the head
\* is one of them.
LEMMA LinkedFirst ==
  ASSUME NEW ring \in Seq(AnyNode), ring # <<>>, NEW tag \in Nat, ring[1].tag # tag,
         NEW x \in 1 .. Len(ring), ring[x].tag = tag
  PROVE  Position(ring, tag) + 1 <= x
<1>1. Len(ring) \in Nat \ {0} /\ \A y \in 1 .. Len(ring) : ring[y].tag \in Nat
  BY NodesAre
<1> DEFINE T == {y \in 1 .. Len(ring) : ring[y].tag = tag}
<1>2. PICK y \in T : \A z \in T : y <= z
  <2>1. x \in T /\ T \subseteq Nat
    OBVIOUS
  <2> QED
    BY <2>1, Smallest
<1>3. y \in 1 .. Len(ring) /\ ring[y].tag = tag /\ y # 1 /\ y <= x
  BY <1>2
<1>4. PICK z \in 1 .. Len(ring) - 1 : z + 1 = y
  <2>1. y - 1 \in 1 .. Len(ring) - 1 /\ (y - 1) + 1 = y
    BY <1>1, <1>3
  <2> QED
    BY <2>1
<1>5. z \in 1 .. Len(ring) /\ ring[z].tag # tag
  BY <1>1, <1>2, <1>4
<1>6. Fits(ring[z].tag, ring[z + 1].tag, tag)
  BY <1>1, <1>3, <1>4, <1>5 DEF Fits
<1>7. Position(ring, tag) \in 1 .. Len(ring) /\ Position(ring, tag) <= z
  BY <1>1, <1>6, PositionIs
<1> QED
  BY <1>3, <1>4, <1>7

\* A ring in use of a table that was never rehashed.
Fresh(i, ring) == Splittable(i, ring) /\ k = K0 /\ Uniform(i, ring)

\* With its milestones the ring still has the tags of its keys, so that both
\* milestones are found, unless the head has the key of one.
LEMMA MilesFound ==
  ASSUME NEW i, NEW ring, Fresh(i, ring)
  PROVE  /\ \A p \in 1 .. Len(ring) + 2 :
              With2(i, ring)[p].key = Base(i) + With2(i, ring)[p].tag
         /\ ~Found(i, ring) => ring[1].key = Base(i) \/ ring[1].key = Base(i) + Half
         /\ Found(i, ring) => ring[1].tag # 0 /\ ring[1].tag # Half
<1> DEFINE w == With2(i, ring)
           n == Len(ring)
           a == AtT(ring)
           b == At0(i, ring)
           l == FirstLinked(a, b)
<1>0. Splittable(i, ring) /\ k = K0 /\ Uniform(i, ring) /\ k \in K0 .. MaxK /\ i \in Nat
  BY DEF Fresh, Splittable
<1>1. /\ n \in Nat \ {0} /\ w \in Seq(AnyNode) /\ Len(w) = n + 2 /\ Sorted(w)
      /\ a \in 2 .. n + 1 /\ b \in 2 .. n + 2
      /\ \A p \in (1 .. n + 2) \ {b, l} :
           Unlinked(a, b, p) \in 1 .. n /\ w[p] = ring[Unlinked(a, b, p)]
      /\ w[b] = Mile0(i) /\ w[l] = MileT(i) /\ w[1] = ring[1]
  BY <1>0, WithIs DEF Splittable
<1>2. /\ Half \in Nat \ {0} /\ Base(i) \in Nat
      /\ MileT(i).tag = Half /\ MileT(i).key = Base(i) + Half
      /\ Mile0(i).tag = 0 /\ Mile0(i).key = Base(i)
  BY <1>0, MilesAre
<1>3. \A x \in 1 .. n : ring[x].key = Base(i) + ring[x].tag
  BY <1>0 DEF Uniform, Base
<1> HIDE DEF w, a, b
<1>4. ASSUME NEW p \in 1 .. n + 2
      PROVE  w[p].key = Base(i) + w[p].tag
  <2>1. CASE p = b
    BY <2>1, <1>1, <1>2
  <2>2. CASE p = l
    BY <2>2, <1>1, <1>2
  <2>3. CASE p # b /\ p # l
    BY <2>3, <1>1, <1>3
  <2> QED
    BY <2>1, <2>2, <2>3
<1>5. l \in 1 .. n + 2 /\ b \in 1 .. n + 2
  BY <1>1 DEF FirstLinked
<1> HIDE DEF l, n
<1>6. Pos0(i, ring) \in Nat \ {0} /\ PosT(i, ring) \in Nat \ {0}
      /\ w[Pos0(i, ring)].key = Base(i) /\ w[PosT(i, ring)].key = Base(i) + Half
  <2>1. \A x \in 1 .. Len(w) : w[x].key = Base(i) + w[x].tag
    BY <1>1, <1>4
  <2>2. AnyNode \subseteq AnyNode /\ b \in 1 .. Len(w) /\ l \in 1 .. Len(w)
        /\ Base(i) \in Int
    BY <1>1, <1>2, <1>5
  <2>3. Find(w, w[b].key) # 0
    BY <2>1, <2>2, <1>1, FindComplete
  <2>4. Find(w, w[l].key) # 0
    BY <2>1, <2>2, <1>1, FindComplete
  <2>5. Find(w, Base(i)) \in 0 .. Len(w) /\ Find(w, Base(i) + Half) \in 0 .. Len(w)
        /\ (Find(w, Base(i)) # 0 => w[Find(w, Base(i))].key = Base(i))
        /\ (Find(w, Base(i) + Half) # 0
              => w[Find(w, Base(i) + Half)].key = Base(i) + Half)
    BY <1>1, FindIs
  <2> QED
    BY <2>3, <2>4, <2>5, <1>1, <1>2 DEF Pos0, PosT, w
<1>7. ~Found(i, ring) => ring[1].key = Base(i) \/ ring[1].key = Base(i) + Half
  <2>1. ~Found(i, ring) => Pos0(i, ring) = 1 \/ PosT(i, ring) = 1
    BY <1>6 DEF Found
  <2> QED
    BY <2>1, <1>1, <1>6
<1>8. Found(i, ring) => ring[1].tag # 0 /\ ring[1].tag # Half
  <2>1. 1 \in 1 .. Len(w)
    BY <1>1
  <2>2. w[1].key = Base(i) => Pos0(i, ring) <= 1
    BY <2>1, <1>1, <1>6, FindIs DEF Pos0, w
  <2>3. w[1].key = Base(i) + Half => PosT(i, ring) <= 1
    BY <2>1, <1>1, <1>6, FindIs DEF PosT, w
  <2>4. ring[1].key = Base(i) + ring[1].tag
    BY <1>1, <1>3 DEF n
  <2> QED
    BY <2>2, <2>3, <2>4, <1>1, <1>2, <1>6 DEF Found
<1> QED
  BY <1>4, <1>7, <1>8 DEF w, n

\* The search for a milestone ends at the milestone, not at another node that
\* has its key.
LEMMA MilesFirst ==
  ASSUME NEW i, NEW ring, Fresh(i, ring), Found(i, ring)
  PROVE  /\ Pos0(i, ring) = At0(i, ring)
         /\ PosT(i, ring) = FirstLinked(AtT(ring), At0(i, ring))
<1> DEFINE v == With1(i, ring)
           w == With2(i, ring)
           n == Len(ring)
           a == AtT(ring)
           b == At0(i, ring)
           l == FirstLinked(a, b)
<1>0. Splittable(i, ring) /\ k \in K0 .. MaxK /\ i \in Nat /\ ring \in Seq(StoredNode)
      /\ ring # <<>> /\ ring \in Seq(AnyNode)
  BY StoredAny DEF Fresh, Splittable
<1>1. /\ n \in Nat \ {0} /\ w \in Seq(AnyNode) /\ Len(w) = n + 2
      /\ a \in 2 .. n + 1 /\ b \in 2 .. n + 2
      /\ \A p \in (1 .. n + 2) \ {b, l} :
           Unlinked(a, b, p) \in 1 .. n /\ w[p] = ring[Unlinked(a, b, p)]
      /\ w[b] = Mile0(i) /\ w[l] = MileT(i) /\ w[1] = ring[1]
  BY <1>0, WithIs DEF Splittable
<1>2. /\ Half \in Nat \ {0} /\ Base(i) \in Nat
      /\ MileT(i).tag = Half /\ MileT(i).key = Base(i) + Half
      /\ Mile0(i).tag = 0 /\ Mile0(i).key = Base(i)
      /\ MileT(i) \in AnyNode /\ Mile0(i) \in AnyNode
  BY <1>0, MilesAre
<1>3. /\ \A p \in 1 .. n + 2 : w[p].key = Base(i) + w[p].tag
      /\ ring[1].tag # 0 /\ ring[1].tag # Half
  BY MilesFound
<1>4. \A p \in 1 .. n + 2 : w[p].tag \in Nat
  BY <1>1, NodesAre
<1>5. /\ Pos0(i, ring) \in 2 .. n + 2 /\ PosT(i, ring) \in 2 .. n + 2
      /\ w[Pos0(i, ring)].key = Base(i) /\ w[PosT(i, ring)].key = Base(i) + Half
  BY <1>0, CutIs
<1>6. l \in 1 .. n + 2 /\ b \in 1 .. n + 2
  BY <1>1 DEF FirstLinked
<1> HIDE DEF w
<1>7. Pos0(i, ring) <= b
  <2>1. Pos0(i, ring) = Find(w, Base(i))
    BY DEF Pos0, w
  <2>2. b \in 1 .. Len(w) /\ w[b].key = Base(i) /\ Find(w, Base(i)) # 0
    BY <2>1, <1>1, <1>2, <1>5, <1>6
  <2> QED
    BY <2>1, <2>2, <1>1, FindIs
<1>8. PosT(i, ring) <= l
  <2>1. PosT(i, ring) = Find(w, Base(i) + Half)
    BY DEF PosT, w
  <2>2. l \in 1 .. Len(w) /\ w[l].key = Base(i) + Half /\ Find(w, Base(i) + Half) # 0
    BY <2>1, <1>1, <1>2, <1>5, <1>6
  <2> HIDE DEF l
  <2> QED
    BY <2>1, <2>2, <1>1, FindIs
<1>9. w[Pos0(i, ring)].tag = 0 /\ w[PosT(i, ring)].tag = Half
  <2>1. Pos0(i, ring) \in 1 .. n + 2 /\ PosT(i, ring) \in 1 .. n + 2
    BY <1>5, <1>1
  <2> QED
    BY SMTT(30), <2>1, <1>2, <1>3, <1>4, <1>5
<1>10. Pos0(i, ring) >= b
  <2> SUFFICES ASSUME Pos0(i, ring) < b PROVE FALSE
    BY <1>1, <1>5
  <2> DEFINE p == Pos0(i, ring)
  <2>1. /\ v \in Seq(AnyNode) /\ v # <<>> /\ v[1] = ring[1] /\ Len(v) = n + 1
    <3>1. LET s == Place(ring, MileT(i))
              d == IF ring = <<>> THEN 0 ELSE Position(ring, MileT(i).tag)
          IN  /\ s \in Seq(AnyNode) /\ Len(s) = Len(ring) + 1 /\ d \in 0 .. Len(ring)
              /\ ring # <<>> => d >= 1
              /\ \A q \in 1 .. Len(s) :
                   s[q] = IF q <= d THEN ring[q]
                          ELSE IF q = d + 1 THEN MileT(i) ELSE ring[q - 1]
              /\ Sorted(ring) => Sorted(s)
      BY <1>0, <1>2, PlaceIs
    <3> QED
      BY <3>1, <1>0, <1>1 DEF With1
  <2>2. LET s == Place(v, Mile0(i))
            d == IF v = <<>> THEN 0 ELSE Position(v, Mile0(i).tag)
        IN  /\ s \in Seq(AnyNode) /\ Len(s) = Len(v) + 1 /\ d \in 0 .. Len(v)
            /\ v # <<>> => d >= 1
            /\ \A q \in 1 .. Len(s) :
                 s[q] = IF q <= d THEN v[q]
                        ELSE IF q = d + 1 THEN Mile0(i) ELSE v[q - 1]
            /\ Sorted(v) => Sorted(s)
    BY <2>1, <1>2, PlaceIs
  <2>3. Position(v, 0) + 1 = b /\ w = Place(v, Mile0(i))
    BY DEF At0, With2, w
  <2> HIDE DEF v
  <2>4. p \in 1 .. Len(w) /\ p \in 1 .. Len(v) /\ p <= Position(v, 0)
        /\ Position(v, 0) \in Int
    <3>1. Position(v, 0) \in 1 .. Len(v)
      <4>1. Len(v) \in Nat \ {0}
        BY <2>1
      <4> QED
        BY <4>1, PositionIs
    <3> QED
      BY <3>1, <2>1, <2>3, <1>1, <1>5
  <2>5. w[p] = v[p]
    BY <2>1, <2>2, <2>3, <2>4, <1>2
  <2>6. Position(v, 0) + 1 <= p
    <3>1. v[p].tag = 0 /\ v[1].tag # 0 /\ 0 \in Nat
      BY <2>1, <2>5, <1>3, <1>9
    <3> QED
      BY <3>1, <2>1, <2>4, LinkedFirst
  <2> QED
    BY <2>3, <2>4, <2>6
<1>11. PosT(i, ring) >= l
  <2> SUFFICES ASSUME PosT(i, ring) < l PROVE FALSE
    BY <1>1, <1>5, <1>6
  <2> DEFINE p == PosT(i, ring)
             u == Unlinked(a, b, p)
  <2>1. p # b
    BY <1>1, <1>2, <1>9
  <2>2. u \in 1 .. n /\ ring[u].tag = Half
    BY <2>1, <1>1, <1>5, <1>9
  <2>3. Position(ring, Half) + 1 <= u
    BY <2>2, <1>0, <1>2, <1>3, LinkedFirst
  <2>4. a <= u
    BY <2>3 DEF AtT
  <2>5. u < a
    <3> HIDE DEF a, b
    <3>1. p \in Int /\ p < FirstLinked(a, b) /\ p # b /\ a \in Int /\ b \in Int
      BY <2>1, <1>1, <1>5
    <3> HIDE DEF p
    <3> QED
      BY <3>1 DEF Unlinked, FirstLinked
  <2> QED
    BY <2>2, <2>4, <2>5, <1>1
<1> QED
  BY <1>1, <1>5, <1>6, <1>7, <1>8, <1>10, <1>11

\* The first rehash gives each new head a half of its own, and cuts between
\* the tags below T/2 and the others.
LEMMA FirstRehash ==
  ASSUME NEW i, NEW ring, Fresh(i, ring), Found(i, ring)
  PROVE  /\ Apart(i, ring) /\ AtMile0(i, ring) <= First(i, ring)
         /\ LET t == Moved(i, ring, PosT(i, ring)) IN
            \A x \in 1 .. Len(ring) + 2 :
              /\ x < t => Cut(i, ring)[x].tag < Half
              /\ x >= t => Cut(i, ring)[x].tag >= Half
<1> DEFINE w == With2(i, ring)
           N == Len(ring) + 2
           c == Cut(i, ring)
           pos == Pos0(i, ring)
           post == PosT(i, ring)
           t == Moved(i, ring, post)
<1>0. Splittable(i, ring) /\ k \in K0 .. MaxK /\ i \in Nat
  BY DEF Fresh, Splittable
<1>1. /\ N \in Nat /\ pos \in 2 .. N /\ post \in 2 .. N
      /\ w[pos].key = Base(i) /\ w[post].key = Base(i) + Half
      /\ c \in Seq(AnyNode) /\ Len(c) = N /\ Sorted(c)
      /\ \A q, p \in 1 .. N : Before(N, pos, q, p) => Similar(c[q], w[p])
      /\ \A p \in 1 .. N : /\ Moved(i, ring, p) \in 1 .. N
                           /\ Before(N, pos, Moved(i, ring, p), p)
      /\ t \in 2 .. N /\ First(i, ring) = t - 1
  BY <1>0, CutIs
<1>2. pos = At0(i, ring) /\ post = FirstLinked(AtT(ring), At0(i, ring))
  BY MilesFirst
<1>3. /\ \A p \in 1 .. N : w[p].key = Base(i) + w[p].tag
      /\ ring[1].tag # 0 /\ ring[1].tag # Half
  BY MilesFound
<1>4. w \in Seq(AnyNode) /\ Len(w) = N /\ w[1] = ring[1]
  BY <1>0, WithIs DEF Splittable
<1>5. Half \in Nat \ {0} /\ Base(i) \in Nat
  BY <1>0, MilesAre
<1>6. /\ pos = Find(w, Base(i)) /\ post = Find(w, Base(i) + Half)
  BY DEF Pos0, PosT
<1>7. AtMile0(i, ring) = Moved(i, ring, pos) /\ AtMileT(i, ring) = t
  BY <1>2 DEF AtMile0, AtMileT
<1> HIDE DEF w, c, pos, post, t, N
<1>8. pos \in 1 .. N /\ post \in 1 .. N /\ 1 \in 1 .. N /\ N \in 1 .. N /\ t \in 1 .. N
  BY <1>1, SMTT(30)
<1>8a. N \in Nat /\ pos \in 2 .. N /\ post \in 2 .. N /\ t \in 2 .. N
  BY <1>1
<1>8b. w[pos].key = Base(i) /\ w[post].key = Base(i) + Half
  BY <1>1
<1>9. Moved(i, ring, pos) = 1
  <2>1. Before(N, pos, 1, pos)
    BY <1>1 DEF Before
  <2>2. Moved(i, ring, pos) \in 1 .. N /\ Before(N, pos, Moved(i, ring, pos), pos)
    BY <1>1, <1>8
  <2> QED
    BY <2>1, <2>2, <1>1, <1>8, BeforeOnce
<1>10. Apart(i, ring) /\ AtMile0(i, ring) <= First(i, ring)
  <2>1. AtMile0(i, ring) <= First(i, ring) /\ ~ (AtMileT(i, ring) <= First(i, ring))
    BY <1>1, <1>7, <1>9
  <2> QED
    BY <2>1 DEF Apart
<1>11. \A p \in 1 .. N : w[p].tag \in Nat /\ c[p].tag \in Nat
  BY <1>1, <1>4, NodesAre
<1>12. \A p \in 1 .. N : w[p].tag = 0 => pos <= p
  <2> SUFFICES ASSUME NEW p \in 1 .. N, w[p].tag = 0 PROVE pos <= p
    OBVIOUS
  <2>1. p \in 1 .. Len(w) /\ w[p].key = Base(i) /\ Find(w, Base(i)) # 0
    <3>1. w[p].key = Base(i) + w[p].tag
      BY <1>3
    <3> QED
      BY <3>1, <1>8a, <1>4, <1>5, <1>6
  <2> QED
    BY <2>1, <1>4, <1>6, FindIs
<1>13. \A p \in 1 .. N : w[p].tag = Half => post <= p
  <2> SUFFICES ASSUME NEW p \in 1 .. N, w[p].tag = Half PROVE post <= p
    OBVIOUS
  <2>1. p \in 1 .. Len(w) /\ w[p].key = Base(i) + Half /\ Find(w, Base(i) + Half) # 0
    <3>1. w[p].key = Base(i) + w[p].tag
      BY <1>3
    <3> QED
      BY <3>1, <1>8a, <1>4, <1>5, <1>6
  <2> QED
    BY <2>1, <1>4, <1>6, FindIs
<1>14. c[1].tag = 0 /\ c[t].tag = Half /\ c[N].tag # 0
  <2>1. w[pos].tag = 0 /\ w[post].tag = Half
    <3>1. w[pos].key = Base(i) + w[pos].tag /\ w[post].key = Base(i) + w[post].tag
          /\ w[pos].tag \in Nat /\ w[post].tag \in Nat
      BY <1>3, <1>8, <1>11
    <3> QED
      BY <3>1, <1>5, <1>8b
  <2>2. Before(N, pos, 1, pos)
    BY <1>1 DEF Before
  <2>3. Before(N, pos, t, post)
    BY <1>1, <1>8 DEF t
  <2>4. Before(N, pos, N, pos - 1) /\ pos - 1 \in 1 .. N
    BY <1>1 DEF Before
  <2>5. w[pos - 1].tag # 0
    BY <2>4, <1>1, <1>12
  <2>6. Similar(c[1], w[pos]) /\ Similar(c[t], w[post]) /\ Similar(c[N], w[pos - 1])
    BY <2>2, <2>3, <2>4, <1>1, <1>8
  <2> QED
    BY <2>1, <2>5, <2>6 DEF Similar
<1>15. \A x, y \in 1 .. N : x <= y => c[x].tag <= c[y].tag
  <2>1. PICK d \in 0 .. N : SortedAt(c, d)
    BY <1>1 DEF Sorted
  <2>2. \A x, y \in 1 .. N :
          x < y => /\ x <= d /\ d < y => c[y].tag <= c[x].tag
                   /\ x > d \/ y <= d => c[x].tag <= c[y].tag
    BY <2>1, <1>1 DEF SortedAt
  <2>3. d = 0 \/ d = N
    <3> SUFFICES ASSUME d # 0, d # N PROVE FALSE
      OBVIOUS
    <3>1. 1 < N /\ 1 <= d /\ d < N
      BY <1>1
    <3>2. c[N].tag <= c[1].tag
      BY <3>1, <2>2, <1>8
    <3>3. c[N].tag \in Nat
      BY <1>8, <1>11
    <3> QED
      BY <3>2, <3>3, <1>14
  <2>4. \A x, y \in 1 .. N : x < y => c[x].tag <= c[y].tag
    BY <2>2, <2>3, <1>8a
  <2> QED
    BY <2>4, <1>11
<1>16. ASSUME NEW x \in 1 .. N, x >= t
       PROVE  c[x].tag >= Half
  BY <1>5, <1>8, <1>11, <1>14, <1>15, <1>16
<1>17. ASSUME NEW x \in 1 .. N, x < t
       PROVE  c[x].tag < Half
  <2>1. c[x].tag <= Half /\ c[x].tag \in Nat
    BY <1>8, <1>11, <1>14, <1>15, <1>17
  <2> SUFFICES ASSUME c[x].tag = Half PROVE FALSE
    BY <2>1, <1>5
  <2>2. PICK p \in 1 .. N : Before(N, pos, x, p)
    BY <1>1, <1>8, PlaceBefore
  <2>3. post <= p
    <3>1. w[p].tag = Half
      BY <2>2, <1>1 DEF Similar
    <3> QED
      BY <3>1, <1>13
  <2>4. Before(N, pos, t, post)
    BY <1>1, <1>8 DEF t
  <2>5. PICK y \in 1 .. N : y = N - pos + 2
    BY <1>1
  <2>6. Before(N, pos, y, 1)
    BY <2>5, <1>1 DEF Before
  <2>7. x <= y /\ y <= t
    <3>1. p # post
      BY <2>2, <2>4, <1>8, <1>17, <1>8a, BeforeOnce
    <3> QED
      BY <3>1, <2>2, <2>3, <2>4, <2>5, <1>17, <1>8a DEF Before
  <2>8. c[y].tag = Half
    <3>1. c[x].tag <= c[y].tag /\ c[y].tag <= c[t].tag /\ c[y].tag \in Nat
      BY <2>7, <1>8, <1>11, <1>15
    <3> QED
      BY <3>1, <1>5, <1>14
  <2>9. w[1].tag = Half
    <3>1. Similar(c[y], w[1])
      BY <2>6, <1>1, <1>8
    <3> QED
      BY <3>1, <2>8 DEF Similar
  <2> QED
    BY <2>9, <1>3, <1>4
<1>18. \A x \in 1 .. N : (x < t => c[x].tag < Half) /\ (x >= t => c[x].tag >= Half)
  BY <1>16, <1>17
<1> QED
  BY <1>10, <1>18 DEF N, c, t, post

\* A ring made of the nodes of a stored ring is one.
LEMMA StaysStored ==
  ASSUME NEW ring \in Seq(StoredNode), NEW s \in Seq(AnyNode), NEW f, NEW R,
         Numbers(f, Len(s), R), R \subseteq 1 .. Len(ring),
         \A x \in 1 .. Len(s) : Similar(s[x], ring[f[x]])
  PROVE  s \in Seq(StoredNode)
<1>1. ASSUME NEW x \in 1 .. Len(s)
      PROVE  s[x] \in StoredNode
  <2>1. f[x] \in 1 .. Len(ring)
    BY DEF Numbers
  <2>2. ring[f[x]] \in StoredNode /\ s[x] \in AnyNode
    BY <2>1
  <2>3. Similar(s[x], ring[f[x]])
    OBVIOUS
  <2> QED
    BY <2>2, <2>3 DEF Similar, StoredNode, AnyNode, NodeOf
<1>2. Len(s) \in Nat /\ s = [x \in 1 .. Len(s) |-> s[x]]
  OBVIOUS
<1>3. s \in [1 .. Len(s) -> StoredNode]
  BY <1>1, <1>2
<1> QED
  BY <1>2, <1>3

\* hotring_rehash of one bucket faults or makes two good rings of its nodes.
LEMMA SplitGood ==
  ASSUME NEW i, NEW ring, Splittable(i, ring)
  PROVE  /\ Split(i, ring).fault \in {"none", "null", "index", "shared"}
         /\ Split(i, ring).fault = "none"
              => /\ RingOK(Split(i, ring).even) /\ RingOK(Split(i, ring).odd)
                 /\ Parted(ring, Split(i, ring).even, Split(i, ring).odd)
<1> DEFINE even == From(i, ring, AtMile0(i, ring))
           odd == From(i, ring, AtMileT(i, ring))
<1>1. Pos0(i, ring) \in Int /\ PosT(i, ring) \in Int
  <2>1. With2(i, ring) \in Seq(AnyNode)
    BY WithIs DEF Splittable
  <2>2. Pos0(i, ring) \in 0 .. Len(With2(i, ring)) /\ PosT(i, ring) \in 0 .. Len(With2(i, ring))
    BY <2>1, FindIs DEF Pos0, PosT
  <2> QED
    BY <2>2
<1>2. CASE Base(i) >= 2^(NBITS - 1)
  BY <1>2, SplitIs
<1>3. CASE ~ (Base(i) >= 2^(NBITS - 1)) /\ ~Found(i, ring)
  <2>1. Split(i, ring) = [fault |-> "null"]
    BY <1>1, <1>3, SplitIs DEF Found
  <2> QED
    BY <2>1
<1>4. CASE ~ (Base(i) >= 2^(NBITS - 1)) /\ Found(i, ring) /\ ~Apart(i, ring)
  <2>1. Split(i, ring) = [fault |-> "shared"]
    BY <1>1, <1>4, SplitIs DEF Found, Apart
  <2> QED
    BY <2>1
<1>5. CASE ~ (Base(i) >= 2^(NBITS - 1)) /\ Found(i, ring) /\ Apart(i, ring)
  <2>1. Split(i, ring) = [fault |-> "none", even |-> even, odd |-> odd]
    BY <1>1, <1>5, SplitIs DEF Found, Apart
  <2>2. Parted(ring, even, odd)
    BY <1>5, SplitKeeps
  <2>3. even \in Seq(AnyNode) /\ Sorted(even) /\ odd \in Seq(AnyNode) /\ Sorted(odd)
    BY <1>5, HalvesAre
  <2> HIDE DEF even, odd
  <2>4. even \in Seq(StoredNode) /\ odd \in Seq(StoredNode)
    <3>1. PICK f, g, R :
            /\ R \subseteq 1 .. Len(ring)
            /\ Numbers(f, Len(even), R) /\ Numbers(g, Len(odd), (1 .. Len(ring)) \ R)
            /\ \A x \in 1 .. Len(even) : Similar(even[x], ring[f[x]])
            /\ \A x \in 1 .. Len(odd) : Similar(odd[x], ring[g[x]])
      BY <2>2 DEF Parted
    <3>2. even \in Seq(StoredNode)
      BY <3>1, <2>3, StaysStored DEF Splittable
    <3>3. odd \in Seq(StoredNode)
      <4>1. (1 .. Len(ring)) \ R \subseteq 1 .. Len(ring)
        OBVIOUS
      <4> QED
        BY <4>1, <3>1, <2>3, StaysStored DEF Splittable
    <3> QED
      BY <3>2, <3>3
  <2> QED
    BY <2>1, <2>2, <2>3, <2>4 DEF RingOK
<1> QED
  BY <1>2, <1>3, <1>4, <1>5

\* The first hotring_rehash of a bucket dereferences NULL only if the head has
\* the key of a milestone, and never leaves two heads in one ring.
LEMMA FirstSplit ==
  ASSUME NEW i, NEW ring, Fresh(i, ring)
  PROVE  /\ Split(i, ring).fault # "shared"
         /\ Split(i, ring).fault = "null"
              => ring[1].key = Base(i) \/ ring[1].key = Base(i) + Half
         /\ Split(i, ring).fault = "none"
              => /\ \A x \in 1 .. Len(Split(i, ring).even) :
                      Split(i, ring).even[x].tag < Half
                 /\ \A x \in 1 .. Len(Split(i, ring).odd) :
                      Split(i, ring).odd[x].tag >= Half
<1> DEFINE even == From(i, ring, AtMile0(i, ring))
           odd == From(i, ring, AtMileT(i, ring))
           N == Len(ring) + 2
           c == Cut(i, ring)
           t == Moved(i, ring, PosT(i, ring))
<1>0. Splittable(i, ring)
  BY DEF Fresh
<1>1. Pos0(i, ring) \in Int /\ PosT(i, ring) \in Int
  <2>1. With2(i, ring) \in Seq(AnyNode)
    BY <1>0, WithIs DEF Splittable
  <2>2. Pos0(i, ring) \in 0 .. Len(With2(i, ring)) /\ PosT(i, ring) \in 0 .. Len(With2(i, ring))
    BY <2>1, FindIs DEF Pos0, PosT
  <2> QED
    BY <2>2
<1>2. CASE Base(i) >= 2^(NBITS - 1)
  <2>1. Split(i, ring) = [fault |-> "index"]
    BY <1>2, SplitIs
  <2> QED
    BY <2>1
<1>3. CASE ~ (Base(i) >= 2^(NBITS - 1)) /\ ~Found(i, ring)
  <2>1. Split(i, ring) = [fault |-> "null"]
    BY <1>1, <1>3, SplitIs DEF Found
  <2>2. ring[1].key = Base(i) \/ ring[1].key = Base(i) + Half
    BY <1>3, MilesFound
  <2> QED
    BY <2>1, <2>2
<1>4. CASE ~ (Base(i) >= 2^(NBITS - 1)) /\ Found(i, ring)
  <2>1. /\ Apart(i, ring) /\ AtMile0(i, ring) <= First(i, ring)
        /\ \A x \in 1 .. N : (x < t => c[x].tag < Half) /\ (x >= t => c[x].tag >= Half)
    BY <1>4, FirstRehash
  <2>2. Split(i, ring) = [fault |-> "none", even |-> even, odd |-> odd]
    BY <1>1, <1>4, <2>1, SplitIs DEF Found, Apart
  <2>3. N \in Nat /\ t \in 2 .. N
    BY <1>0, <1>4, CutIs
  <2>4. /\ \E f, g, R, Q :
                  /\ Numbers(f, Len(even), R) /\ Numbers(g, Len(odd), Q)
                  /\ R \cap Q = {}
                  /\ R \cup Q = (1 .. N) \ {AtMile0(i, ring), AtMileT(i, ring)}
                  /\ \A x \in 1 .. Len(even) : Similar(even[x], c[f[x]])
                  /\ \A x \in 1 .. Len(odd) : Similar(odd[x], c[g[x]])
                  /\ AtMile0(i, ring) <= First(i, ring)
                       => R \subseteq 1 .. t - 1 /\ Q \subseteq t .. N
    BY <1>0, <1>4, <2>1, HalvesAre
  <2> HIDE DEF even, odd, N, c, t
  <2>5. PICK f, g, R, Q :
                  /\ Numbers(f, Len(even), R) /\ Numbers(g, Len(odd), Q)
                  /\ \A x \in 1 .. Len(even) : Similar(even[x], c[f[x]])
                  /\ \A x \in 1 .. Len(odd) : Similar(odd[x], c[g[x]])
                  /\ R \subseteq 1 .. t - 1 /\ Q \subseteq t .. N
    BY <2>1, <2>4
  <2>6. \A x \in 1 .. Len(even) : even[x].tag < Half
    <3> TAKE x \in 1 .. Len(even)
    <3>1. f[x] \in 1 .. N /\ f[x] < t /\ Similar(even[x], c[f[x]])
      <4>1. f[x] \in 1 .. t - 1 /\ Similar(even[x], c[f[x]])
        BY <2>5 DEF Numbers
      <4> QED
        BY <4>1, <2>3
    <3> QED
      BY <3>1, <2>1 DEF Similar
  <2>7. \A x \in 1 .. Len(odd) : odd[x].tag >= Half
    <3> TAKE x \in 1 .. Len(odd)
    <3>1. g[x] \in 1 .. N /\ g[x] >= t /\ Similar(odd[x], c[g[x]])
      <4>1. g[x] \in t .. N /\ Similar(odd[x], c[g[x]])
        BY <2>5 DEF Numbers
      <4> QED
        BY <4>1, <2>3
    <3> QED
      BY <3>1, <2>1 DEF Similar
  <2> QED
    BY <2>2, <2>6, <2>7
<1> QED
  BY <1>2, <1>3, <1>4
----------------------------------------------------------------------------
(* do_hotspot_shift.                                                       *)

\* One step of the sum of fun over a set.
SumStep(fun, F, s) ==
  IF s = {} THEN 0
  ELSE LET x == CHOOSE x \in s : TRUE IN fun[x] + F[s \ {x}]

\* The sum over sets of a bounded number of indices exists.
LEMMA SumUpTo ==
  ASSUME NEW fun, IsFiniteSet(DOMAIN fun), \A x \in DOMAIN fun : fun[x] \in Nat,
         NEW n \in Nat
  PROVE  LET D == {s \in SUBSET DOMAIN fun : Cardinality(s) <= n} IN
         \E F \in [D -> Nat] : \A s \in D : F[s] = SumStep(fun, F, s)
<1> DEFINE D(m) == {s \in SUBSET DOMAIN fun : Cardinality(s) <= m}
           Sums(m) == \E F \in [D(m) -> Nat] : \A s \in D(m) : F[s] = SumStep(fun, F, s)
<1>1. SUFFICES ASSUME ~Sums(n) PROVE FALSE
  OBVIOUS
<1> DEFINE T == {m \in Nat : ~Sums(m)}
<1>2. PICK m \in T : \A y \in T : m <= y
  <2>1. T \subseteq Nat /\ n \in T
    BY <1>1
  <2> HIDE DEF T
  <2> QED
    BY <2>1, Smallest
<1>3. \A s \in SUBSET DOMAIN fun : IsFiniteSet(s) /\ Cardinality(s) \in Nat
  BY FS_Subset, FS_CardinalityType
<1>4. m \in Nat /\ ~Sums(m)
  BY <1>2
<1>5. ASSUME NEW s \in SUBSET DOMAIN fun, s # {}
      PROVE  LET x == CHOOSE x \in s : TRUE IN
             /\ x \in s /\ fun[x] \in Nat
             /\ s \ {x} \in SUBSET DOMAIN fun
             /\ Cardinality(s \ {x}) = Cardinality(s) - 1
  <2> DEFINE x == CHOOSE x \in s : TRUE
  <2>1. x \in s
    BY <1>5
  <2> HIDE DEF x
  <2>2. Cardinality(s \ {x}) = Cardinality(s) - 1
    BY <2>1, <1>3, FS_RemoveElement
  <2> QED
    BY <2>1, <2>2 DEF x
<1>6. CASE m = 0
  <2>1. \A s \in D(m) : s = {}
    BY <1>3, <1>6, FS_EmptySet
  <2> DEFINE F == [s \in D(m) |-> 0]
  <2>2. F \in [D(m) -> Nat] /\ \A s \in D(m) : F[s] = SumStep(fun, F, s)
    BY <2>1 DEF SumStep
  <2> HIDE DEF F
  <2> QED
    BY <2>2, <1>4
<1>7. CASE m # 0
  <2>1. m - 1 \in Nat
    BY <1>4, <1>7
  <2>2. Sums(m - 1)
    <3>1. SUFFICES ASSUME ~Sums(m - 1) PROVE FALSE
      OBVIOUS
    <3>2. m - 1 \in T
      BY <2>1, <3>1
    <3> HIDE DEF T, Sums
    <3>3. m <= m - 1
      BY <1>2, <3>2
    <3> QED
      BY <3>3, <1>4
  <2>3. PICK F \in [D(m - 1) -> Nat] : \A s \in D(m - 1) : F[s] = SumStep(fun, F, s)
    BY <2>2
  <2> DEFINE G == [s \in D(m) |-> SumStep(fun, F, s)]
  <2>4. ASSUME NEW s \in D(m), s # {}
        PROVE  s \ {CHOOSE x \in s : TRUE} \in D(m - 1)
    <3> DEFINE x == CHOOSE x \in s : TRUE
    <3>1. /\ s \ {x} \in SUBSET DOMAIN fun /\ Cardinality(s \ {x}) = Cardinality(s) - 1
      BY <1>5, <2>4
    <3>2. Cardinality(s) \in Nat /\ Cardinality(s) <= m
      BY <1>3
    <3> HIDE DEF x
    <3> QED
      BY <3>1, <3>2, <1>4 DEF x
  <2>5. \A s \in D(m) : SumStep(fun, F, s) \in Nat
    <3> TAKE s \in D(m)
    <3>1. CASE s = {}
      BY <3>1 DEF SumStep
    <3>2. CASE s # {}
      <4> DEFINE x == CHOOSE x \in s : TRUE
      <4>1. s \ {x} \in D(m - 1)
        BY <3>2, <2>4
      <4>2. fun[x] \in Nat
        BY <3>2, <1>5
      <4>3. F[s \ {x}] \in Nat
        BY <4>1
      <4>4. SumStep(fun, F, s) = fun[x] + F[s \ {x}]
        BY <3>2 DEF SumStep
      <4> HIDE DEF x
      <4> QED
        BY <4>2, <4>3, <4>4
    <3> QED
      BY <3>1, <3>2
  <2>6. G \in [D(m) -> Nat]
    BY <2>5
  <2>7. \A s \in D(m - 1) : s \in D(m) /\ G[s] = F[s]
    <3> TAKE s \in D(m - 1)
    <3>1. s \in D(m)
      BY <1>3, <1>4
    <3> QED
      BY <3>1, <2>3
  <2>8. \A s \in D(m) : G[s] = SumStep(fun, G, s)
    <3> TAKE s \in D(m)
    <3>1. G[s] = SumStep(fun, F, s)
      OBVIOUS
    <3> HIDE DEF G
    <3>2. CASE s = {}
      BY <3>1, <3>2 DEF SumStep
    <3>3. CASE s # {}
      <4> DEFINE x == CHOOSE x \in s : TRUE
      <4>1. G[s \ {x}] = F[s \ {x}]
        BY <3>3, <2>4, <2>7
      <4>2. SumStep(fun, F, s) = fun[x] + F[s \ {x}] /\ SumStep(fun, G, s) = fun[x] + G[s \ {x}]
        BY <3>3 DEF SumStep
      <4> HIDE DEF x
      <4> QED
        BY <3>1, <4>1, <4>2
    <3> QED
      BY <3>2, <3>3
  <2> HIDE DEF G
  <2> QED
    BY <2>6, <2>8, <1>4
<1> QED
  BY <1>6, <1>7

\* A sum of naturals is a natural.
LEMMA SumNat ==
  ASSUME NEW fun, IsFiniteSet(DOMAIN fun), \A x \in DOMAIN fun : fun[x] \in Nat
  PROVE  SumFunction(fun) \in Nat
<1> DEFINE S == DOMAIN fun
           n == Cardinality(S)
           D == {s \in SUBSET S : Cardinality(s) <= n}
           iter == CHOOSE iter : iter = [s \in SUBSET S |-> SumStep(fun, iter, s)]
<1>1. n \in Nat /\ D = SUBSET S
  <2>1. n \in Nat
    BY FS_CardinalityType
  <2>2. \A s \in SUBSET S : Cardinality(s) <= n
    BY FS_Subset
  <2> QED
    BY <2>1, <2>2
<1>2. PICK F \in [SUBSET S -> Nat] : \A s \in SUBSET S : F[s] = SumStep(fun, F, s)
  <2> HIDE DEF n
  <2>1. \E F \in [D -> Nat] : \A s \in D : F[s] = SumStep(fun, F, s)
    BY <1>1, SumUpTo
  <2> QED
    BY <2>1, <1>1
<1>3. F = [s \in SUBSET S |-> SumStep(fun, F, s)]
  BY <1>2
<1>4. iter = [s \in SUBSET S |-> SumStep(fun, iter, s)]
  BY <1>3
<1>5. SumFunction(fun) = iter[S]
  BY DEF SumFunction, SumFunctionOnSet, FoldFunctionOnSet, MapThenFoldSet, SumStep
<1> HIDE DEF iter
<1>6. \A s \in SUBSET S : iter[s] = SumStep(fun, iter, s)
  BY <1>4
<1>7. \A s \in SUBSET S : IsFiniteSet(s) /\ Cardinality(s) \in Nat
  BY FS_Subset, FS_CardinalityType
<1>8. SUFFICES ASSUME iter[S] \notin Nat PROVE FALSE
  BY <1>5
<1> DEFINE T == {m \in Nat : \E s \in SUBSET S : Cardinality(s) = m /\ iter[s] \notin Nat}
<1>9. PICK m \in T : \A y \in T : m <= y
  <2>1. T \subseteq Nat /\ n \in T
    BY <1>1, <1>8
  <2> HIDE DEF T
  <2> QED
    BY <2>1, Smallest
<1>10. PICK s \in SUBSET S : Cardinality(s) = m /\ iter[s] \notin Nat
  BY <1>9
<1>11. s # {}
  <2>1. iter[s] = SumStep(fun, iter, s)
    BY <1>6, <1>10
  <2>2. s = {} => SumStep(fun, iter, s) = 0
    BY DEF SumStep
  <2> QED
    BY <2>1, <2>2, <1>10
<1> DEFINE x == CHOOSE x \in s : TRUE
<1>12. x \in s
  BY <1>11
<1>13. iter[s] = fun[x] + iter[s \ {x}]
  BY <1>6, <1>10, <1>11 DEF SumStep
<1> HIDE DEF x
<1>14. s \ {x} \in SUBSET S /\ Cardinality(s \ {x}) = m - 1 /\ m - 1 \in Nat
  <2>1. Cardinality(s \ {x}) = m - 1
    BY <1>7, <1>10, <1>12, FS_RemoveElement
  <2> QED
    BY <2>1, <1>7
<1>15. iter[s \ {x}] \in Nat
  <2>1. SUFFICES ASSUME iter[s \ {x}] \notin Nat PROVE FALSE
    OBVIOUS
  <2>2. m - 1 \in T
    BY <1>14, <2>1
  <2>3. m \in Nat
    BY <1>9
  <2> HIDE DEF T
  <2>4. m <= m - 1
    BY <1>9, <2>2
  <2> QED
    BY <2>3, <2>4
<1>16. fun[x] \in Nat
  BY <1>12, <1>10
<1> QED
  BY <1>10, <1>13, <1>15, <1>16

\* The income of a node is a number, and so one of the nodes is the hottest.
LEMMA HottestIn ==
  ASSUME NEW ring \in Seq(StoredNode), ring # <<>>
  PROVE  Hottest(ring) \in 1 .. Len(ring)
<1> DEFINE Abs(n) == IF n < 0 THEN -n ELSE n
           Cost(t) == [i \in 1 .. Len(ring) |-> ring[i].counter * Abs(i - t)]
<1>1. Len(ring) \in Nat \ {0} /\ DOMAIN ring = 1 .. Len(ring)
  OBVIOUS
<1>2. \A i \in 1 .. Len(ring) : ring[i].counter \in Nat
  <2> TAKE i \in 1 .. Len(ring)
  <2>1. ring[i] \in StoredNode
    OBVIOUS
  <2> QED
    BY <2>1, HotRingAssumption DEF StoredNode, NodeOf
<1>3. ASSUME NEW t \in 1 .. Len(ring)
      PROVE  Income(ring, t) \in Nat
  <2>1. Income(ring, t) = SumFunction(Cost(t))
    BY <1>1 DEF Income
  <2>2. IsFiniteSet(DOMAIN Cost(t))
    BY <1>1, FS_Interval
  <2>3. ASSUME NEW i \in 1 .. Len(ring)
        PROVE  Cost(t)[i] \in Nat
    <3>1. Abs(i - t) \in Nat
      OBVIOUS
    <3>2. PICK a \in Nat : a = Abs(i - t)
      BY <3>1
    <3>3. PICK c \in Nat : c = ring[i].counter
      BY <1>2
    <3>4. Cost(t)[i] = c * a
      BY <3>2, <3>3
    <3> QED
      BY <3>4
  <2>4. \A x \in DOMAIN Cost(t) : Cost(t)[x] \in Nat
    BY <2>3
  <2> HIDE DEF Cost
  <2> QED
    BY <2>1, <2>2, <2>4, SumNat
<1> DEFINE N == {Income(ring, t) : t \in 1 .. Len(ring)}
<1>4. PICK x \in N : \A y \in N : x <= y
  <2>1. N \subseteq Nat /\ N # {}
    BY <1>1, <1>3
  <2> HIDE DEF N
  <2> QED
    BY <2>1, Smallest
<1>5. PICK t \in 1 .. Len(ring) : x = Income(ring, t)
  BY <1>4
<1> DEFINE B == {u \in 1 .. Len(ring) :
                   \A s \in 1 .. Len(ring) : Income(ring, u) <= Income(ring, s)}
<1>6. B \subseteq Nat /\ t \in B
  BY <1>4, <1>5
<1>7. Hottest(ring) = Min(B)
  BY <1>1 DEF Hottest
<1>8. B \subseteq 1 .. Len(ring)
  OBVIOUS
<1> HIDE DEF B
<1>9. Min(B) \in B
  BY <1>6, MinProperty
<1> QED
  BY <1>7, <1>8, <1>9
----------------------------------------------------------------------------
(* The operations on one ring.                                             *)

\* A NULL slot.
LEMMA EmptyBucket ==
  ASSUME NEW kb, NEW i
  PROVE  BucketOK(kb, i, <<>>)
<1>1. <<>> \in Seq(StoredNode) /\ Len(<<>>) = 0
  OBVIOUS
<1>2. Sorted(<<>>)
  BY <1>1 DEF Sorted, SortedAt
<1> QED
  BY <1>1, <1>2 DEF BucketOK, RingOK, Uniform

\* Counters do not matter to a bucket.
LEMMA AlikeBucket ==
  ASSUME NEW kb, NEW i, NEW r, NEW s, BucketOK(kb, i, r), s \in Seq(StoredNode), Alike(r, s)
  PROVE  BucketOK(kb, i, s)
<1>1. Sorted(s)
  BY SortedAlike DEF BucketOK, RingOK
<1>2. Len(s) = Len(r) /\ \A x \in 1 .. Len(r) : s[x].key = r[x].key /\ s[x].tag = r[x].tag
  BY DEF Alike
<1>3. kb = K0 => Uniform(i, s)
  BY <1>2 DEF BucketOK, Uniform
<1> QED
  BY <1>1, <1>2, <1>3 DEF BucketOK, RingOK

\* hotspot_shift: the same ring from another head.
LEMMA RotateBucket ==
  ASSUME NEW kb, NEW i, NEW r, BucketOK(kb, i, r), NEW t \in 1 .. Len(r)
  PROVE  BucketOK(kb, i, Rotate(r, t))
<1> DEFINE s == Rotate(r, t)
           n == Len(r)
<1>1. r \in Seq(StoredNode) /\ Sorted(r) /\ n \in Nat
  BY DEF BucketOK, RingOK
<1>2. /\ s \in Seq(StoredNode) /\ Len(s) = n
      /\ \A q, x \in 1 .. n : Before(n, t, q, x) => s[q] = r[x]
  BY <1>1, RotateIs
<1> HIDE DEF s
<1>3. \A x \in 1 .. n : r[x].tag \in Nat
  BY <1>1, StoredAny, NodesAre
<1>4. Sorted(s)
  BY ZenonT(40), <1>1, <1>2, <1>3, SortedRotate
<1>5. \A q \in 1 .. n : \E x \in 1 .. n : s[q] = r[x]
  BY <1>1, <1>2, PlaceBefore
<1>6. kb = K0 => Uniform(i, s)
  BY SMTT(30), <1>2, <1>5 DEF BucketOK, Uniform
<1>7. kb <= K0 + 1 => \A x \in 1 .. n : hashIndex(kb, s[x].key) = i
  BY <1>5 DEF BucketOK
<1> QED
  BY <1>2, <1>4, <1>6, <1>7 DEF BucketOK, RingOK, s

\* hotring_delete of a node that is not the head.
LEMMA RemoveBucket ==
  ASSUME NEW kb, NEW i, NEW r, BucketOK(kb, i, r), NEW j \in 1 .. Len(r)
  PROVE  BucketOK(kb, i, RemoveAt(r, j))
<1> DEFINE s == RemoveAt(r, j)
           n == Len(r)
<1>1. r \in Seq(StoredNode) /\ Sorted(r) /\ n \in Nat
  BY DEF BucketOK, RingOK
<1>2. /\ s \in Seq(StoredNode) /\ Len(s) = n - 1
      /\ \A q \in 1 .. n - 1 : s[q] = IF q < j THEN r[q] ELSE r[q + 1]
  BY <1>1, RemoveIs
<1> HIDE DEF s
<1>3. \A x \in 1 .. n : r[x].tag \in Nat
  BY <1>1, StoredAny, NodesAre
<1>4. Sorted(s)
  <2>1. \A q \in 1 .. Len(s) : s[q].tag = IF q < j THEN r[q].tag ELSE r[q + 1].tag
    BY <1>2
  <2> QED
    BY <1>1, <1>2, <1>3, <2>1, SortedRemove
<1>5. \A q \in 1 .. n - 1 : \E x \in 1 .. n : s[q] = r[x]
  <2> TAKE q \in 1 .. n - 1
  <2>1. q \in 1 .. n /\ q + 1 \in 1 .. n
    BY <1>1
  <2> QED
    BY <2>1, <1>2
<1>6. kb = K0 => Uniform(i, s)
  BY <1>2, <1>5 DEF BucketOK, Uniform
<1>7. kb <= K0 + 1 => \A x \in 1 .. n - 1 : hashIndex(kb, s[x].key) = i
  BY <1>5 DEF BucketOK
<1> QED
  BY <1>2, <1>4, <1>6, <1>7 DEF BucketOK, RingOK, s

\* The tag of a key in the table is the rest of the key in its bucket.
LEMMA TagIs ==
  ASSUME NEW kb \in K0 .. MaxK, NEW key \in Nat, hashIndex(kb, key) \in Buckets(kb)
  PROVE  /\ hashIndex(kb, key) \in Nat
         /\ hashTag(kb, key) \in 0 .. 2^NBITS - 1
         /\ key = hashIndex(kb, key) * 2^(NBITS - kb) + hashTag(kb, key)
<1>1. PICK M \in Nat \ {0}, B \in Nat \ {0}, W \in Nat \ {0} :
        M = 2^(NBITS - kb) /\ B = 2^kb /\ W = 2^NBITS
  BY HalfIs
<1>2. W = B * M
  BY <1>1, HalfIs
<1>3. PICK i \in Nat, x \in 0 .. M - 1 : i = key \div M /\ x = key % M /\ key = M * i + x
  <2>1. key = M * (key \div M) + (key % M) /\ key \div M \in Nat /\ key % M \in 0 .. M - 1
    BY <1>1, DivMod
  <2> QED
    BY <2>1
<1>4. hashIndex(kb, key) = i /\ i < B
  BY <1>1, <1>3 DEF hashIndex, Buckets
<1>5. key < W
  <2>1. M * i + M <= M * B
    <3>1. i + 1 <= B
      BY <1>4
    <3>2. PICK d \in Nat : B = i + 1 + d
      <4>1. B - (i + 1) \in Nat
        BY <3>1
      <4> QED
        BY <4>1
    <3>3. M * d \in Nat
      OBVIOUS
    <3>4. M * B = M * i + M + M * d
      BY <3>2
    <3> QED
      BY <3>3, <3>4
  <2>2. M * B = W
    BY <1>2
  <2> QED
    BY <1>3, <2>1, <2>2
<1>6. key % W = key
  <2>1. (0 * W + key) % W = key
    BY <1>5, DivModUnique
  <2> QED
    BY <2>1
<1>7. hashTag(kb, key) = x
  BY <1>1, <1>3, <1>6 DEF hashTag
<1>8. x <= key
  <2>1. M * i \in Nat
    OBVIOUS
  <2> QED
    BY <2>1, <1>3
<1>9. x \in 0 .. W - 1
  BY <1>5, <1>8, <1>3
<1> QED
  BY <1>1, <1>3, <1>4, <1>7, <1>9

\* hash_insert into the bucket of its key.
LEMMA InsertBucket ==
  ASSUME NEW kb \in K0 .. MaxK, NEW key \in Keys, hashIndex(kb, key) \in Buckets(kb),
         NEW value \in Values, NEW r, BucketOK(kb, hashIndex(kb, key), r)
  PROVE  BucketOK(kb, hashIndex(kb, key), Place(r, Node(key, hashTag(kb, key), value)))
<1> DEFINE i == hashIndex(kb, key)
           m == Node(key, hashTag(kb, key), value)
           s == Place(r, m)
           p == IF r = <<>> THEN 0 ELSE Position(r, m.tag)
           n == Len(r)
<1>1. key \in Nat
  BY HotRingAssumption
<1>2. /\ i \in Nat /\ hashTag(kb, key) \in 0 .. 2^NBITS - 1
      /\ key = i * 2^(NBITS - kb) + hashTag(kb, key)
  BY <1>1, TagIs
<1>3. /\ m \in StoredNode /\ m.key = key /\ m.tag = hashTag(kb, key)
  BY <1>2, HotRingAssumption DEF Node, StoredNode, NodeOf
<1>4. r \in Seq(StoredNode) /\ Sorted(r) /\ n \in Nat
  BY DEF BucketOK, RingOK
<1> HIDE DEF m, i
<1>5. /\ s \in Seq(StoredNode) /\ Len(s) = n + 1 /\ p \in 0 .. n
      /\ r # <<>> => p >= 1
      /\ \A q \in 1 .. Len(s) :
           s[q] = IF q <= p THEN r[q] ELSE IF q = p + 1 THEN m ELSE r[q - 1]
      /\ Sorted(r) => Sorted(s)
  BY <1>3, <1>4, StoredAny, PlaceIs
<1> HIDE DEF p, s
<1>6. \A q \in 1 .. n + 1 : s[q] = m \/ \E x \in 1 .. n : s[q] = r[x]
  <2> TAKE q \in 1 .. n + 1
  <2>1. CASE q <= p
    BY <2>1, <1>4, <1>5
  <2>2. CASE q = p + 1
    BY <2>2, <1>4, <1>5
  <2>3. CASE q > p + 1
    <3>1. q - 1 \in 1 .. n /\ s[q] = r[q - 1]
      BY <2>3, <1>4, <1>5
    <3> QED
      BY <3>1
  <2> QED
    BY <2>1, <2>2, <2>3, <1>5, <1>4
<1>7. kb = K0 => Uniform(i, s)
  <2>1. SUFFICES ASSUME kb = K0, NEW q \in 1 .. n + 1
                 PROVE  s[q].key = i * 2^(NBITS - K0) + s[q].tag
    BY <1>5 DEF Uniform
  <2>2. BucketOK(kb, i, r)
    BY DEF i
  <2>3. \A x \in 1 .. n : r[x].key = i * 2^(NBITS - K0) + r[x].tag
    BY <2>1, <2>2 DEF BucketOK, Uniform
  <2>4. m.key = i * 2^(NBITS - K0) + m.tag
    BY <2>1, <1>2, <1>3
  <2> QED
    BY <2>3, <2>4, <1>6
<1>8. kb <= K0 + 1 => \A x \in 1 .. n + 1 : hashIndex(kb, s[x].key) = i
  BY <1>3, <1>6 DEF BucketOK, i
<1> QED
  BY <1>4, <1>5, <1>7, <1>8 DEF BucketOK, RingOK, s, m, i

\* hotring_rehash for the first time: each half of a ring is the ring of its
\* own bucket of the new table.
LEMMA HalfBucket ==
  ASSUME NEW i, NEW ring, Fresh(i, ring), BucketOK(k, i, ring), k < MaxK,
         Split(i, ring).fault = "none"
  PROVE  /\ \A x \in 1 .. Len(Split(i, ring).even) :
              hashIndex(k + 1, Split(i, ring).even[x].key) = 2 * i
         /\ \A x \in 1 .. Len(Split(i, ring).odd) :
              hashIndex(k + 1, Split(i, ring).odd[x].key) = 2 * i + 1
<1> DEFINE even == Split(i, ring).even
           odd == Split(i, ring).odd
<1>1. /\ k \in K0 .. MaxK /\ i \in Nat /\ ring \in Seq(StoredNode) /\ k = K0
      /\ \A x \in 1 .. Len(ring) : ring[x].key = i * 2^(NBITS - K0) + ring[x].tag
  BY DEF Fresh, Splittable, Uniform
<1>2. /\ \A x \in 1 .. Len(even) : even[x].tag < Half
      /\ \A x \in 1 .. Len(odd) : odd[x].tag >= Half
  BY FirstSplit
<1>3. Parted(ring, even, odd) /\ even \in Seq(StoredNode) /\ odd \in Seq(StoredNode)
  BY SplitGood DEF Fresh, RingOK
<1>4. PICK f, g, R :
        /\ R \subseteq 1 .. Len(ring)
        /\ Numbers(f, Len(even), R) /\ Numbers(g, Len(odd), (1 .. Len(ring)) \ R)
        /\ \A x \in 1 .. Len(even) : Similar(even[x], ring[f[x]])
        /\ \A x \in 1 .. Len(odd) : Similar(odd[x], ring[g[x]])
  BY <1>3 DEF Parted
<1>5. PICK h \in Nat \ {0} : h = Half /\ h = 2^(NBITS - (k + 1)) /\ 2^(NBITS - K0) = 2 * h
  BY <1>1, HalfIs DEF Half
<1> HIDE DEF even, odd
<1>6. ASSUME NEW x \in 1 .. Len(even)
      PROVE  even[x].key = i * (2 * h) + even[x].tag /\ even[x].tag \in Nat
  <2>1. f[x] \in 1 .. Len(ring)
    BY <1>4 DEF Numbers
  <2>2. Similar(even[x], ring[f[x]])
    BY <1>4
  <2>3. even[x].tag \in Nat
    BY <1>3, StoredAny, NodesAre
  <2> QED
    BY <2>1, <2>2, <2>3, <1>1, <1>5 DEF Similar
<1>7. ASSUME NEW x \in 1 .. Len(odd)
      PROVE  odd[x].key = i * (2 * h) + odd[x].tag /\ odd[x].tag \in Nat /\ odd[x].tag < 2 * h
  <2>1. g[x] \in 1 .. Len(ring)
    BY <1>4 DEF Numbers
  <2>2. Similar(odd[x], ring[g[x]])
    BY <1>4
  <2>3. odd[x].tag \in Nat
    BY <1>3, StoredAny, NodesAre
  <2>4. PICK t \in Nat : t = odd[x].tag
    BY <2>3
  <2>5. odd[x].key = i * (2 * h) + t
    BY <2>1, <2>2, <2>4, <1>1, <1>5 DEF Similar
  <2>6. hashIndex(K0, odd[x].key) = i
    <3>1. hashIndex(K0, ring[g[x]].key) = i
      BY <2>1, <1>1, HotRingAssumption DEF BucketOK
    <3> QED
      BY <3>1, <2>2 DEF Similar
  <2>7. (i * (2 * h) + t) \div (2 * h) = i
    BY <2>5, <2>6, <1>5 DEF hashIndex
  <2>8. PICK M \in Nat \ {0} : M = 2 * h
    BY <1>5
  <2>9. PICK y \in Nat : y = i * M + t
    BY <1>1
  <2>10. y \div M = i /\ y = M * (y \div M) + (y % M) /\ y % M \in 0 .. M - 1
    <3>1. y \div M = i
      BY <2>7, <2>8, <2>9
    <3>2. y = M * (y \div M) + (y % M) /\ y % M \in 0 .. M - 1
      BY DivMod
    <3> QED
      BY <3>1, <3>2
  <2>11. t = y % M
    <3>1. PICK z \in 0 .. M - 1 : z = y % M /\ y = M * i + z
      BY <2>10
    <3>2. PICK p \in Nat : p = M * i /\ p = i * M
      BY <1>1
    <3>3. y = p + t /\ y = p + z
      BY <3>1, <3>2, <2>9
    <3>4. t = z
      BY <3>3
    <3> QED
      BY <3>1, <3>4
  <2> QED
    BY <2>4, <2>5, <2>8, <2>10, <2>11
<1>8. ASSUME NEW x \in 1 .. Len(even)
      PROVE  hashIndex(k + 1, even[x].key) = 2 * i
  <2>1. PICK t \in 0 .. h - 1 : t = even[x].tag
    BY <1>2, <1>5, <1>6
  <2>2. 2 * i \in Nat /\ even[x].key = (2 * i) * h + t
    BY <1>1, <1>6, <2>1
  <2>3. ((2 * i) * h + t) \div h = 2 * i
    BY <2>2, DivModUnique
  <2> QED
    BY <2>2, <2>3, <1>5 DEF hashIndex
<1>9. ASSUME NEW x \in 1 .. Len(odd)
      PROVE  hashIndex(k + 1, odd[x].key) = 2 * i + 1
  <2>1. PICK t \in 0 .. h - 1 : t = odd[x].tag - h
    BY <1>2, <1>5, <1>7
  <2>2. 2 * i + 1 \in Nat /\ odd[x].key = (2 * i + 1) * h + t
    BY SMTT(30), <1>1, <1>7, <2>1
  <2>3. ((2 * i + 1) * h + t) \div h = 2 * i + 1
    BY <2>2, DivModUnique
  <2> QED
    BY <2>2, <2>3, <1>5 DEF hashIndex
<1> QED
  BY <1>8, <1>9 DEF even, odd

\* The two buckets of the new table that bucket i of the old one becomes.
LEMMA SplitBuckets ==
  ASSUME NEW i, NEW ring, Splittable(i, ring), BucketOK(k, i, ring), k < MaxK,
         Split(i, ring).fault = "none"
  PROVE  /\ BucketOK(k + 1, 2 * i, Split(i, ring).even)
         /\ BucketOK(k + 1, 2 * i + 1, Split(i, ring).odd)
<1>1. k \in K0 .. MaxK /\ K0 \in Nat /\ k + 1 # K0
  BY HotRingAssumption DEF Splittable
<1>2. RingOK(Split(i, ring).even) /\ RingOK(Split(i, ring).odd)
  BY SplitGood
<1>3. CASE k = K0
  <2>1. Fresh(i, ring)
    BY <1>3 DEF Fresh, BucketOK
  <2> QED
    BY <1>1, <1>2, <2>1, HalfBucket DEF BucketOK
<1>4. CASE k # K0
  <2>1. ~ (k + 1 <= K0 + 1)
    BY <1>1, <1>4
  <2> QED
    BY <1>1, <1>2, <2>1 DEF BucketOK
<1> QED
  BY <1>3, <1>4
----------------------------------------------------------------------------
(* The operations on the table.                                            *)

\* The table with another ring in bucket i.
Changed(table, i, ring) == [table EXCEPT ![i] = ring]

\* Other buckets are left alone.
LEMMA ChangedIs ==
  ASSUME HotRingInv, NEW i \in Buckets(k), NEW ring, BucketOK(k, i, ring)
  PROVE  /\ DOMAIN Changed(slots, i, ring) = Buckets(k)
         /\ \A j \in Buckets(k) : BucketOK(k, j, Changed(slots, i, ring)[j])
         /\ Changed(slots, i, ring)[i] = ring
         /\ \A j \in Buckets(k) : j # i => Changed(slots, i, ring)[j] = slots[j]
<1>1. DOMAIN slots = Buckets(k) /\ \A j \in Buckets(k) : BucketOK(k, j, slots[j])
  BY DEF HotRingInv
<1>2. /\ DOMAIN Changed(slots, i, ring) = Buckets(k)
      /\ Changed(slots, i, ring)[i] = ring
      /\ \A j \in Buckets(k) : j # i => Changed(slots, i, ring)[j] = slots[j]
  BY <1>1 DEF Changed
<1> QED
  BY <1>1, <1>2

\* A bucket of the invariant.
LEMMA BucketsAre ==
  ASSUME HotRingInv, NEW i \in Buckets(k)
  PROVE  /\ k \in K0 .. MaxK /\ i \in Nat
         /\ BucketOK(k, i, slots[i]) /\ slots[i] \in Seq(StoredNode) /\ Sorted(slots[i])
         /\ heads[i] \in 0 .. HEAD_COUNTER - 1
<1>1. k \in K0 .. MaxK /\ BucketOK(k, i, slots[i]) /\ heads \in [Buckets(k) -> 0 .. HEAD_COUNTER - 1]
  BY DEF HotRingInv
<1>2. i \in Nat
  BY <1>1, HalfIs DEF Buckets
<1> QED
  BY <1>1, <1>2 DEF BucketOK, RingOK

\* __hash_get counts in its bit field.
LEMMA CountedIs ==
  ASSUME HotRingInv, NEW i \in Buckets(k)
  PROVE  /\ Counted(i) \in [Buckets(k) -> 0 .. HEAD_COUNTER - 1]
         /\ Counted(i)[i] = 0 /\ slots[i] # <<>> => heads[i] = HEAD_COUNTER - 1
<1>1. heads \in [Buckets(k) -> 0 .. HEAD_COUNTER - 1] /\ heads[i] \in 0 .. HEAD_COUNTER - 1
  BY DEF HotRingInv
<1>2. PICK H \in Nat \ {0, 1} : H = HEAD_COUNTER
  BY HotRingAssumption
<1>3. PICK c \in 0 .. H - 1 : c = heads[i]
  BY <1>1, <1>2
<1>4. (c + 1) % H \in 0 .. H - 1
  BY <1>2
<1>5. c # H - 1 => (c + 1) % H = c + 1
  <2>1. SUFFICES ASSUME c # H - 1 PROVE (c + 1) % H = c + 1
    OBVIOUS
  <2>2. (0 * H + (c + 1)) % H = c + 1
    BY <2>1, DivModUnique
  <2> QED
    BY <2>2
<1>6. CASE slots[i] = <<>>
  BY <1>6, <1>1 DEF Counted
<1>7. CASE slots[i] # <<>>
  <2>1. Counted(i) = [heads EXCEPT ![i] = (c + 1) % H]
    BY <1>7, <1>2, <1>3 DEF Counted
  <2>2. Counted(i)[i] = (c + 1) % H
    BY <2>1, <1>1
  <2>3. c # H - 1 => Counted(i)[i] # 0
    BY <2>2, <1>5
  <2> QED
    BY <2>1, <2>3, <1>1, <1>2, <1>3, <1>4
<1> QED
  BY <1>6, <1>7

\* A new table and a table that lost everything satisfy the invariant.
LEMMA EmptyTable ==
  ASSUME NEW kb \in K0 .. MaxK
  PROVE  /\ \A i \in Buckets(kb) : BucketOK(kb, i, [j \in Buckets(kb) |-> <<>>][i])
         /\ [j \in Buckets(kb) |-> 0] \in [Buckets(kb) -> 0 .. HEAD_COUNTER - 1]
<1>1. 0 \in 0 .. HEAD_COUNTER - 1
  BY HotRingAssumption
<1> QED
  BY <1>1, EmptyBucket

\* Init.
LEMMA InvInit == Init => HotRingInv
<1> SUFFICES ASSUME Init PROVE HotRingInv
  OBVIOUS
<1>1. K0 \in K0 .. MaxK /\ 0 \in 0 .. REQUESTS
  BY HotRingAssumption
<1> QED
  BY <1>1, EmptyTable DEF Init, HotRingInv

\* The process dies.
LEMMA InvCrash ==
  ASSUME NEW reason \in {"none", "null", "index", "shared"}, Crash(reason),
         reason = "shared" => MaxK > K0 + 1
  PROVE  HotRingInv'
<1>1. K0 \in K0 .. MaxK /\ 0 \in 0 .. REQUESTS
  BY HotRingAssumption
<1> QED
  BY <1>1, EmptyTable DEF Crash, HotRingInv

\* hash_insert.
LEMMA InvInsert ==
  ASSUME HotRingInv, NEW key \in Keys, NEW value \in Values, Insert(key, value)
  PROVE  HotRingInv'
<1> DEFINE i == hashIndex(k, key)
           ring == Place(slots[i], Node(key, hashTag(k, key), value))
<1>1. i \in Buckets(k) /\ slots' = Changed(slots, i, ring)
      /\ UNCHANGED <<k, heads, nr_request, fault>>
  BY DEF Insert, InTable, Changed
<1>2. BucketOK(k, i, ring)
  BY <1>1, BucketsAre, InsertBucket
<1> HIDE DEF i, ring
<1>3. DOMAIN slots' = Buckets(k) /\ \A j \in Buckets(k) : BucketOK(k, j, slots'[j])
  BY <1>1, <1>2, ChangedIs
<1> QED
  BY <1>1, <1>3 DEF HotRingInv

\* hash_get: the ring after the access was counted.
LEMMA TouchBucket ==
  ASSUME HotRingInv, NEW i \in Buckets(k), NEW key
  PROVE  /\ Find(slots[i], key) \in 0 .. Len(slots[i])
         /\ Len(slots[i]) \in Nat
         /\ Find(slots[i], key) # 0 => slots[i] # <<>>
         /\ BucketOK(k, i, Touch(slots[i], Find(slots[i], key)))
         /\ Alike(slots[i], Touch(slots[i], Find(slots[i], key)))
         /\ Touch(slots[i], Find(slots[i], key)) \in Seq(StoredNode)
<1>1. BucketOK(k, i, slots[i]) /\ slots[i] \in Seq(StoredNode)
  BY BucketsAre
<1>2. Find(slots[i], key) \in 0 .. Len(slots[i])
  BY <1>1, FindIs
<1>3. /\ Touch(slots[i], Find(slots[i], key)) \in Seq(StoredNode)
      /\ Alike(slots[i], Touch(slots[i], Find(slots[i], key)))
  BY <1>1, <1>2, TouchIs DEF StoredNode
<1>4. BucketOK(k, i, Touch(slots[i], Find(slots[i], key)))
  BY <1>1, <1>3, AlikeBucket
<1>5. Find(slots[i], key) # 0 => slots[i] # <<>>
  BY <1>2
<1> QED
  BY <1>1, <1>2, <1>3, <1>4, <1>5

\* hash_get: the ring entered at its hottest node.
LEMMA ShiftBucket ==
  ASSUME HotRingInv, NEW i \in Buckets(k), NEW key, Find(slots[i], key) > 1
  PROVE  LET ring == Touch(slots[i], Find(slots[i], key))
             t == Hottest(ring)
             shifted == Rotate(Cooled(ring), t)
             n == Len(slots[i])
         IN  /\ BucketOK(k, i, shifted) /\ Len(shifted) = n /\ t \in 1 .. n
             /\ n \in Nat \ {0, 1}
             /\ \A q, x \in 1 .. n : Before(n, t, q, x) => Similar(shifted[q], slots[i][x])
<1> DEFINE ring == Touch(slots[i], Find(slots[i], key))
           t == Hottest(ring)
           cool == Cooled(ring)
           shifted == Rotate(cool, t)
           n == Len(slots[i])
<1>1. /\ BucketOK(k, i, ring) /\ Alike(slots[i], ring) /\ ring \in Seq(StoredNode)
      /\ n \in Nat /\ Find(slots[i], key) \in 0 .. n
  BY TouchBucket
<1> HIDE DEF ring
<1>2. n \in Nat \ {0, 1} /\ Len(ring) = n /\ ring # <<>>
  <2>1. n \in Nat \ {0, 1} /\ Len(ring) = n
    BY <1>1 DEF Alike
  <2> QED
    BY <2>1
<1>3. t \in 1 .. n
  BY <1>1, <1>2, HottestIn
<1>4. cool \in Seq(StoredNode) /\ Alike(ring, cool)
  BY <1>1, CooledIs DEF StoredNode
<1>5. BucketOK(k, i, cool) /\ Len(cool) = n
  <2>1. BucketOK(k, i, cool)
    BY <1>1, <1>4, AlikeBucket
  <2> QED
    BY <2>1, <1>2, <1>4 DEF Alike
<1> HIDE DEF cool, t
<1>6. BucketOK(k, i, shifted)
  BY <1>3, <1>5, RotateBucket
<1>7. /\ Len(shifted) = n
      /\ \A q, x \in 1 .. n : Before(n, t, q, x) => shifted[q] = cool[x]
  BY <1>3, <1>4, <1>5, RotateIs
<1>8. \A x \in 1 .. n : Similar(cool[x], slots[i][x])
  BY <1>1, <1>2, <1>4 DEF Alike, Similar
<1> HIDE DEF shifted
<1> QED
  BY <1>2, <1>3, <1>6, <1>7, <1>8 DEF shifted, cool, t, ring

\* hash_get without a shift.
LEMMA InvGet ==
  ASSUME HotRingInv, NEW key \in Keys, Get(key)
  PROVE  HotRingInv'
<1> DEFINE i == hashIndex(k, key)
           ring == Touch(slots[i], Find(slots[i], key))
<1>1. /\ i \in Buckets(k) /\ slots' = Changed(slots, i, ring)
      /\ heads' = Counted(i) /\ nr_request' = Requests /\ UNCHANGED <<k, fault>>
  BY DEF Get, InTable, Changed
<1>2. BucketOK(k, i, ring)
  BY <1>1, TouchBucket
<1>3. Counted(i) \in [Buckets(k) -> 0 .. HEAD_COUNTER - 1]
  BY <1>1, CountedIs
<1> HIDE DEF i, ring
<1>4. DOMAIN slots' = Buckets(k) /\ \A j \in Buckets(k) : BucketOK(k, j, slots'[j])
  BY <1>1, <1>2, ChangedIs
<1>5. Requests \in 0 .. REQUESTS
  BY HotRingAssumption DEF HotRingInv, Requests
<1> QED
  BY <1>1, <1>3, <1>4, <1>5 DEF HotRingInv

\* hash_get that moves the head.
LEMMA InvGetShift ==
  ASSUME HotRingInv, NEW key \in Keys, GetShift(key)
  PROVE  HotRingInv'
<1> DEFINE i == hashIndex(k, key)
           touched == Touch(slots[i], Find(slots[i], key))
           ring == Rotate(Cooled(touched), Hottest(touched))
<1>1. /\ i \in Buckets(k) /\ slots' = Changed(slots, i, ring)
      /\ heads' = [heads EXCEPT ![i] = 0] /\ nr_request' = 0 /\ UNCHANGED <<k, fault>>
      /\ Find(slots[i], key) > 1
  BY DEF GetShift, InTable, Changed
<1>2. BucketOK(k, i, ring)
  BY <1>1, ShiftBucket
<1> HIDE DEF i, ring
<1>3. DOMAIN slots' = Buckets(k) /\ \A j \in Buckets(k) : BucketOK(k, j, slots'[j])
  BY <1>1, <1>2, ChangedIs
<1>4. 0 \in 0 .. REQUESTS /\ 0 \in 0 .. HEAD_COUNTER - 1
  BY HotRingAssumption
<1>5. heads' \in [Buckets(k) -> 0 .. HEAD_COUNTER - 1]
  BY <1>1, <1>4 DEF HotRingInv
<1> QED
  BY <1>1, <1>3, <1>4, <1>5 DEF HotRingInv

\* A table that hotring_rehash may be called on: the one of the invariant
\* but for the ring that hotspot_shift has just entered at another head.
Table(old) ==
  DOMAIN old = Buckets(k) /\ \A i \in Buckets(k) : BucketOK(k, i, old[i])

Used(old) == {i \in DOMAIN old : old[i] # <<>>}

\* What hotring_rehash does to the buckets of the table.
LEMMA RehashIs ==
  ASSUME HotRingInv, NEW old, Table(old), k < MaxK, NEW i \in Used(old)
  PROVE  /\ i \in Nat /\ i \in Buckets(k)
         /\ Splittable(i, old[i]) /\ BucketOK(k, i, old[i])
         /\ k = K0 => Fresh(i, old[i])
<1>1. i \in Buckets(k) /\ BucketOK(k, i, old[i]) /\ old[i] # <<>>
  BY DEF Table, Used
<1>2. k \in K0 .. MaxK /\ i \in Nat
  BY <1>1, BucketsAre
<1>3. Splittable(i, old[i])
  BY <1>1, <1>2 DEF Splittable, BucketOK, RingOK
<1> QED
  BY <1>1, <1>2, <1>3 DEF Fresh, BucketOK

\* The buckets of the new table come from those of the old one in pairs.
LEMMA HalfIndex ==
  ASSUME NEW kb \in K0 .. MaxK, NEW j \in Buckets(kb + 1)
  PROVE  /\ j \in Nat /\ j \div 2 \in Buckets(kb)
         /\ IF j % 2 = 0 THEN j = 2 * (j \div 2) ELSE j = 2 * (j \div 2) + 1
<1>1. PICK B \in Nat \ {0} : B = 2^kb /\ 2^(kb + 1) = 2 * B
  BY HalfIs
<1>2. j \in 0 .. 2 * B - 1
  BY <1>1 DEF Buckets
<1>3. j \div 2 \in 0 .. B - 1 /\ (IF j % 2 = 0 THEN j = 2 * (j \div 2) ELSE j = 2 * (j \div 2) + 1)
  BY <1>2
<1> QED
  BY <1>1, <1>2, <1>3 DEF Buckets

\* The new table.
NewTable(old) ==
  [j \in Buckets(k + 1) |->
     IF j \div 2 \notin Used(old) THEN <<>>
     ELSE IF j % 2 = 0 THEN Split(j \div 2, old[j \div 2]).even
     ELSE Split(j \div 2, old[j \div 2]).odd]

\* The buckets that cannot be split.
Bad(old) == {i \in Used(old) : Split(i, old[i]).fault # "none"}

\* hotring_rehash either crashes or builds the new table.
LEMMA RehashCases ==
  ASSUME HotRingInv, NEW old, Table(old), k < MaxK, Rehash(old)
  PROVE  \/ \E i \in Bad(old) : Crash(Split(i, old[i]).fault)
         \/ /\ Bad(old) = {}
            /\ k' = k + 1 /\ slots' = NewTable(old)
            /\ heads' = [j \in Buckets(k + 1) |-> 0]
            /\ nr_request' = 0 /\ UNCHANGED fault
<1> DEFINE used == {i \in DOMAIN old : old[i] # <<>>}
           split == [i \in used |-> Split(i, old[i])]
           bad == {i \in used : split[i].fault # "none"}
<1>1. used = Used(old) /\ bad = Bad(old)
  BY DEF Used, Bad
<1>2. bad \subseteq Nat
  BY <1>1, RehashIs DEF Bad
<1>3. CASE bad # {} /\ Crash(split[Min(bad)].fault)
  <2>1. Min(bad) \in bad
    <3> HIDE DEF bad
    <3> QED
      BY <1>2, <1>3, MinProperty
  <2>2. PICK m \in bad : m = Min(bad)
    BY <2>1
  <2>3. Crash(split[m].fault) /\ split[m] = Split(m, old[m])
    BY <1>3, <2>2
  <2> QED
    BY <2>2, <2>3, <1>1
<1>4. CASE /\ bad = {} /\ k' = k + 1
           /\ slots' = [j \in Buckets(k + 1) |->
                          IF j \div 2 \notin used THEN <<>>
                          ELSE IF j % 2 = 0 THEN split[j \div 2].even
                          ELSE split[j \div 2].odd]
           /\ heads' = [j \in Buckets(k + 1) |-> 0]
           /\ nr_request' = 0 /\ UNCHANGED fault
  <2>1. slots' = NewTable(old)
    BY <1>4 DEF NewTable, Used
  <2> QED
    BY <1>1, <1>4, <2>1
<1> QED
  BY <1>3, <1>4 DEF Rehash

\* hotring_rehash of a whole table.
LEMMA InvRehash ==
  ASSUME HotRingInv, NEW old, Table(old), k < MaxK, Rehash(old)
  PROVE  HotRingInv'
<1>1. k \in K0 .. MaxK /\ K0 \in Nat /\ MaxK \in Nat /\ 0 \in 0 .. REQUESTS
  BY HotRingAssumption DEF HotRingInv
<1>2. ASSUME NEW i \in Bad(old), Crash(Split(i, old[i]).fault)
      PROVE  HotRingInv'
  <2>1. i \in Used(old)
    BY DEF Bad
  <2>2. Splittable(i, old[i]) /\ (k = K0 => Fresh(i, old[i]))
    BY <2>1, RehashIs
  <2>3. Split(i, old[i]).fault \in {"none", "null", "index", "shared"}
    BY <2>2, SplitGood
  <2>4. Split(i, old[i]).fault = "shared" => MaxK > K0 + 1
    <3>1. k = K0 => Split(i, old[i]).fault # "shared"
      BY <2>2, FirstSplit
    <3> QED
      BY <3>1, <1>1
  <2>5. PICK reason \in {"none", "null", "index", "shared"} :
          reason = Split(i, old[i]).fault
    BY <2>3
  <2> QED
    BY <1>2, <2>4, <2>5, InvCrash
<1>3. ASSUME Bad(old) = {}, k' = k + 1, slots' = NewTable(old),
             heads' = [j \in Buckets(k + 1) |-> 0], nr_request' = 0, UNCHANGED fault
      PROVE  HotRingInv'
  <2>1. PICK kb \in K0 .. MaxK : kb = k + 1
    BY <1>1
  <2>2. DOMAIN slots' = Buckets(kb)
    BY <1>3, <2>1 DEF NewTable
  <2>3. ASSUME NEW j \in Buckets(kb)
        PROVE  BucketOK(kb, j, slots'[j])
    <3>1. PICK i \in Buckets(k) : i = j \div 2
      BY <1>1, <2>1, HalfIndex
    <3>2. IF j % 2 = 0 THEN j = 2 * i ELSE j = 2 * i + 1
      BY <1>1, <2>1, <3>1, HalfIndex
    <3>3. CASE i \notin Used(old)
      <4>1. slots'[j] = <<>>
        BY <1>3, <2>1, <3>1, <3>3 DEF NewTable
      <4> QED
        BY <4>1, EmptyBucket
    <3>4. CASE i \in Used(old)
      <4>1. Splittable(i, old[i]) /\ BucketOK(k, i, old[i])
        BY <3>4, RehashIs
      <4>2. Split(i, old[i]).fault = "none"
        BY <1>3, <3>4 DEF Bad
      <4>3. /\ BucketOK(k + 1, 2 * i, Split(i, old[i]).even)
            /\ BucketOK(k + 1, 2 * i + 1, Split(i, old[i]).odd)
        BY <4>1, <4>2, SplitBuckets
      <4>4. slots'[j] = IF j % 2 = 0 THEN Split(i, old[i]).even ELSE Split(i, old[i]).odd
        BY <1>3, <2>1, <3>1, <3>4 DEF NewTable
      <4> QED
        BY <4>3, <4>4, <3>2, <2>1
    <3> QED
      BY <3>3, <3>4
  <2>4. heads' \in [Buckets(kb) -> 0 .. HEAD_COUNTER - 1]
    BY <1>3, <2>1, EmptyTable
  <2> QED
    BY <1>1, <1>3, <2>1, <2>2, <2>3, <2>4 DEF HotRingInv
<1> QED
  BY <1>2, <1>3, RehashCases

\* hash_get calls hotring_rehash on such a table.
LEMMA RehashTable ==
  ASSUME HotRingInv, NEW key \in Keys, GetRehash(key)
  PROVE  LET i == hashIndex(k, key)
             touched == Touch(slots[i], Find(slots[i], key))
             ring == Rotate(Cooled(touched), Hottest(touched))
         IN  /\ i \in Buckets(k) /\ k < MaxK /\ Find(slots[i], key) > 1
             /\ Table(Changed(slots, i, ring)) /\ Rehash(Changed(slots, i, ring))
             /\ Changed(slots, i, ring)[i] = ring
             /\ \A j \in Buckets(k) : j # i => Changed(slots, i, ring)[j] = slots[j]
<1> DEFINE i == hashIndex(k, key)
           touched == Touch(slots[i], Find(slots[i], key))
           ring == Rotate(Cooled(touched), Hottest(touched))
<1>1. i \in Buckets(k) /\ k < MaxK /\ Find(slots[i], key) > 1 /\ Rehash(Changed(slots, i, ring))
  BY DEF GetRehash, InTable, Changed
<1>2. BucketOK(k, i, ring)
  BY <1>1, ShiftBucket
<1>3. /\ Table(Changed(slots, i, ring))
      /\ Changed(slots, i, ring)[i] = ring
      /\ \A j \in Buckets(k) : j # i => Changed(slots, i, ring)[j] = slots[j]
  <2> HIDE DEF ring, i
  <2> QED
    BY <1>1, <1>2, ChangedIs DEF Table
<1> QED
  BY <1>1, <1>3

\* hash_get that rehashes.
LEMMA InvGetRehash ==
  ASSUME HotRingInv, NEW key \in Keys, GetRehash(key)
  PROVE  HotRingInv'
BY RehashTable, InvRehash

\* hotring_delete.
LEMMA InvDelete ==
  ASSUME HotRingInv, NEW key \in Keys,
         DeleteCold(key) \/ DeleteHot(key) \/ DeleteMiss(key)
  PROVE  HotRingInv'
<1> DEFINE i == hashIndex(k, key)
           j == Find(slots[i], key)
<1>1. i \in Buckets(k) /\ UNCHANGED <<k, nr_request, fault>>
  BY DEF DeleteCold, DeleteHot, DeleteMiss, InTable
<1>2. BucketOK(k, i, slots[i]) /\ j \in 0 .. Len(slots[i]) /\ Len(slots[i]) \in Nat
  BY <1>1, BucketsAre, TouchBucket
<1>3. Counted(i) \in [Buckets(k) -> 0 .. HEAD_COUNTER - 1]
  BY <1>1, CountedIs
<1>4. CASE DeleteCold(key)
  <2>1. slots' = Changed(slots, i, RemoveAt(slots[i], j)) /\ heads' = Counted(i) /\ j > 1
    BY <1>4 DEF DeleteCold, Changed
  <2>2. BucketOK(k, i, RemoveAt(slots[i], j))
    <3> HIDE DEF i, j
    <3>1. j \in 1 .. Len(slots[i])
      BY <1>2, <2>1
    <3> QED
      BY <3>1, <1>2, RemoveBucket
  <2> HIDE DEF i, j
  <2>3. DOMAIN slots' = Buckets(k) /\ \A x \in Buckets(k) : BucketOK(k, x, slots'[x])
    BY <1>1, <2>1, <2>2, ChangedIs
  <2> QED
    BY <1>1, <1>3, <2>1, <2>3 DEF HotRingInv
<1>5. CASE DeleteHot(key)
  <2>1. slots' = Changed(slots, i, <<>>) /\ heads' = [heads EXCEPT ![i] = 0]
    BY <1>5 DEF DeleteHot, Changed
  <2> HIDE DEF i, j
  <2>2. DOMAIN slots' = Buckets(k) /\ \A x \in Buckets(k) : BucketOK(k, x, slots'[x])
    BY <1>1, <2>1, EmptyBucket, ChangedIs
  <2>3. 0 \in 0 .. HEAD_COUNTER - 1
    BY HotRingAssumption
  <2>4. heads' \in [Buckets(k) -> 0 .. HEAD_COUNTER - 1]
    BY <2>1, <2>3, <1>1 DEF HotRingInv
  <2> QED
    BY <1>1, <2>2, <2>4 DEF HotRingInv
<1>6. CASE DeleteMiss(key)
  BY <1>6, <1>1, <1>3 DEF DeleteMiss, HotRingInv
<1> QED
  BY <1>4, <1>5, <1>6

\* Every call keeps the invariant.
LEMMA InvStep == HotRingInv /\ [Next]_vars => HotRingInv'
<1> SUFFICES ASSUME HotRingInv, [Next]_vars PROVE HotRingInv'
  OBVIOUS
<1>1. ASSUME NEW key \in Keys, OutOfTable(key) PROVE HotRingInv'
  BY <1>1, InvCrash DEF OutOfTable
<1>2. ASSUME NEW key \in Keys, NEW value \in Values, Insert(key, value) PROVE HotRingInv'
  BY <1>2, InvInsert
<1>3. ASSUME NEW key \in Keys, Get(key) PROVE HotRingInv'
  BY <1>3, InvGet
<1>4. ASSUME NEW key \in Keys, GetShift(key) PROVE HotRingInv'
  BY <1>4, InvGetShift
<1>5. ASSUME NEW key \in Keys, GetRehash(key) PROVE HotRingInv'
  BY <1>5, InvGetRehash
<1>6. ASSUME NEW key \in Keys, GetWrapped(key) PROVE HotRingInv'
  BY <1>6, InvCrash DEF GetWrapped
<1>7. ASSUME NEW key \in Keys, DeleteCold(key) \/ DeleteHot(key) \/ DeleteMiss(key)
      PROVE  HotRingInv'
  BY <1>7, InvDelete
<1>8. CASE UNCHANGED vars
  BY <1>8 DEF vars, HotRingInv
<1> QED
  BY <1>1, <1>2, <1>3, <1>4, <1>5, <1>6, <1>7, <1>8 DEF Next

\* The inductive invariant: every ring of the table, whatever was inserted,
\* deleted, shifted and rehashed, is two ascending runs of tags from its head
\* on, the second below the first; the rings of a table that was never
\* rehashed hold the tags of their keys.
THEOREM HotRingInvariant == Spec => []HotRingInv
BY InvInit, InvStep, PTL DEF Spec
----------------------------------------------------------------------------
(* The theorems.                                                           *)

\* The nodes of a bucket.
LEMMA NodesOf ==
  ASSUME HotRingInv, NEW i \in DOMAIN slots
  PROVE  /\ i \in Buckets(k) /\ slots[i] \in Seq(StoredNode) /\ Sorted(slots[i])
         /\ Len(slots[i]) \in Nat /\ DOMAIN slots[i] = 1 .. Len(slots[i])
         /\ \A n \in Nodes(i) : \E x \in 1 .. Len(slots[i]) : n = slots[i][x]
         /\ \A x \in 1 .. Len(slots[i]) : slots[i][x] \in Nodes(i)
<1>1. i \in Buckets(k) /\ BucketOK(k, i, slots[i])
  BY DEF HotRingInv
<1>2. slots[i] \in Seq(StoredNode) /\ Sorted(slots[i])
  BY <1>1 DEF BucketOK, RingOK
<1>3. Len(slots[i]) \in Nat /\ DOMAIN slots[i] = 1 .. Len(slots[i])
  BY <1>2
<1>4. Nodes(i) = {slots[i][x] : x \in DOMAIN slots[i]}
  BY DEF Nodes, Range
<1> QED
  BY <1>1, <1>2, <1>3, <1>4

\* Whatever hash_insert, hash_get with its hotspot_shift and hotring_rehash,
\* and hotring_delete did, the tags of every ring descend at most once around
\* it, the nodes are in their own buckets up to the first hotring_rehash, and
\* the counters stay within their bit fields.
THEOREM RingsStayWellFormed == Spec => []RingsWellFormed
<1>1. HotRingInv => RingsWellFormed
  <2> SUFFICES ASSUME HotRingInv PROVE RingsWellFormed
    OBVIOUS
  <2>1. DOMAIN slots = Buckets(k)
    BY DEF HotRingInv
  <2>2. TypeOK
    <3>1. ASSUME NEW i \in Buckets(k), NEW n \in Nodes(i)
          PROVE  n \in StoredNode
      <4>1. PICK x \in 1 .. Len(slots[i]) : n = slots[i][x]
        BY <2>1, NodesOf
      <4>2. slots[i] \in Seq(StoredNode)
        BY <2>1, NodesOf
      <4> QED
        BY <4>1, <4>2
    <3> QED
      BY <3>1 DEF TypeOK, HotRingInv, StoredNode, NodeOf
  <2>3. ASSUME NEW i \in DOMAIN slots, NEW j \in DOMAIN slots[i], NEW l \in DOMAIN slots[i],
               slots[i][j].tag > slots[i][IF j = Len(slots[i]) THEN 1 ELSE j + 1].tag,
               slots[i][l].tag > slots[i][IF l = Len(slots[i]) THEN 1 ELSE l + 1].tag
        PROVE  j = l
    <3>1. PICK ring \in Seq(StoredNode) : ring = slots[i]
      BY NodesOf
    <3>2. Sorted(ring) /\ Len(ring) \in Nat /\ DOMAIN ring = 1 .. Len(ring)
      BY <3>1, NodesOf
    <3>3. \A x \in 1 .. Len(ring) : ring[x].tag \in Nat
      BY StoredAny, NodesAre
    <3>4. j \in 1 .. Len(ring) /\ l \in 1 .. Len(ring)
      BY <3>1, <3>2
    <3>5. PICK m \in 1 .. Len(ring) : m = IF j = Len(ring) THEN 1 ELSE j + 1
      BY <3>2, <3>4
    <3>6. PICK o \in 1 .. Len(ring) : o = IF l = Len(ring) THEN 1 ELSE l + 1
      BY <3>2, <3>4
    <3>7. ring[j].tag > ring[m].tag /\ ring[l].tag > ring[o].tag
      BY <2>3, <3>1, <3>5, <3>6
    <3> QED
      BY <3>2, <3>3, <3>4, <3>5, <3>6, <3>7, SortedOnce
  <2>4. RingsSorted
    BY <2>3 DEF RingsSorted
  <2>5. InOwnBucket
    <3> SUFFICES ASSUME k <= K0 + 1, NEW i \in DOMAIN slots, NEW n \in Nodes(i)
                 PROVE  hashIndex(k, n.key) = i
      BY DEF InOwnBucket
    <3>1. PICK x \in 1 .. Len(slots[i]) : n = slots[i][x]
      BY NodesOf
    <3>2. BucketOK(k, i, slots[i])
      BY <2>1 DEF HotRingInv
    <3> QED
      BY <3>1, <3>2 DEF BucketOK
  <2> QED
    BY <2>2, <2>4, <2>5 DEF RingsWellFormed
<1> QED
  BY <1>1, HotRingInvariant, PTL

\* __hash_get finds every key of a ring whose tags were computed at one table
\* size, wherever its head is, although the ring is ordered by tag and the
\* search compares keys.
THEOREM UniformRingsAreComplete == Spec => []UniformRingsComplete
<1>1. HotRingInv => UniformRingsComplete
  <2> SUFFICES ASSUME HotRingInv, NEW i \in DOMAIN slots,
                      \A n, o \in Nodes(i) : n.key - n.tag = o.key - o.tag,
                      NEW n \in Nodes(i)
               PROVE  Find(slots[i], n.key) # 0
    BY DEF UniformRingsComplete
  <2>1. PICK a \in 1 .. Len(slots[i]) : n = slots[i][a]
    BY NodesOf
  <2>2. PICK ring \in Seq(StoredNode) : ring = slots[i]
    BY NodesOf
  <2>3. Sorted(ring) /\ \A x \in 1 .. Len(ring) : ring[x].tag \in Nat /\ ring[x].key \in Nat
    BY <2>2, NodesOf, StoredAny, NodesAre
  <2>4. PICK d \in Int : d = ring[a].key - ring[a].tag
    BY <2>1, <2>2, <2>3
  <2>5. \A x \in 1 .. Len(ring) : ring[x].key = d + ring[x].tag
    <3> TAKE x \in 1 .. Len(ring)
    <3>1. ring[x].key - ring[x].tag = d
      <4>1. ring[x] \in Nodes(i) /\ ring[a] \in Nodes(i)
        BY <2>1, <2>2, NodesOf
      <4> QED
        BY <4>1, <2>4
    <3> QED
      BY <3>1, <2>3
  <2> QED
    BY <2>1, <2>2, <2>3, <2>5, StoredAny, FindComplete
<1> QED
  BY <1>1, HotRingInvariant, PTL

\* A table that was never rehashed: hash_get dereferences NULL only when a
\* head counter wraps to 0, or when a stored key is the key of one of the
\* milestones that hotring_rehash looks up.
THEOREM NullOnlyThere == Spec => NullOnlyAtMilestoneOrWrap
<1> DEFINE Wrap == \E i \in DOMAIN heads : heads[i] = HEAD_COUNTER - 1
           Mile == \E i \in DOMAIN slots : \E n \in Nodes(i) :
                     n.key % 2^(NBITS - K0 - 1) = 0
           Null == k = K0 /\ fault = "none" /\ fault' = "null" => Wrap \/ Mile
<1>1. ASSUME HotRingInv, [Next]_vars PROVE [Null]_vars
  <2>1. SUFFICES ASSUME k = K0, fault = "none", fault' = "null", Next
                 PROVE  Wrap \/ Mile
    BY <1>1
  <2>2. \E key \in Keys : GetWrapped(key) \/ GetRehash(key)
    BY <2>1 DEF Next, OutOfTable, Crash, Insert, Get, GetShift, DeleteCold, DeleteHot, DeleteMiss
  <2>3. PICK key \in Keys : GetWrapped(key) \/ GetRehash(key)
    BY <2>2
  <2> DEFINE i == hashIndex(k, key)
  <2>4. CASE GetWrapped(key)
    <3>1. i \in Buckets(k) /\ Find(slots[i], key) > 1 /\ Counted(i)[i] = 0
      BY <2>4 DEF GetWrapped, InTable
    <3>2. Find(slots[i], key) # 0
      BY <3>1
    <3> HIDE DEF i
    <3>3. slots[i] # <<>>
      BY <1>1, <3>1, <3>2, TouchBucket
    <3>4. heads[i] = HEAD_COUNTER - 1 /\ DOMAIN heads = Buckets(k)
      BY <1>1, <3>1, <3>3, CountedIs DEF HotRingInv
    <3> QED
      BY <3>1, <3>4
  <2>5. CASE GetRehash(key)
    <3> DEFINE touched == Touch(slots[i], Find(slots[i], key))
               ring == Rotate(Cooled(touched), Hottest(touched))
               table == Changed(slots, i, ring)
               n == Len(slots[i])
    <3>1. /\ i \in Buckets(k) /\ k < MaxK /\ Find(slots[i], key) > 1
          /\ Table(table) /\ Rehash(table) /\ table[i] = ring
          /\ \A j \in Buckets(k) : j # i => table[j] = slots[j]
      BY <1>1, <2>5, RehashTable
    <3>2. /\ Len(ring) = n /\ Hottest(touched) \in 1 .. n
          /\ n \in Nat \ {0, 1}
          /\ \A q, x \in 1 .. n : Before(n, Hottest(touched), q, x) => Similar(ring[q], slots[i][x])
      BY <1>1, <3>1, ShiftBucket
    <3>3. PICK t \in 1 .. n : \A q, x \in 1 .. n : Before(n, t, q, x) => Similar(ring[q], slots[i][x])
      BY <3>2
    <3>4. PICK old : old = table
      OBVIOUS
    <3>5. /\ Table(old) /\ Rehash(old) /\ old[i] = ring
          /\ \A j \in Buckets(k) : j # i => old[j] = slots[j]
      BY <3>1, <3>4
    <3> HIDE DEF table, ring, i, touched
    <3>6. PICK b \in Bad(old) : Crash(Split(b, old[b]).fault)
      BY <1>1, <2>1, <3>1, <3>5, RehashCases
    <3>7. b \in Used(old) /\ Split(b, old[b]).fault = "null"
      BY <2>1, <3>6 DEF Bad, Crash
    <3>8. /\ b \in Nat /\ b \in Buckets(k) /\ Fresh(b, old[b])
      BY <1>1, <2>1, <3>1, <3>5, <3>7, RehashIs
    <3>9. old[b][1].key = Base(b) \/ old[b][1].key = Base(b) + Half
      BY <3>7, <3>8, FirstSplit
    <3>10. PICK h \in Nat \ {0} :
             h = Half /\ h = 2^(NBITS - K0 - 1) /\ Base(b) = b * (2 * h)
      <4>1. K0 \in K0 .. MaxK /\ NBITS - (K0 + 1) = NBITS - K0 - 1
        BY HotRingAssumption
      <4> QED
        BY <4>1, <2>1, HalfIs DEF Half, Base
    <3>11. old[b][1].key % h = 0
      <4>1. PICK c \in Nat : old[b][1].key = c * h + 0
        <5>1. CASE old[b][1].key = Base(b)
          <6>1. 2 * b \in Nat /\ old[b][1].key = (2 * b) * h + 0
            BY <5>1, <3>8, <3>10
          <6> QED
            BY <6>1
        <5>2. CASE old[b][1].key = Base(b) + Half
          <6>1. 2 * b + 1 \in Nat /\ old[b][1].key = (2 * b + 1) * h + 0
            BY <5>2, <3>8, <3>10
          <6> QED
            BY <6>1
        <5> QED
          BY <3>9, <5>1, <5>2
      <4>2. 0 \in 0 .. h - 1 /\ (c * h + 0) % h = 0
        BY DivModUnique
      <4> QED
        BY <4>1, <4>2
    <3>12. \E x \in 1 .. Len(slots[b]) : slots[b][x].key = old[b][1].key
      <4>1. CASE b = i
        <5>1. 1 \in 1 .. n
          BY <3>2
        <5>2. PICK x \in 1 .. n : Before(n, t, 1, x)
          BY <3>2, <5>1, PlaceBefore
        <5>3. Similar(ring[1], slots[i][x])
          BY <3>3, <5>1, <5>2
        <5> QED
          BY <4>1, <5>3, <3>5 DEF Similar
      <4>2. CASE b # i
        <5>1. old[b] = slots[b] /\ old[b] # <<>> /\ slots[b] \in Seq(StoredNode)
          BY <4>2, <3>5, <3>7, <3>8, <1>1, BucketsAre DEF Used
        <5>2. 1 \in 1 .. Len(slots[b])
          BY <5>1
        <5> QED
          BY <5>1, <5>2
      <4> QED
        BY <4>1, <4>2
    <3>13. PICK x \in 1 .. Len(slots[b]) : slots[b][x].key = old[b][1].key
      BY <3>12
    <3>14. b \in DOMAIN slots
      BY <1>1, <3>8 DEF HotRingInv
    <3>15. slots[b][x] \in Nodes(b)
      BY <1>1, <3>14, NodesOf
    <3>16. slots[b][x].key % 2^(NBITS - K0 - 1) = 0
      BY <3>10, <3>11, <3>13
    <3> QED
      BY <3>14, <3>15, <3>16
  <2> QED
    BY <2>3, <2>4, <2>5
<1> QED
  BY <1>1, HotRingInvariant, PTL DEF Spec, NullOnlyAtMilestoneOrWrap
----------------------------------------------------------------------------
(* What is stored.                                                         *)

PlacesOf(table) == UNION {{i} \X DOMAIN table[i] : i \in DOMAIN table}

Count(table, key, value) ==
  Cardinality({p \in PlacesOf(table) : /\ table[p[1]][p[2]].key = key
                                       /\ table[p[1]][p[2]].value = value})

\* F says for every node of the table new where it was in the table old.
Carries(F, old, new) ==
  /\ F \in [PlacesOf(new) -> PlacesOf(old)]
  /\ \A p, q \in PlacesOf(new) : F[p] = F[q] => p = q
  /\ \A p \in PlacesOf(old) : \E q \in PlacesOf(new) : F[q] = p
  /\ \A p \in PlacesOf(new) : Similar(new[p[1]][p[2]], old[F[p][1]][F[p][2]])

\* The places of a table.
LEMMA PlacesAre ==
  ASSUME NEW table
  PROVE  /\ \A p \in PlacesOf(table) : /\ p = <<p[1], p[2]>>
                                       /\ p[1] \in DOMAIN table /\ p[2] \in DOMAIN table[p[1]]
         /\ \A i \in DOMAIN table : \A x \in DOMAIN table[i] : <<i, x>> \in PlacesOf(table)
BY DEF PlacesOf

\* There are finitely many of them.
LEMMA PlacesFinite ==
  ASSUME NEW table, NEW n \in Nat, DOMAIN table = 0 .. n - 1,
         \A i \in 0 .. n - 1 : table[i] \in Seq(StoredNode)
  PROVE  IsFiniteSet(PlacesOf(table))
<1> DEFINE Row(i) == {i} \X DOMAIN table[i]
           rows == {Row(i) : i \in 0 .. n - 1}
           f == [i \in 0 .. n - 1 |-> Row(i)]
<1>1. IsFiniteSet(0 .. n - 1)
  BY FS_Interval
<1>2. f \in Surjection(0 .. n - 1, rows)
  BY DEF Surjection
<1>3. IsFiniteSet(rows)
  BY <1>1, <1>2, FS_Surjection DEF ExistsSurjection
<1>4. ASSUME NEW i \in 0 .. n - 1
      PROVE  IsFiniteSet(Row(i))
  <2>1. Len(table[i]) \in Nat /\ DOMAIN table[i] = 1 .. Len(table[i])
    OBVIOUS
  <2>2. IsFiniteSet(DOMAIN table[i])
    BY <2>1, FS_Interval
  <2>3. IsFiniteSet({i})
    BY FS_Singleton
  <2> QED
    BY <2>2, <2>3, FS_Product
<1>5. \A R \in rows : IsFiniteSet(R)
  BY <1>4
<1>6. PlacesOf(table) = UNION rows
  BY DEF PlacesOf
<1> HIDE DEF rows
<1> QED
  BY <1>3, <1>5, <1>6, FS_UNION

\* Nodes that are carried over are neither lost nor duplicated.
LEMMA CarriesCount ==
  ASSUME NEW old, NEW new, NEW F, Carries(F, old, new), IsFiniteSet(PlacesOf(new)),
         NEW key, NEW value
  PROVE  /\ Count(new, key, value) = Count(old, key, value)
         /\ Cardinality(PlacesOf(new)) = Cardinality(PlacesOf(old))
<1> DEFINE P(table) == {p \in PlacesOf(table) : /\ table[p[1]][p[2]].key = key
                                                /\ table[p[1]][p[2]].value = value}
           G == [p \in P(new) |-> F[p]]
<1>1. ExistsBijection(PlacesOf(new), PlacesOf(old))
  <2>1. F \in Bijection(PlacesOf(new), PlacesOf(old))
    BY DEF Carries, Bijection, Injection, IsInjective, Surjection
  <2> QED
    BY <2>1 DEF ExistsBijection
<1>2. Cardinality(PlacesOf(new)) = Cardinality(PlacesOf(old))
  BY <1>1, FS_Bijection
<1>3. \A p \in PlacesOf(new) : p \in P(new) <=> F[p] \in P(old)
  <2> TAKE p \in PlacesOf(new)
  <2>1. F[p] \in PlacesOf(old) /\ Similar(new[p[1]][p[2]], old[F[p][1]][F[p][2]])
    BY DEF Carries
  <2> QED
    BY <2>1 DEF Similar
<1>4. G \in [P(new) -> P(old)]
  BY <1>3
<1>5. \A p, q \in P(new) : G[p] = G[q] => p = q
  BY DEF Carries
<1>6. \A p \in P(old) : \E q \in P(new) : G[q] = p
  <2> TAKE p \in P(old)
  <2>1. PICK q \in PlacesOf(new) : F[q] = p
    BY DEF Carries
  <2>2. q \in P(new)
    BY <2>1, <1>3
  <2> QED
    BY <2>1, <2>2
<1>7. P(new) \in SUBSET PlacesOf(new)
  OBVIOUS
<1>8. Count(new, key, value) = Cardinality(P(new)) /\ Count(old, key, value) = Cardinality(P(old))
  BY DEF Count
<1> HIDE DEF P, G
<1>9. ExistsBijection(P(new), P(old))
  <2>1. G \in Bijection(P(new), P(old))
    BY <1>4, <1>5, <1>6 DEF Bijection, Injection, IsInjective, Surjection
  <2> QED
    BY <2>1 DEF ExistsBijection
<1>10. IsFiniteSet(P(new))
  BY <1>7, FS_Subset
<1> QED
  BY <1>2, <1>8, <1>9, <1>10, FS_Bijection

\* One way of carrying nodes after another.
LEMMA CarriesThrough ==
  ASSUME NEW old, NEW mid, NEW new, NEW F, Carries(F, old, mid), NEW G, Carries(G, mid, new)
  PROVE  Carries([p \in PlacesOf(new) |-> F[G[p]]], old, new)
<1> DEFINE H == [p \in PlacesOf(new) |-> F[G[p]]]
<1>1. \A p \in PlacesOf(new) : G[p] \in PlacesOf(mid) /\ F[G[p]] \in PlacesOf(old)
  BY DEF Carries
<1>2. H \in [PlacesOf(new) -> PlacesOf(old)] /\ \A p \in PlacesOf(new) : H[p] = F[G[p]]
  BY <1>1
<1> HIDE DEF H
<1>3. \A p, q \in PlacesOf(new) : H[p] = H[q] => p = q
  BY <1>1, <1>2 DEF Carries
<1>4. \A p \in PlacesOf(old) : \E q \in PlacesOf(new) : H[q] = p
  <2> TAKE p \in PlacesOf(old)
  <2>1. PICK m \in PlacesOf(mid) : F[m] = p
    BY DEF Carries
  <2>2. PICK q \in PlacesOf(new) : G[q] = m
    BY DEF Carries
  <2> QED
    BY <2>1, <2>2, <1>2
<1>5. \A p \in PlacesOf(new) : Similar(new[p[1]][p[2]], old[H[p][1]][H[p][2]])
  <2> TAKE p \in PlacesOf(new)
  <2>1. PICK m \in PlacesOf(mid) : m = G[p]
    BY <1>1
  <2>2. Similar(new[p[1]][p[2]], mid[m[1]][m[2]])
    BY <2>1 DEF Carries
  <2>3. Similar(mid[m[1]][m[2]], old[F[m][1]][F[m][2]])
    BY DEF Carries
  <2>4. H[p] = F[m]
    BY <2>1, <1>2
  <2> QED
    BY <2>2, <2>3, <2>4 DEF Similar
<1> QED
  BY <1>2, <1>3, <1>4, <1>5 DEF Carries, H

\* A ring with its nodes in another order.
LEMMA CarriesRing ==
  ASSUME HotRingInv, NEW i \in Buckets(k), NEW ring \in Seq(StoredNode), NEW f,
         Len(ring) = Len(slots[i]), Numbers(f, Len(ring), 1 .. Len(ring)),
         \A x \in 1 .. Len(ring) : Similar(ring[x], slots[i][f[x]])
  PROVE  \E F : Carries(F, slots, Changed(slots, i, ring))
<1> DEFINE n == Len(ring)
           new == Changed(slots, i, ring)
           F == [p \in PlacesOf(new) |-> IF p[1] = i THEN <<i, f[p[2]]>> ELSE p]
<1>1. /\ DOMAIN slots = Buckets(k) /\ slots[i] \in Seq(StoredNode)
      /\ DOMAIN slots[i] = 1 .. n /\ n \in Nat /\ DOMAIN ring = 1 .. n
  <2>1. DOMAIN slots = Buckets(k) /\ slots[i] \in Seq(StoredNode)
    BY BucketsAre DEF HotRingInv
  <2> QED
    BY <2>1
<1>2. /\ DOMAIN new = Buckets(k) /\ new[i] = ring
      /\ \A j \in Buckets(k) : j # i => new[j] = slots[j]
  BY <1>1 DEF Changed
<1> HIDE DEF new
<1>3. \A j \in Buckets(k) : DOMAIN new[j] = DOMAIN slots[j]
  BY <1>1, <1>2
<1>4. \A p \in PlacesOf(new) : p = <<p[1], p[2]>> /\ p[1] \in Buckets(k) /\ p[2] \in DOMAIN new[p[1]]
  BY <1>2, PlacesAre
<1>5. \A j \in Buckets(k) : \A x \in DOMAIN slots[j] : <<j, x>> \in PlacesOf(slots) /\ <<j, x>> \in PlacesOf(new)
  BY <1>1, <1>2, <1>3, PlacesAre
<1>6. \A x \in 1 .. n : f[x] \in 1 .. n
  BY DEF Numbers
<1>7. ASSUME NEW p \in PlacesOf(new)
      PROVE  /\ F[p] \in PlacesOf(slots)
             /\ Similar(new[p[1]][p[2]], slots[F[p][1]][F[p][2]])
             /\ p[1] = i => F[p] = <<i, f[p[2]]>> /\ p[2] \in 1 .. n
             /\ p[1] # i => F[p] = p
  <2>1. CASE p[1] = i
    <3>1. F[p] = <<i, f[p[2]]>> /\ p[2] \in 1 .. n
      BY <2>1, <1>1, <1>2, <1>4
    <3>2. f[p[2]] \in 1 .. n /\ Similar(ring[p[2]], slots[i][f[p[2]]])
      BY <3>1, <1>6
    <3>3. F[p] \in PlacesOf(slots)
      BY <3>1, <3>2, <1>1, <1>5
    <3>4. F[p][1] = i /\ F[p][2] = f[p[2]]
      BY <3>1
    <3> HIDE DEF F
    <3> QED
      BY <2>1, <3>1, <3>2, <3>3, <3>4, <1>2
  <2>2. CASE p[1] # i
    <3>1. F[p] = p /\ new[p[1]] = slots[p[1]]
      BY <2>2, <1>2, <1>4
    <3>2. p \in PlacesOf(slots)
      BY <1>3, <1>4, <1>5
    <3> HIDE DEF F
    <3> QED
      BY <2>2, <3>1, <3>2 DEF Similar
  <2> QED
    BY <2>1, <2>2
<1>8. F \in [PlacesOf(new) -> PlacesOf(slots)]
  BY <1>7
<1> HIDE DEF F
<1>9. ASSUME NEW p \in PlacesOf(new), NEW q \in PlacesOf(new), F[p] = F[q]
      PROVE  p = q
  <2>1. p[1] = q[1] /\ (p[1] = i => f[p[2]] = f[q[2]]) /\ (p[1] # i => p = q)
    BY <1>7, <1>9
  <2>2. CASE p[1] = i
    <3>1. p[2] \in 1 .. n /\ q[2] \in 1 .. n /\ f[p[2]] = f[q[2]]
      BY <2>1, <2>2, <1>7
    <3>2. p[2] = q[2]
      <4>1. PICK x \in 1 .. n, y \in 1 .. n : x = p[2] /\ y = q[2] /\ f[x] = f[y]
        BY <3>1
      <4>2. \A u, v \in 1 .. n : f[u] = f[v] => u = v
        BY DEF Numbers
      <4> QED
        BY <4>1, <4>2
    <3> QED
      BY <2>1, <3>2, <1>4
  <2> QED
    BY <2>1, <2>2
<1>10. ASSUME NEW p \in PlacesOf(slots)
       PROVE  \E q \in PlacesOf(new) : F[q] = p
  <2>1. p = <<p[1], p[2]>> /\ p[1] \in Buckets(k) /\ p[2] \in DOMAIN slots[p[1]]
    BY <1>1, PlacesAre
  <2>2. CASE p[1] = i
    <3>1. PICK x \in 1 .. n : f[x] = p[2]
      BY <2>1, <2>2, <1>1 DEF Numbers
    <3>2. <<i, x>> \in PlacesOf(new) /\ <<i, x>>[1] = i /\ <<i, x>>[2] = x
      BY <1>1, <1>5
    <3>3. F[<<i, x>>] = <<i, f[x]>>
      BY <3>2, <1>7
    <3> QED
      BY <3>1, <3>2, <3>3, <2>1, <2>2
  <2>3. CASE p[1] # i
    <3>1. p \in PlacesOf(new)
      BY <2>1, <1>5
    <3> QED
      BY <3>1, <2>3, <1>7
  <2> QED
    BY <2>2, <2>3
<1> QED
  BY <1>7, <1>8, <1>9, <1>10 DEF Carries, new

\* f and g number the nodes of a ring that end up in its
\* even and in its odd half.
Halves(f, g, R, ring, even, odd) ==
  /\ R \subseteq 1 .. Len(ring)
  /\ Numbers(f, Len(even), R) /\ Numbers(g, Len(odd), (1 .. Len(ring)) \ R)
  /\ \A x \in 1 .. Len(even) : Similar(even[x], ring[f[x]])
  /\ \A x \in 1 .. Len(odd) : Similar(odd[x], ring[g[x]])

\* hotring_rehash carries every node into the new table, and no milestone.
LEMMA CarriesRehash ==
  ASSUME HotRingInv, NEW old, Table(old), k < MaxK, Bad(old) = {}
  PROVE  \E F : Carries(F, old, NewTable(old))
<1> DEFINE new == NewTable(old)
           Even(i) == Split(i, old[i]).even
           Odd(i) == Split(i, old[i]).odd
<1>1. ASSUME NEW i \in Used(old)
      PROVE  /\ i \in Nat /\ i \in Buckets(k) /\ old[i] \in Seq(StoredNode)
             /\ Even(i) \in Seq(StoredNode) /\ Odd(i) \in Seq(StoredNode)
             /\ \E t : Halves(t[1], t[2], t[3], old[i], Even(i), Odd(i))
  <2>1. i \in Nat /\ i \in Buckets(k) /\ Splittable(i, old[i])
    BY RehashIs
  <2>2. Split(i, old[i]).fault = "none"
    BY DEF Bad
  <2>3. RingOK(Even(i)) /\ RingOK(Odd(i)) /\ Parted(old[i], Even(i), Odd(i))
    BY <2>1, <2>2, SplitGood
  <2> HIDE DEF Even, Odd
  <2>4. PICK f, g, R : Halves(f, g, R, old[i], Even(i), Odd(i))
    BY <2>3 DEF Parted, Halves
  <2>5. Halves(<<f, g, R>>[1], <<f, g, R>>[2], <<f, g, R>>[3], old[i], Even(i), Odd(i))
    BY <2>4
  <2> QED
    BY <2>1, <2>3, <2>5 DEF RingOK, Splittable
<1> DEFINE T(i) == CHOOSE t : Halves(t[1], t[2], t[3], old[i], Even(i), Odd(i))
<1>2. ASSUME NEW i \in Used(old)
      PROVE  Halves(T(i)[1], T(i)[2], T(i)[3], old[i], Even(i), Odd(i))
  BY <1>1
<1> DEFINE fe(i) == T(i)[1]
           go(i) == T(i)[2]
           R(i) == T(i)[3]
<1>3. ASSUME NEW i \in Used(old)
      PROVE  /\ Numbers(fe(i), Len(Even(i)), R(i))
             /\ Numbers(go(i), Len(Odd(i)), (1 .. Len(old[i])) \ R(i))
             /\ R(i) \subseteq 1 .. Len(old[i])
             /\ \A x \in 1 .. Len(Even(i)) : Similar(Even(i)[x], old[i][fe(i)[x]])
             /\ \A x \in 1 .. Len(Odd(i)) : Similar(Odd(i)[x], old[i][go(i)[x]])
             /\ Len(Even(i)) \in Nat /\ Len(Odd(i)) \in Nat /\ Len(old[i]) \in Nat
             /\ DOMAIN Even(i) = 1 .. Len(Even(i)) /\ DOMAIN Odd(i) = 1 .. Len(Odd(i))
             /\ DOMAIN old[i] = 1 .. Len(old[i])
  <2>1. Halves(T(i)[1], T(i)[2], T(i)[3], old[i], Even(i), Odd(i))
    BY <1>2
  <2>2. old[i] \in Seq(StoredNode) /\ Even(i) \in Seq(StoredNode) /\ Odd(i) \in Seq(StoredNode)
    BY <1>1
  <2> HIDE DEF T, Even, Odd
  <2> QED
    BY <2>1, <2>2 DEF Halves
<1>4. DOMAIN old = Buckets(k) /\ k \in K0 .. MaxK
  BY DEF Table, HotRingInv
<1>5. /\ DOMAIN new = Buckets(k + 1)
      /\ \A j \in Buckets(k + 1) :
           new[j] = IF j \div 2 \notin Used(old) THEN <<>>
                    ELSE IF j % 2 = 0 THEN Even(j \div 2) ELSE Odd(j \div 2)
  BY DEF NewTable
<1> HIDE DEF T, fe, go, R, Even, Odd, new
\* Where the node of bucket j at place x comes from.
<1> DEFINE Origin(j, x) == IF j % 2 = 0 THEN fe(j \div 2)[x] ELSE go(j \div 2)[x]
           F == [p \in PlacesOf(new) |-> <<p[1] \div 2, Origin(p[1], p[2])>>]
<1>6. ASSUME NEW j \in Buckets(k + 1), NEW x \in DOMAIN new[j]
      PROVE  \E i \in Used(old) :
               /\ i = j \div 2 /\ j \in Nat
               /\ \/ /\ j % 2 = 0 /\ j = 2 * i /\ new[j] = Even(i)
                     /\ x \in 1 .. Len(Even(i)) /\ Origin(j, x) = fe(i)[x]
                     /\ fe(i)[x] \in R(i)
                  \/ /\ j % 2 # 0 /\ j = 2 * i + 1 /\ new[j] = Odd(i)
                     /\ x \in 1 .. Len(Odd(i)) /\ Origin(j, x) = go(i)[x]
                     /\ go(i)[x] \in (1 .. Len(old[i])) \ R(i)
  <2>1. j \in Nat /\ (IF j % 2 = 0 THEN j = 2 * (j \div 2) ELSE j = 2 * (j \div 2) + 1)
    BY <1>4, HalfIndex
  <2>2. new[j] # <<>>
    OBVIOUS
  <2>3. PICK i \in Used(old) : i = j \div 2
    BY <2>2, <1>5
  <2>4. CASE j % 2 = 0
    <3>1. new[j] = Even(i) /\ j = 2 * i /\ Origin(j, x) = fe(i)[x]
      BY <2>1, <2>3, <2>4, <1>5
    <3>2. x \in 1 .. Len(Even(i))
      BY <3>1, <1>3
    <3>3. fe(i)[x] \in R(i)
      BY <3>2, <1>3 DEF Numbers
    <3> HIDE DEF Origin
    <3> QED
      BY <2>1, <2>3, <2>4, <3>1, <3>2, <3>3
  <2>5. CASE j % 2 # 0
    <3>1. new[j] = Odd(i) /\ j = 2 * i + 1 /\ Origin(j, x) = go(i)[x]
      BY <2>1, <2>3, <2>5, <1>5
    <3>2. x \in 1 .. Len(Odd(i))
      BY <3>1, <1>3
    <3>3. go(i)[x] \in (1 .. Len(old[i])) \ R(i)
      BY <3>2, <1>3 DEF Numbers
    <3> HIDE DEF Origin
    <3> QED
      BY <2>1, <2>3, <2>5, <3>1, <3>2, <3>3
  <2> QED
    BY <2>4, <2>5
<1> HIDE DEF Origin
<1>7. \A p \in PlacesOf(new) : p = <<p[1], p[2]>> /\ p[1] \in Buckets(k + 1) /\ p[2] \in DOMAIN new[p[1]]
  BY <1>5, PlacesAre
<1>8. \A i \in Used(old) : i \in DOMAIN old
  BY DEF Used
<1>9. ASSUME NEW p \in PlacesOf(new)
      PROVE  /\ F[p] = <<p[1] \div 2, Origin(p[1], p[2])>>
             /\ F[p] \in PlacesOf(old)
             /\ Similar(new[p[1]][p[2]], old[F[p][1]][F[p][2]])
  <2>1. PICK j \in Buckets(k + 1) : j = p[1]
    BY <1>7
  <2>2. PICK x \in DOMAIN new[j] : x = p[2]
    BY <1>7, <2>1
  <2>3. PICK i \in Used(old) :
               /\ i = j \div 2 /\ j \in Nat
               /\ \/ /\ j % 2 = 0 /\ j = 2 * i /\ new[j] = Even(i)
                     /\ x \in 1 .. Len(Even(i)) /\ Origin(j, x) = fe(i)[x]
                     /\ fe(i)[x] \in R(i)
                  \/ /\ j % 2 # 0 /\ j = 2 * i + 1 /\ new[j] = Odd(i)
                     /\ x \in 1 .. Len(Odd(i)) /\ Origin(j, x) = go(i)[x]
                     /\ go(i)[x] \in (1 .. Len(old[i])) \ R(i)
    BY <1>6
  <2>4. PICK y : y = Origin(j, x)
    OBVIOUS
  <2>5. y \in 1 .. Len(old[i]) /\ Similar(new[j][x], old[i][y])
    <3>1. CASE j % 2 = 0
      BY <3>1, <2>3, <2>4, <1>3
    <3>2. CASE j % 2 # 0
      BY <3>2, <2>3, <2>4, <1>3
    <3> QED
      BY <3>1, <3>2
  <2>6. F[p] = <<i, y>> /\ F[p] = <<p[1] \div 2, Origin(p[1], p[2])>>
    BY <2>1, <2>2, <2>3, <2>4
  <2>7. <<i, y>> \in PlacesOf(old)
    BY <2>5, <1>3, <1>8, PlacesAre
  <2> HIDE DEF F
  <2>8. F[p][1] = i /\ F[p][2] = y
    BY <2>6
  <2> QED
    BY <2>1, <2>2, <2>5, <2>6, <2>7, <2>8
<1>10. F \in [PlacesOf(new) -> PlacesOf(old)]
  BY <1>9
<1> HIDE DEF F
<1>11. ASSUME NEW p \in PlacesOf(new), NEW q \in PlacesOf(new), F[p] = F[q]
       PROVE  p = q
  <2>1. PICK j \in Buckets(k + 1), jq \in Buckets(k + 1) : j = p[1] /\ jq = q[1]
    BY <1>7
  <2>2. PICK x \in DOMAIN new[j], xq \in DOMAIN new[jq] : x = p[2] /\ xq = q[2]
    BY <1>7, <2>1
  <2>3. j \div 2 = jq \div 2 /\ Origin(j, x) = Origin(jq, xq)
    BY <1>9, <1>11, <2>1, <2>2
  <2>4. PICK i \in Used(old) :
               /\ i = j \div 2 /\ j \in Nat
               /\ \/ /\ j % 2 = 0 /\ j = 2 * i /\ new[j] = Even(i)
                     /\ x \in 1 .. Len(Even(i)) /\ Origin(j, x) = fe(i)[x]
                     /\ fe(i)[x] \in R(i)
                  \/ /\ j % 2 # 0 /\ j = 2 * i + 1 /\ new[j] = Odd(i)
                     /\ x \in 1 .. Len(Odd(i)) /\ Origin(j, x) = go(i)[x]
                     /\ go(i)[x] \in (1 .. Len(old[i])) \ R(i)
    BY <1>6
  <2>5. PICK iq \in Used(old) :
               /\ iq = jq \div 2 /\ jq \in Nat
               /\ \/ /\ jq % 2 = 0 /\ jq = 2 * iq /\ new[jq] = Even(iq)
                     /\ xq \in 1 .. Len(Even(iq)) /\ Origin(jq, xq) = fe(iq)[xq]
                     /\ fe(iq)[xq] \in R(iq)
                  \/ /\ jq % 2 # 0 /\ jq = 2 * iq + 1 /\ new[jq] = Odd(iq)
                     /\ xq \in 1 .. Len(Odd(iq)) /\ Origin(jq, xq) = go(iq)[xq]
                     /\ go(iq)[xq] \in (1 .. Len(old[iq])) \ R(iq)
    BY <1>6
  <2>6. i = iq
    BY <2>3, <2>4, <2>5
  <2>7. CASE j % 2 = 0 /\ jq % 2 = 0
    <3>1. /\ j = jq /\ x \in 1 .. Len(Even(i)) /\ xq \in 1 .. Len(Even(i))
          /\ fe(i)[x] = fe(i)[xq]
      BY <2>3, <2>4, <2>5, <2>6, <2>7
    <3>2. Numbers(fe(i), Len(Even(i)), R(i))
      BY <1>3
    <3>3. x = xq
      BY <3>1, <3>2 DEF Numbers
    <3> QED
      BY <3>1, <3>3, <2>1, <2>2, <1>7
  <2>8. CASE j % 2 # 0 /\ jq % 2 # 0
    <3>1. /\ j = jq /\ x \in 1 .. Len(Odd(i)) /\ xq \in 1 .. Len(Odd(i))
          /\ go(i)[x] = go(i)[xq]
      BY <2>3, <2>4, <2>5, <2>6, <2>8
    <3>2. Numbers(go(i), Len(Odd(i)), (1 .. Len(old[i])) \ R(i))
      BY <1>3
    <3>3. x = xq
      BY <3>1, <3>2 DEF Numbers
    <3> QED
      BY <3>1, <3>3, <2>1, <2>2, <1>7
  <2>9. CASE (j % 2 = 0) # (jq % 2 = 0)
    BY <2>3, <2>4, <2>5, <2>6, <2>9
  <2> QED
    BY <2>7, <2>8, <2>9
<1>12. ASSUME NEW p \in PlacesOf(old)
       PROVE  \E q \in PlacesOf(new) : F[q] = p
  <2>1. p = <<p[1], p[2]>> /\ p[1] \in Buckets(k) /\ p[2] \in DOMAIN old[p[1]]
    BY <1>4, PlacesAre
  <2>2. PICK i \in Used(old) : i = p[1]
    BY <2>1, <1>4 DEF Used
  <2>3. PICK y \in 1 .. Len(old[i]) : y = p[2]
    BY <2>1, <2>2, <1>3
  <2>4. /\ i \in Nat /\ 2 * i \in Buckets(k + 1) /\ 2 * i + 1 \in Buckets(k + 1)
        /\ (2 * i) \div 2 = i /\ (2 * i) % 2 = 0
        /\ (2 * i + 1) \div 2 = i /\ (2 * i + 1) % 2 = 1
    <3>1. i \in Nat /\ i \in Buckets(k)
      BY <1>1
    <3>2. PICK B \in Nat \ {0} : B = 2^k /\ 2^(k + 1) = 2 * B
      BY <1>4, HalfIs
    <3>3. i < B
      BY <3>1, <3>2 DEF Buckets
    <3> QED
      BY <3>1, <3>2, <3>3 DEF Buckets
  <2>5. CASE y \in R(i)
    <3>1. PICK x \in 1 .. Len(Even(i)) : fe(i)[x] = y
      BY <2>5, <1>3 DEF Numbers
    <3>2. PICK j \in Buckets(k + 1) : j = 2 * i
      BY <2>4
    <3>3. new[j] = Even(i) /\ Origin(j, x) = y /\ j \div 2 = i
      BY <2>4, <3>1, <3>2, <1>5 DEF Origin
    <3>4. <<j, x>> \in PlacesOf(new)
      BY <3>3, <1>3, <1>5, PlacesAre
    <3>5. <<j, x>>[1] = j /\ <<j, x>>[2] = x
      OBVIOUS
    <3>6. F[<<j, x>>] = <<i, y>>
      BY <3>3, <3>4, <3>5, <1>9
    <3> QED
      BY <3>4, <3>6, <2>1, <2>2, <2>3
  <2>6. CASE y \notin R(i)
    <3>1. PICK x \in 1 .. Len(Odd(i)) : go(i)[x] = y
      BY <2>6, <1>3 DEF Numbers
    <3>2. PICK j \in Buckets(k + 1) : j = 2 * i + 1
      BY <2>4
    <3>3. new[j] = Odd(i) /\ Origin(j, x) = y /\ j \div 2 = i
      BY <2>4, <3>1, <3>2, <1>5 DEF Origin
    <3>4. <<j, x>> \in PlacesOf(new)
      BY <3>3, <1>3, <1>5, PlacesAre
    <3>5. <<j, x>>[1] = j /\ <<j, x>>[2] = x
      OBVIOUS
    <3>6. F[<<j, x>>] = <<i, y>>
      BY <3>3, <3>4, <3>5, <1>9
    <3> QED
      BY <3>4, <3>6, <2>1, <2>2, <2>3
  <2> QED
    BY <2>5, <2>6
<1> QED
  BY <1>9, <1>10, <1>11, <1>12 DEF Carries, new

\* A table that carries over what slots held.
LEMMA SameContents ==
  ASSUME HotRingInv, HotRingInv', NEW F, Carries(F, slots, slots')
  PROVE  Stored' = Stored /\ NrNodes' = NrNodes
<1>1. IsFiniteSet(PlacesOf(slots'))
  <2>1. PICK kb \in K0 .. MaxK : kb = k'
    BY DEF HotRingInv
  <2>2. PICK B \in Nat : B = 2^kb
    BY HalfIs
  <2>3. DOMAIN slots' = 0 .. B - 1
    BY <2>1, <2>2 DEF HotRingInv, Buckets
  <2>4. \A i \in 0 .. B - 1 : slots'[i] \in Seq(StoredNode)
    BY <2>1, <2>2 DEF HotRingInv, Buckets, BucketOK, RingOK
  <2> QED
    BY <2>2, <2>3, <2>4, PlacesFinite
<1>2. PICK old, new : old = slots /\ new = slots'
  OBVIOUS
<1>3. \A key, value : Count(new, key, value) = Count(old, key, value)
  BY <1>1, <1>2, CarriesCount
<1>4. Cardinality(PlacesOf(new)) = Cardinality(PlacesOf(old))
  BY <1>1, <1>2, CarriesCount
<1>5. NrNodes = Cardinality(PlacesOf(old)) /\ NrNodes' = Cardinality(PlacesOf(new))
  BY <1>2 DEF NrNodes, Places, PlacesOf
<1>6. /\ Stored = [pair \in Keys \X Values |-> Count(old, pair[1], pair[2])]
      /\ Stored' = [pair \in Keys \X Values |-> Count(new, pair[1], pair[2])]
  BY <1>2 DEF Stored, Places, PlacesOf, Count
<1> QED
  BY <1>3, <1>4, <1>5, <1>6

\* hash_get that counts the access only.
LEMMA GetCarries ==
  ASSUME HotRingInv, NEW key \in Keys, Get(key)
  PROVE  \E F : Carries(F, slots, slots')
<1> DEFINE i == hashIndex(k, key)
           ring == Touch(slots[i], Find(slots[i], key))
           n == Len(ring)
           f == [x \in 1 .. n |-> x]
<1>1. i \in Buckets(k) /\ slots' = Changed(slots, i, ring)
  BY DEF Get, InTable, Changed
<1>2. Alike(slots[i], ring) /\ ring \in Seq(StoredNode)
  BY <1>1, TouchBucket
<1> HIDE DEF i, ring
<1>3. Numbers(f, n, 1 .. n)
  BY DEF Numbers
<1>4. n = Len(slots[i]) /\ \A x \in 1 .. n : Similar(ring[x], slots[i][f[x]])
  BY <1>2 DEF Alike, Similar
<1> QED
  BY <1>1, <1>2, <1>3, <1>4, CarriesRing

\* hotspot_shift.
LEMMA ShiftCarries ==
  ASSUME HotRingInv, NEW i \in Buckets(k), NEW key, Find(slots[i], key) > 1
  PROVE  LET touched == Touch(slots[i], Find(slots[i], key))
             ring == Rotate(Cooled(touched), Hottest(touched))
         IN  \E F : Carries(F, slots, Changed(slots, i, ring))
<1> DEFINE touched == Touch(slots[i], Find(slots[i], key))
           t == Hottest(touched)
           ring == Rotate(Cooled(touched), t)
           n == Len(slots[i])
<1>1. /\ BucketOK(k, i, ring) /\ Len(ring) = n /\ t \in 1 .. n
      /\ n \in Nat \ {0, 1}
      /\ \A q, x \in 1 .. n : Before(n, t, q, x) => Similar(ring[q], slots[i][x])
  BY ShiftBucket
<1> HIDE DEF ring, t, touched, n
<1> DEFINE f == [q \in 1 .. n |-> IF q <= n - t + 1 THEN q + t - 1 ELSE q + t - 1 - n]
<1>2. \A q \in 1 .. n : f[q] \in 1 .. n /\ Before(n, t, q, f[q])
  BY <1>1 DEF Before
<1>3. f \in [1 .. n -> 1 .. n]
  BY <1>2
<1> HIDE DEF f
<1>4. \A x, y \in 1 .. n : f[x] = f[y] => x = y
  <2> TAKE x, y \in 1 .. n
  <2>1. PICK a \in 1 .. n, b \in 1 .. n : a = f[x] /\ b = f[y] /\ Before(n, t, x, a) /\ Before(n, t, y, b)
    BY <1>2
  <2>2. x = y <=> a = b
    BY <1>1, <2>1, BeforeOnce
  <2> QED
    BY <2>1, <2>2
<1>5. \A z \in 1 .. n : \E x \in 1 .. n : f[x] = z
  <2> TAKE z \in 1 .. n
  <2>1. PICK x \in 1 .. n : Before(n, t, x, z)
    BY <1>1, MovedIs
  <2>2. PICK a \in 1 .. n : a = f[x] /\ Before(n, t, x, a)
    BY <1>2
  <2>3. x = x <=> a = z
    BY <1>1, <2>1, <2>2, BeforeOnce
  <2> QED
    BY <2>2, <2>3
<1>6. Numbers(f, n, 1 .. n)
  BY <1>3, <1>4, <1>5 DEF Numbers
<1>7. \A x \in 1 .. n : Similar(ring[x], slots[i][f[x]])
  BY <1>1, <1>2
<1>8. ring \in Seq(StoredNode)
  BY <1>1 DEF BucketOK, RingOK
<1>9. \E F : Carries(F, slots, Changed(slots, i, ring))
  BY <1>1, <1>6, <1>7, <1>8, CarriesRing DEF n
<1> QED
  BY <1>9 DEF ring, t, touched

\* hash_get that rehashes and does not crash.
LEMMA RehashCarries ==
  ASSUME HotRingInv, NEW key \in Keys, GetRehash(key), fault' = "none"
  PROVE  \E F : Carries(F, slots, slots')
<1> DEFINE i == hashIndex(k, key)
           touched == Touch(slots[i], Find(slots[i], key))
           ring == Rotate(Cooled(touched), Hottest(touched))
<1>1. /\ i \in Buckets(k) /\ k < MaxK /\ Find(slots[i], key) > 1
      /\ Table(Changed(slots, i, ring)) /\ Rehash(Changed(slots, i, ring))
  BY RehashTable
<1>2. PICK F : Carries(F, slots, Changed(slots, i, ring))
  BY <1>1, ShiftCarries
<1> HIDE DEF ring, touched, i
<1>3. PICK old : old = Changed(slots, i, ring)
  OBVIOUS
<1>4. Table(old) /\ Rehash(old) /\ Carries(F, slots, old)
  BY <1>1, <1>2, <1>3
<1>5. \A b \in Bad(old) : ~Crash(Split(b, old[b]).fault)
  BY DEF Bad, Crash
<1>6. Bad(old) = {} /\ slots' = NewTable(old)
  BY <1>1, <1>4, <1>5, RehashCases
<1>7. PICK G : Carries(G, old, NewTable(old))
  BY <1>1, <1>4, <1>6, CarriesRehash
<1> QED
  BY <1>4, <1>6, <1>7, CarriesThrough

\* hash_get, with its hotspot_shift and hotring_rehash, loses and duplicates
\* nothing and leaves no milestone behind; only hotring_delete loses nodes, one
\* node of a ring or all of the ring whose head it deletes.
THEOREM GetsKeepEverything == Spec => GetsKeepContents
<1> DEFINE Gets == k' # k \/ nr_request' # nr_request
                     => Stored' = Stored /\ NrNodes' = NrNodes
           Lost == \E i \in DOMAIN slots :
                     /\ \A j \in DOMAIN slots \ {i} : slots'[j] = slots[j]
                     /\ slots'[i] = <<>> \/ Len(slots'[i]) = Len(slots[i]) - 1
           Keeps == fault' = "none" => Gets /\ (NrNodes' < NrNodes => Lost)
<1>1. ASSUME HotRingInv, HotRingInv', [Next]_vars PROVE [Keeps]_vars
  <2>1. SUFFICES ASSUME Next, fault' = "none" PROVE Gets /\ (NrNodes' < NrNodes => Lost)
    BY <1>1
  <2>2. NrNodes \in Nat
    <3>1. PICK kb \in K0 .. MaxK : kb = k
      BY <1>1 DEF HotRingInv
    <3>2. PICK B \in Nat : B = 2^kb
      BY HalfIs
    <3>3. DOMAIN slots = 0 .. B - 1 /\ \A i \in 0 .. B - 1 : slots[i] \in Seq(StoredNode)
      BY <1>1, <3>1, <3>2 DEF HotRingInv, Buckets, BucketOK, RingOK
    <3>4. IsFiniteSet(PlacesOf(slots))
      BY <3>2, <3>3, PlacesFinite
    <3> QED
      BY <3>4, FS_CardinalityType DEF NrNodes, Places, PlacesOf
  <2>3. ASSUME \E F : Carries(F, slots, slots')
        PROVE  Gets /\ (NrNodes' < NrNodes => Lost)
    <3>1. Stored' = Stored /\ NrNodes' = NrNodes
      BY <1>1, <2>3, SameContents
    <3>2. ~ (NrNodes' < NrNodes)
      BY <2>2, <3>1
    <3> QED
      BY <3>1, <3>2
  <2>4. ASSUME NEW key \in Keys, Get(key)
        PROVE  Gets /\ (NrNodes' < NrNodes => Lost)
    BY <1>1, <2>3, <2>4, GetCarries
  <2>5. ASSUME NEW key \in Keys, GetShift(key)
        PROVE  Gets /\ (NrNodes' < NrNodes => Lost)
    <3> DEFINE i == hashIndex(k, key)
               touched == Touch(slots[i], Find(slots[i], key))
               ring == Rotate(Cooled(touched), Hottest(touched))
    <3>1. /\ i \in Buckets(k) /\ slots' = Changed(slots, i, ring)
          /\ Find(slots[i], key) > 1
      BY <2>5 DEF GetShift, InTable, Changed
    <3>2. \E F : Carries(F, slots, Changed(slots, i, ring))
      BY <1>1, <3>1, ShiftCarries
    <3> QED
      BY <2>3, <3>1, <3>2
  <2>6. ASSUME NEW key \in Keys, GetRehash(key)
        PROVE  Gets /\ (NrNodes' < NrNodes => Lost)
    BY <1>1, <2>1, <2>3, <2>6, RehashCarries
  <2>7. ASSUME NEW key \in Keys, OutOfTable(key) \/ GetWrapped(key) PROVE FALSE
    BY <2>1, <2>7 DEF OutOfTable, GetWrapped, Crash
  <2>8. ASSUME NEW key \in Keys, NEW value \in Values, Insert(key, value)
        PROVE  Gets /\ (NrNodes' < NrNodes => Lost)
    <3> DEFINE i == hashIndex(k, key)
               m == Node(key, hashTag(k, key), value)
               ring == Place(slots[i], m)
    <3>1. /\ i \in Buckets(k) /\ slots' = Changed(slots, i, ring)
          /\ UNCHANGED <<k, nr_request>>
      BY <2>8 DEF Insert, InTable, Changed
    <3>2. /\ slots[i] \in Seq(StoredNode) /\ k \in K0 .. MaxK /\ DOMAIN slots = Buckets(k)
          /\ BucketOK(k, i, slots[i])
      BY <1>1, <3>1, BucketsAre DEF HotRingInv
    <3>3. m \in StoredNode
      <4>1. key \in Nat /\ hashTag(k, key) \in 0 .. 2^NBITS - 1
        BY <3>1, <3>2, HotRingAssumption, TagIs
      <4> QED
        BY <4>1, HotRingAssumption DEF Node, StoredNode, NodeOf
    <3> HIDE DEF m, i
    <3>4. ring \in Seq(StoredNode) /\ Len(ring) = Len(slots[i]) + 1
      BY <3>2, <3>3, StoredAny, PlaceIs
    <3> HIDE DEF ring
    <3>5. /\ DOMAIN slots' = Buckets(k) /\ slots'[i] = ring
          /\ \A j \in Buckets(k) : j # i => slots'[j] = slots[j]
      BY <3>1, <3>2 DEF Changed
    <3>6. DOMAIN slots[i] \subseteq DOMAIN ring
      BY <3>2, <3>4
    <3>7. \A j \in Buckets(k) : DOMAIN slots[j] \subseteq DOMAIN slots'[j]
      BY <3>5, <3>6
    <3>8. PICK old, new : old = slots /\ new = slots'
      OBVIOUS
    <3>9. PlacesOf(old) \subseteq PlacesOf(new)
      <4> SUFFICES ASSUME NEW p \in PlacesOf(old) PROVE p \in PlacesOf(new)
        OBVIOUS
      <4>1. p = <<p[1], p[2]>> /\ p[1] \in Buckets(k) /\ p[2] \in DOMAIN old[p[1]]
        BY <3>2, <3>8, PlacesAre
      <4>2. p[1] \in DOMAIN new /\ p[2] \in DOMAIN new[p[1]]
        BY <4>1, <3>5, <3>7, <3>8
      <4> QED
        BY <4>1, <4>2, PlacesAre
    <3>10. IsFiniteSet(PlacesOf(new))
      <4>1. PICK kb \in K0 .. MaxK : kb = k'
        BY <1>1 DEF HotRingInv
      <4>2. PICK B \in Nat : B = 2^kb
        BY HalfIs
      <4>3. DOMAIN new = 0 .. B - 1
        BY <1>1, <3>8, <4>1, <4>2 DEF HotRingInv, Buckets
      <4>4. \A x \in 0 .. B - 1 : new[x] \in Seq(StoredNode)
        BY <1>1, <3>8, <4>1, <4>2 DEF HotRingInv, Buckets, BucketOK, RingOK
      <4> QED
        BY <4>2, <4>3, <4>4, PlacesFinite
    <3>11. /\ Cardinality(PlacesOf(old)) <= Cardinality(PlacesOf(new))
           /\ Cardinality(PlacesOf(new)) \in Nat
      BY <3>9, <3>10, FS_Subset, FS_CardinalityType
    <3>12. NrNodes = Cardinality(PlacesOf(old)) /\ NrNodes' = Cardinality(PlacesOf(new))
      BY <3>8 DEF NrNodes, Places, PlacesOf
    <3>13. ~ (NrNodes' < NrNodes)
      BY <3>11, <3>12, <2>2
    <3> QED
      BY <3>1, <3>13
  <2>9. ASSUME NEW key \in Keys, DeleteCold(key)
        PROVE  Gets /\ (NrNodes' < NrNodes => Lost)
    <3> DEFINE i == hashIndex(k, key)
               j == Find(slots[i], key)
               ring == RemoveAt(slots[i], j)
    <3>1. /\ i \in Buckets(k) /\ slots' = Changed(slots, i, ring) /\ j > 1
          /\ UNCHANGED <<k, nr_request>>
      BY <2>9 DEF DeleteCold, InTable, Changed
    <3>2. /\ slots[i] \in Seq(StoredNode) /\ DOMAIN slots = Buckets(k)
          /\ j \in 0 .. Len(slots[i])
      BY <1>1, <3>1, BucketsAre, TouchBucket DEF HotRingInv
    <3> HIDE DEF j, i
    <3>3. Len(ring) = Len(slots[i]) - 1
      BY <3>1, <3>2, RemoveIs
    <3> HIDE DEF ring
    <3>4. /\ i \in DOMAIN slots /\ slots'[i] = ring
          /\ \A x \in DOMAIN slots \ {i} : slots'[x] = slots[x]
      BY <3>1, <3>2 DEF Changed
    <3> QED
      BY <3>1, <3>3, <3>4
  <2>10. ASSUME NEW key \in Keys, DeleteHot(key)
         PROVE  Gets /\ (NrNodes' < NrNodes => Lost)
    <3> DEFINE i == hashIndex(k, key)
    <3>1. /\ i \in Buckets(k) /\ slots' = Changed(slots, i, <<>>)
          /\ UNCHANGED <<k, nr_request>> /\ DOMAIN slots = Buckets(k)
      BY <1>1, <2>10 DEF DeleteHot, InTable, Changed, HotRingInv
    <3> HIDE DEF i
    <3>2. /\ i \in DOMAIN slots /\ slots'[i] = <<>>
          /\ \A x \in DOMAIN slots \ {i} : slots'[x] = slots[x]
      BY <3>1 DEF Changed
    <3> QED
      BY <3>1, <3>2
  <2>11. ASSUME NEW key \in Keys, DeleteMiss(key)
         PROVE  Gets /\ (NrNodes' < NrNodes => Lost)
    <3>1. UNCHANGED <<k, slots, nr_request>>
      BY <2>11 DEF DeleteMiss
    <3>2. NrNodes' = NrNodes
      BY <3>1 DEF NrNodes, Places
    <3>3. ~ (NrNodes' < NrNodes)
      BY <3>2, <2>2
    <3> QED
      BY <3>1, <3>3
  <2> QED
    BY <2>1, <2>4, <2>5, <2>6, <2>7, <2>8, <2>9, <2>10, <2>11 DEF Next
<1> QED
  BY <1>1, HotRingInvariant, PTL DEF Spec, GetsKeepContents
=============================================================================
