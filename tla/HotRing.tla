------------------------------ MODULE HotRing ------------------------------
(***************************************************************************)
(* hotring/hotring.c: a hash table whose buckets are rings.  The top k of  *)
(* the NBITS bits of a key select the bucket, the other bits are the tag   *)
(* that orders its ring; the slot points at one node of the ring, the      *)
(* head, which hotspot_shift moves to where accesses are cheapest and      *)
(* which hotring_rehash abandons for two rings in a table twice the size.  *)
(*                                                                         *)
(* A ring is the sequence of its nodes from the head on; <<>> is a NULL    *)
(* slot.  The code is single-threaded: one call is one step.  Memory       *)
(* faults end the program and are recorded in fault.                       *)
(***************************************************************************)
EXTENDS Integers, Sequences, SequencesExt, FiniteSetsExt, Functions

CONSTANTS NBITS,             \* bits of a hash value; an int is as wide
          K0,                \* hash_alloc's kbits
          MaxK,              \* bound: rehashing stops at 2^MaxK buckets
          MaxNodes,          \* bound: nodes in the table
          Keys, Values,      \* what the client inserts
          NULL,              \* the value of a milestone
          INCOME_THRESHOLD,  \* 5 in the source
          REQUESTS,          \* requests between two shifts, 5 in the source
          HEAD_COUNTER,      \* 2^15: width of head.counter
          NODE_COUNTER       \* 2^14: width of list_head.counter

\* k >= 2 keeps 1 << (n - k) a positive int; the source starts at 3 and 8.
ASSUME HotRingAssumption ==
  /\ NBITS \in Nat /\ K0 \in Nat /\ MaxK \in Nat
  /\ 2 <= K0 /\ K0 <= MaxK /\ MaxK < NBITS
  /\ Keys \subseteq Nat
  /\ MaxNodes \in Nat /\ INCOME_THRESHOLD \in Nat
  /\ REQUESTS \in Nat \ {0}
  /\ HEAD_COUNTER \in Nat \ {0, 1} /\ NODE_COUNTER \in Nat \ {0, 1}

\* What ^ means on the shift counts in use, which the provers do not know.
ASSUME PowerAssumption ==
  /\ 2^0 = 1
  /\ \A b \in 0 .. NBITS - 1 : 2^b \in Nat /\ 2^(b + 1) = 2 * 2^b

VARIABLES k,           \* h->k
          slots,       \* bucket index -> ring
          heads,       \* bucket index -> head_pointer->counter
          nr_request,  \* requests since the last shift, up to REQUESTS
          fault        \* "none", "null" (NULL dereference), "index" (slots[]
                       \* indexed beyond the table), or "shared": two heads
                       \* in one ring, where the model ends

vars == <<k, slots, heads, nr_request, fault>>

Buckets(kbits) == 0 .. 2^kbits - 1

Init ==
  /\ k = K0
  /\ slots = [i \in Buckets(K0) |-> <<>>]
  /\ heads = [i \in Buckets(K0) |-> 0]
  /\ nr_request = 0
  /\ fault = "none"

\* The process dies, and its memory goes with it.
Crash(reason) ==
  /\ k' = K0
  /\ slots' = [i \in Buckets(K0) |-> <<>>]
  /\ heads' = [i \in Buckets(K0) |-> 0]
  /\ nr_request' = 0
  /\ fault' = reason
----------------------------------------------------------------------------
(* Operators on rings.                                                     *)

\* hashCode divides the key itself, not hash_value, by the bucket width.
hashIndex(kbits, key) == key \div 2^(NBITS - kbits)
hashTag(kbits, key) == (key % 2^NBITS) % 2^(NBITS - kbits)

\* hash_node as hash_insert leaves it: list.counter is 1.
Node(key, tag, value) ==
  [key |-> key, tag |-> tag, value |-> value, counter |-> 1]

Rotate(ring, t) == SubSeq(ring, t, Len(ring)) \o SubSeq(ring, 1, t - 1)

\* Mutant of Fits: the end of the ring is not recognised.
Fits_NoWrap(prev, next, tag) == prev < tag /\ tag <= next

\* __hash_create: tag goes between these two neighbours.
Fits(prev, next, tag) ==
  \/ prev > next /\ (tag <= next \/ prev < tag)
  \/ prev < tag /\ tag <= next

\* __hash_create: the node after which a new one is linked, the last node
\* before the head if no pair of neighbours fits.
Position(ring, tag) ==
  Min({Len(ring)} \cup
      {i \in 1 .. Len(ring) - 1 : Fits(ring[i].tag, ring[i + 1].tag, tag)})

\* __hash_create: a new node never becomes the head of a ring that has one.
Place(ring, node) ==
  IF ring = <<>> THEN <<node>>
  ELSE InsertAt(ring, Position(ring, node.tag) + 1, node)

\* Mutant of Passed: a search that crosses the end of the ring gives up.
Passed_AtTheEnd(prev, next, key) ==
  \/ prev < key /\ next > key
  \/ next < prev

\* __hash_get: the scan has gone past the place where key would be.
Passed(prev, next, key) ==
  \/ prev < key /\ next > key
  \/ key < next /\ next < prev
  \/ next < prev /\ prev < key

\* __hash_get: where the node with this key is in the ring, 0 if not found.
Find(ring, key) ==
  IF ring = <<>> THEN 0
  ELSE IF ring[1].key = key THEN 1
  ELSE LET ends == {j \in 2 .. Len(ring) :
                      \/ ring[j].key = key
                      \/ Passed(ring[j - 1].key, ring[j].key, key)}
       IN  IF ends = {} THEN 0
           ELSE IF ring[Min(ends)].key = key THEN Min(ends) ELSE 0

\* __hash_get counts the access in the node it returns.
Touch(ring, j) ==
  IF j = 0 THEN ring
  ELSE [ring EXCEPT ![j].counter = (@ + 1) % NODE_COUNTER]

\* __hash_get counts the access in the head of every bucket in use.
Counted(i) == IF slots[i] = <<>> THEN heads
              ELSE [heads EXCEPT ![i] = (@ + 1) % HEAD_COUNTER]

\* Mutant of DropHead: the milestone of a longer ring stays.
DropHead_OnlyNode(ring) == IF Len(ring) = 1 THEN <<>> ELSE ring

\* hotring_delete_head: the next node becomes the head; the only node of a
\* ring leaves a NULL slot.
DropHead(ring) == Tail(ring)

\* do_hotspot_shift: the income of node t, times total_counter.
Income(ring, t) ==
  LET Abs(n) == IF n < 0 THEN -n ELSE n
  IN  SumFunction([i \in DOMAIN ring |-> ring[i].counter * Abs(i - t)])

\* do_hotspot_shift: the first node of the least income.
Hottest(ring) ==
  Min({t \in DOMAIN ring :
         \A s \in DOMAIN ring : Income(ring, t) <= Income(ring, s)})

\* do_hotspot_shift resets the counter of every node of the ring.
Cooled(ring) == [i \in DOMAIN ring |-> [ring[i] EXCEPT !.counter = 0]]
----------------------------------------------------------------------------
\* Where hotring_rehash cuts a ring of tags of this many bits.
HalfTag(bits) == 2^(bits - 1)

(***************************************************************************)
(* hotring_rehash of one bucket i of the old table.  hotring_rehash_init   *)
(* links a milestone of tag T/2 and then one of tag 0 into the ring and    *)
(* makes them the heads of buckets 2i+1 and 2i of the new table.  The      *)
(* split looks both milestones up by key, and closes the two halves of the *)
(* ring; the look-up yields no previous node if it stops at the head or    *)
(* finds nothing, and the assignment through it faults.  Last,             *)
(* hotring_delete_head drops the milestones.                               *)
(***************************************************************************)
Split(i, ring) ==
  LET bits  == NBITS - k
      half  == HalfTag(bits)
      base  == i * 2^bits
      atT   == Position(ring, half) + 1
      with1 == Place(ring, Node(base + half, half, NULL))
      at0   == Position(with1, 0) + 1
      with2 == Place(with1, Node(base, 0, NULL))
      pos0  == Find(with2, base)
      posT  == Find(with2, base + half)
      size  == Len(with2)
      \* the cut ring, first the part from the node found for tag 0 on
      cut   == Rotate(Touch(Touch(with2, pos0), posT), pos0)
      Moved(p) == ((p + size - pos0) % size) + 1
      Close(part) == [part EXCEPT ![Len(part)].counter = 0]
      parts == << Close(SubSeq(cut, 1, Moved(posT) - 1)),
                  Close(SubSeq(cut, Moved(posT), size)) >>
      \* where the milestones ended up
      mile0 == Moved(at0)
      mileT == Moved(IF atT >= at0 THEN atT + 1 ELSE atT)
      first == Len(parts[1])
      From(p) == DropHead(IF p <= first THEN Rotate(parts[1], p)
                                        ELSE Rotate(parts[2], p - first))
  IN  IF base >= 2^(NBITS - 1) THEN [fault |-> "index"]
      ELSE IF pos0 <= 1 \/ posT <= 1 THEN [fault |-> "null"]
      ELSE IF (mile0 <= first) = (mileT <= first) THEN [fault |-> "shared"]
      ELSE [fault |-> "none", even |-> From(mile0), odd |-> From(mileT)]

\* hotring_rehash of the table whose buckets are old; h becomes the new one.
Rehash(old) ==
  LET used == {i \in DOMAIN old : old[i] # <<>>}
      split == [i \in used |-> Split(i, old[i])]
      bad == {i \in used : split[i].fault # "none"}
  IN  \/ /\ bad # {}
         /\ Crash(split[Min(bad)].fault)
      \/ /\ bad = {}
         /\ k' = k + 1
         /\ slots' = [j \in Buckets(k + 1) |->
                        IF j \div 2 \notin used THEN <<>>
                        ELSE IF j % 2 = 0 THEN split[j \div 2].even
                        ELSE split[j \div 2].odd]
         /\ heads' = [j \in Buckets(k + 1) |-> 0]
         /\ nr_request' = 0
         /\ UNCHANGED fault
----------------------------------------------------------------------------
(* The operations.                                                         *)

InTable(key) == hashIndex(k, key) \in Buckets(k)

Places == UNION {{i} \X DOMAIN slots[i] : i \in DOMAIN slots}

NrNodes == Cardinality(Places)

\* Any call with a key whose index lies beyond slots[].
OutOfTable(key) ==
  /\ fault = "none"
  /\ ~InTable(key)
  /\ Crash("index")

\* hash_insert: a key that is already there is added once more.
Insert(key, value) ==
  LET i == hashIndex(k, key)
  IN  /\ fault = "none"
      /\ InTable(key)
      /\ NrNodes < MaxNodes
      /\ slots' = [slots EXCEPT ![i] =
                     Place(@, Node(key, hashTag(k, key), value))]
      /\ UNCHANGED <<k, heads, nr_request, fault>>

Requests == IF nr_request < REQUESTS THEN nr_request + 1 ELSE REQUESTS

\* hash_get that needs no shift: not found, a hot access, or a cold access
\* too soon after the last shift.
Get(key) ==
  LET i == hashIndex(k, key)
      j == Find(slots[i], key)
  IN  /\ fault = "none"
      /\ InTable(key)
      /\ j \in {0, 1} \/ Requests < REQUESTS
      /\ slots' = [slots EXCEPT ![i] = Touch(@, j)]
      /\ heads' = Counted(i)
      /\ nr_request' = Requests
      /\ UNCHANGED <<k, fault>>

\* hash_get, cold access, hotspot_shift: the head moves or stays.
GetShift(key) ==
  LET i == hashIndex(k, key)
      j == Find(slots[i], key)
      ring == Touch(slots[i], j)
      total == Counted(i)[i]
      t == Hottest(ring)
  IN  /\ fault = "none"
      /\ InTable(key)
      /\ j > 1 /\ Requests = REQUESTS
      /\ total > 0
      /\ t = 1 \/ Income(ring, t) <= INCOME_THRESHOLD * total
      /\ slots' = [slots EXCEPT ![i] = Rotate(Cooled(ring), t)]
      /\ heads' = [heads EXCEPT ![i] = 0]
      /\ nr_request' = 0
      /\ UNCHANGED <<k, fault>>

\* hash_get, cold access, hotspot_shift: even from the hottest node accesses
\* stay expensive, the table is rehashed.
GetRehash(key) ==
  LET i == hashIndex(k, key)
      j == Find(slots[i], key)
      ring == Touch(slots[i], j)
      total == Counted(i)[i]
      t == Hottest(ring)
  IN  /\ fault = "none"
      /\ InTable(key)
      /\ j > 1 /\ Requests = REQUESTS
      /\ total > 0
      /\ t # 1 /\ Income(ring, t) > INCOME_THRESHOLD * total
      /\ k < MaxK
      /\ Rehash([slots EXCEPT ![i] = Rotate(Cooled(ring), t)])

\* hash_get, cold access, head counter wrapped to 0: every income is NaN, no
\* hottest node is found and the head becomes NULL; the rehash that follows
\* dereferences it.
GetWrapped(key) ==
  LET i == hashIndex(k, key)
  IN  /\ fault = "none"
      /\ InTable(key)
      /\ Find(slots[i], key) > 1 /\ Requests = REQUESTS
      /\ Counted(i)[i] = 0
      /\ Crash("null")

\* hotring_delete of a key in the ring that is not the head.
DeleteCold(key) ==
  LET i == hashIndex(k, key)
      j == Find(slots[i], key)
  IN  /\ fault = "none"
      /\ InTable(key)
      /\ j > 1
      /\ slots' = [slots EXCEPT ![i] = RemoveAt(@, j)]
      /\ heads' = Counted(i)
      /\ UNCHANGED <<k, nr_request, fault>>

\* hotring_delete of the head: the head pointer goes, and with it the ring.
DeleteHot(key) ==
  LET i == hashIndex(k, key)
  IN  /\ fault = "none"
      /\ InTable(key)
      /\ Find(slots[i], key) = 1
      /\ slots' = [slots EXCEPT ![i] = <<>>]
      /\ heads' = [heads EXCEPT ![i] = 0]
      /\ UNCHANGED <<k, nr_request, fault>>

\* hotring_delete of a key that is not found only counts the access.
DeleteMiss(key) ==
  LET i == hashIndex(k, key)
  IN  /\ fault = "none"
      /\ InTable(key)
      /\ Find(slots[i], key) = 0
      /\ heads' = Counted(i)
      /\ UNCHANGED <<k, slots, nr_request, fault>>

Next ==
  \E key \in Keys :
    \/ OutOfTable(key)
    \/ \E value \in Values : Insert(key, value)
    \/ Get(key)
    \/ GetShift(key)
    \/ GetRehash(key)
    \/ GetWrapped(key)
    \/ DeleteCold(key)
    \/ DeleteHot(key)
    \/ DeleteMiss(key)

Spec == Init /\ [][Next]_vars
----------------------------------------------------------------------------
Nodes(i) == Range(slots[i])

\* Types of the table, its rings and its counters.  It takes a second
\* hotring_rehash, of rings with the tags of two table sizes, to leave two
\* heads in one ring.
TypeOK ==
  /\ k \in K0 .. MaxK
  /\ DOMAIN slots = Buckets(k)
  /\ \A i \in Buckets(k) : \A n \in Nodes(i) :
       n \in [key : Keys, tag : 0 .. 2^NBITS - 1, value : Values,
              counter : 0 .. NODE_COUNTER - 1]
  /\ heads \in [Buckets(k) -> 0 .. HEAD_COUNTER - 1]
  /\ nr_request \in 0 .. REQUESTS
  /\ fault \in {"none", "null", "index", "shared"}
  /\ fault = "shared" => MaxK > K0 + 1

\* The comment in __hash_create: a smaller next node "indicates the end of
\* the ring".  Once around a ring tags descend at most once, wherever the
\* head is and however often the ring was cut by hotring_rehash.
RingsSorted ==
  \A i \in DOMAIN slots :
    LET ring == slots[i]
        After(j) == IF j = Len(ring) THEN 1 ELSE j + 1
    IN  \A j, l \in DOMAIN ring :
          ring[j].tag > ring[After(j)].tag /\ ring[l].tag > ring[After(l)].tag
            => j = l

\* While the tags of a ring were computed from its keys at one table size,
\* __hash_get finds every key the ring holds, although it is ordered by tag,
\* searched by key, and entered at a head that moves.
UniformRingsComplete ==
  \A i \in DOMAIN slots :
    (\A n, o \in Nodes(i) : n.key - n.tag = o.key - o.tag)
      => \A n \in Nodes(i) : Find(slots[i], n.key) # 0

\* Up to and including the first hotring_rehash every node is in the bucket
\* hashCode names for its key.
InOwnBucket ==
  k <= K0 + 1 =>
    \A i \in DOMAIN slots : \A n \in Nodes(i) : hashIndex(k, n.key) = i

\* What a search relies on: whatever was inserted, deleted, shifted and
\* rehashed, every ring is sorted around its wrap, holds keys of its own
\* bucket, and keeps its counters within their bit fields.
RingsWellFormed == TypeOK /\ RingsSorted /\ InOwnBucket

\* How often each pair is stored.
Stored ==
  [pair \in Keys \X Values |->
     Cardinality({p \in Places : /\ slots[p[1]][p[2]].key = pair[1]
                                 /\ slots[p[1]][p[2]].value = pair[2]})]

\* hash_get never changes what is stored: hotspot_shift and hotring_rehash
\* lose and duplicate nothing and leave no milestone behind.  A call that
\* loses nodes is a delete: it takes one node out of one ring, or all of the
\* ring whose head it deletes.
GetsKeepContents ==
  [][ fault' = "none" =>
        /\ k' # k \/ nr_request' # nr_request
             => Stored' = Stored /\ NrNodes' = NrNodes
        /\ NrNodes' < NrNodes
             => \E i \in DOMAIN slots :
                  /\ \A j \in DOMAIN slots \ {i} : slots'[j] = slots[j]
                  /\ slots'[i] = <<>> \/ Len(slots'[i]) = Len(slots[i]) - 1 ]_vars

\* In a table that was never rehashed, a get dereferences NULL only if a head
\* counter is about to wrap or some stored key is the key of a milestone.
NullOnlyAtMilestoneOrWrap ==
  [][ k = K0 /\ fault = "none" /\ fault' = "null"
        => \/ \E i \in DOMAIN heads : heads[i] = HEAD_COUNTER - 1
           \/ \E i \in DOMAIN slots : \E n \in Nodes(i) :
                n.key % 2^(NBITS - K0 - 1) = 0 ]_vars

(***************************************************************************)
(* What comments in the source say and the code does not do.               *)
(***************************************************************************)

\* __hash_get: "@nodep : node having target key ... @return : 0 on fail, 1 on
\* success", so a stored key is returned.  hotring_rehash keeps the old tags.
EveryKeyFound ==
  \A i \in DOMAIN slots : \A n \in Nodes(i) :
    Find(slots[hashIndex(k, n.key)], n.key) # 0
=============================================================================
