---------------------------- MODULE ChainingHash ----------------------------
(***************************************************************************)
(* chaining_hash/hash.c: a table of buckets, each a struct head that       *)
(* points at the first of a ring of hash_nodes linked with list.h.  The    *)
(* first node is the ring's anchor and an entry too.  Keys are unsigned    *)
(* longs that hashCode narrows to an int; there is no comparison of keys   *)
(* and no removal.  benchmark.c inserts keys and then looks them up, with  *)
(* item_insert and item_check_present of test.c.                           *)
(***************************************************************************)
EXTENDS ListHead

CONSTANTS Size,      \* h->size
          Keys,      \* keys the client inserts and looks up
          INT,       \* 2^32 in the source: values of an int
          ULONG,     \* 2^64 in the source
          MaxNodes   \* bound: hash_nodes there is memory for

VARIABLES slots,     \* bucket -> whether it has a struct head
          first,     \* bucket -> head->node
          mem,       \* next and prev of every hash_node's list
          item,      \* hash_node -> key of its item
          used,      \* hash_nodes allocated so far
          crashed,   \* a NULL pointer was followed or an assertion failed
          inserted   \* history: the keys inserted, in order

vars == <<slots, first, mem, item, used, crashed, inserted>>

Buckets == 0 .. Size - 1

\* hash_alloc.
Init ==
  /\ slots = [b \in Buckets |-> FALSE]
  /\ first = [b \in Buckets |-> NIL]
  /\ mem = [next |-> [n \in 1 .. MaxNodes |-> NIL],
            prev |-> [n \in 1 .. MaxNodes |-> NIL]]
  /\ item = [n \in 1 .. MaxNodes |-> NIL]
  /\ used = 0
  /\ crashed = FALSE
  /\ inserted = <<>>

\* The key as an int, widened to the unsigned long of h->size.
hashCode(key) ==
  LET int == key % INT
      signed == IF int >= INT \div 2 THEN int - INT ELSE int
  IN  (signed % ULONG) % Size

\* calloc fails for the head or the node, whose pointer is followed at once.
NoMemory(b) ==
  /\ crashed' = TRUE
  /\ slots' \in {slots, [slots EXCEPT ![b] = TRUE]}
  /\ UNCHANGED <<first, mem, item, used, inserted>>

\* __hash_create: a node at the end of the bucket's ring, or a new ring.
Linked(b, n) ==
  IF slots[b] THEN list_add_tail(mem, n, first[b]) ELSE INIT_LIST_HEAD(mem, n)

\* hash_insert, for item_insert: every call makes a node, whether or not the
\* key is there already, so insert_entries always finds it empty.
Insert(key) ==
  LET b == hashCode(key)
      n == used + 1
  IN  /\ ~crashed
      /\ \/ /\ used < MaxNodes
            /\ used' = n
            /\ mem' = Linked(b, n)
            /\ slots' = [slots EXCEPT ![b] = TRUE]
            /\ first' = [first EXCEPT ![b] = IF slots[b] THEN @ ELSE n]
            /\ item' = [item EXCEPT ![n] = key]
            /\ inserted' = Append(inserted, key)
            /\ UNCHANGED crashed
         \/ NoMemory(b)

\* hash_lookup takes the struct head for a hash_node and returns the address
\* of its first word, without a look at the key.
hash_lookup(key) == IF slots[hashCode(key)] THEN "head" ELSE NIL

\* item_check_present, which benchmark_search calls for the keys that
\* benchmark_insert inserted.
CheckPresent(key) ==
  /\ ~crashed
  /\ \E i \in DOMAIN inserted : inserted[i] = key
  /\ crashed' = (hash_lookup(key) = NIL)
  /\ UNCHANGED <<slots, first, mem, item, used, inserted>>

Next == \E key \in Keys : Insert(key) \/ CheckPresent(key)

Spec == Init /\ [][Next]_vars
----------------------------------------------------------------------------
\* display: the items of bucket b, the first node's and then those
\* list_for_each visits.
display(b) ==
  IF ~slots[b] THEN <<>>
  ELSE LET ring == <<first[b]>> \o Walk(mem.next, first[b], MaxNodes)
       IN  [i \in DOMAIN ring |-> item[ring[i]]]

\* The keys of bucket b among those inserted, in their order.
InBucket(b) ==
  LET keys[i \in 0 .. Len(inserted)] ==
        IF i = 0 THEN <<>>
        ELSE IF hashCode(inserted[i]) = b THEN Append(keys[i - 1], inserted[i])
        ELSE keys[i - 1]
  IN  keys[Len(inserted)]

\* display shows every key ever inserted, each in the bucket its hash names
\* and the keys of a bucket in the order of their insertion: no insert loses
\* or reorders what is in the ring already.
DisplayShowsAll ==
  ~crashed =>
    \A b \in Buckets : display(b) = InBucket(b)
=============================================================================
