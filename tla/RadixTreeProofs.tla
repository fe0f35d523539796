-------------------------- MODULE RadixTreeProofs --------------------------
(***************************************************************************)
(* Proofs about RadixTree, for nodes of any size, trees of any height, any *)
(* indices, any items and any number of readers: the tree stays well       *)
(* formed, nobody loads from freed memory, and a lookup returns what its   *)
(* index had during the lookup.                                            *)
(*                                                                         *)
(* A node's name <<shift, prefix, copy>> says which indices belong under   *)
(* it.  The inductive invariant says that the tree is built accordingly,   *)
(* that what hangs in it is the map, that a node waiting for its grace     *)
(* period still leads its readers to nodes they may be in, and where the   *)
(* writer is.                                                              *)
(***************************************************************************)
EXTENDS RadixTree, FiniteSetTheorems, WellFoundedInduction, TLAPS

----------------------------------------------------------------------------
(* The inductive invariant.                                                *)

\* Index i belongs in the part of the tree below node n.
Under(n, i) == n[2] = i \div MAP_SIZE^(n[1] + 1)

\* What node n holds for index i.
Entry(n, i) == node[n].slots[Offset(i, n[1])]

\* Node e is named for slot s of node n.
Hangs(e, n, s) == e[1] + 1 = n[1] /\ e[2] = n[2] * MAP_SIZE + s

NodeRecs ==
  [shift : 0 .. TopShift, offset : Slots, count : 0 .. UINT - 1,
   parent : NodeIds \cup {NULL}, slots : [Slots -> Entries]]

WriterRecs ==
  [pc : {"idle", "extend", "create", "delete_find", "delete", "replace_find",
         "replace", "unlink", "shrink"},
   index : 0 .. ULONG - 1, item : Items \cup {NULL}, node : Entries,
   child : Entries, shift : 0 .. TopShift + 1, top : 0 .. TopShift]

ReaderRecs ==
  [pc : {"idle", "descend", "done", "iterate"},
   index : (0 .. ULONG - 1) \cup {NULL}, node : Entries, child : Entries,
   seen : SUBSET (Items \cup {NULL})]

Types ==
  /\ rnode \in Entries /\ node \in [NodeIds -> NodeRecs]
  /\ live \subseteq NodeIds /\ retired \subseteq NodeIds \ live
  /\ grace \in [retired -> SUBSET Readers]
  /\ wr \in WriterRecs /\ rd \in [Readers -> ReaderRecs]
  /\ smashed \in BOOLEAN /\ failed \in BOOLEAN
  /\ map \in [Keys -> Items \cup {NULL}]

\* The part of Types that call_rcu() changes.
HeapTypes ==
  /\ node \in [NodeIds -> NodeRecs] /\ live \subseteq NodeIds
  /\ retired \subseteq NodeIds \ live /\ grace \in [retired -> SUBSET Readers]

\* What a slot of an allocated node holds: an item in a leaf, and above the
\* leaves the node of that place, which knows where it hangs.
SlotOK(n, s) ==
  LET e == node[n].slots[s] IN
  \/ e = NULL
  \/ n[1] = 0 /\ e \in Items
  \/ /\ n[1] > 0 /\ e \in live /\ Hangs(e, n, s)
     /\ node[e].parent = n /\ node[e].offset = s

SlotsOK == \A n \in live : \A s \in Slots : SlotOK(n, s)

\* The root is the highest node and has no parent.
RootOK ==
  IF rnode \in NodeIds
  THEN /\ rnode \in live /\ rnode[2] = 0
       /\ node[rnode].parent = NULL /\ node[rnode].offset = 0
       /\ \A n \in live : n[1] <= rnode[1]
  ELSE live = {}

Shaped == \A n \in live \cup retired : node[n].shift = n[1]

\* There is one allocated node for each place.
Unique == \A m, n \in live : m[1] = n[1] /\ m[2] = n[2] => m = n

TreeInv == SlotsOK /\ RootOK /\ Shaped /\ Unique /\ Linked /\ CountExact

\* The leaves hold the map; where the tree ends the map has nothing.
LeafExact ==
  \A n \in live : \A i \in Keys :
    n[1] = 0 /\ Under(n, i) => Entry(n, i) = map[i]

Absent ==
  \A n \in live : \A i \in Keys :
    Under(n, i) /\ Entry(n, i) = NULL => map[i] = NULL

RootExact ==
  IF rnode \in NodeIds
  THEN \A i \in Keys : ~Under(rnode, i) => map[i] = NULL
  ELSE \A i \in Keys : map[i] = IF i = 0 THEN rnode ELSE NULL

MapInv == LeafExact /\ Absent /\ RootExact

\* A slot of an unlinked node is empty or leads to a node that is allocated
\* or waits for at least the same readers.
KeptSlot(n, s) ==
  LET e == node[n].slots[s] IN
  \/ e = NULL
  \/ /\ n[1] > 0 /\ e \in live \cup retired /\ Hangs(e, n, s)
     /\ e \in retired => grace[n] \subseteq grace[e]

RetiredOK == \A n \in retired : \A s \in Slots : KeptSlot(n, s)

GraceInv == RetiredOK /\ HeldByReadersOnly

\* A reader an unlinked node waits for, whose index is missing there, has
\* seen it missing.
MissedOK ==
  \A n \in retired : \A r \in grace[n] :
    rd[r].pc # "iterate" /\ Under(n, rd[r].index) /\ Entry(n, rd[r].index) = NULL
      => NULL \in rd[r].seen

SeenOK ==
  \A r \in Readers :
    rd[r].pc \notin {"idle", "iterate"} =>
      rd[r].index \in Keys /\ map[rd[r].index] \in rd[r].seen

\* Reader r may be in node n.
Held(r, n) == n \in live \/ (n \in retired /\ r \in grace[n])

DescendOK ==
  \A r \in Readers :
    rd[r].pc = "descend" =>
      /\ Held(r, rd[r].child) /\ Under(rd[r].child, rd[r].index)
      /\ rd[r].node # NULL => /\ Held(r, rd[r].node)
                              /\ rd[r].node[1] = rd[r].child[1] + 1

ReaderInv == MissedOK /\ SeenOK /\ DescendOK /\ LookupLinearizable

\* Where the writer is in each of its loops.
WrExtend ==
  wr.pc = "extend" =>
    /\ wr.node = NULL /\ wr.index \in Keys /\ wr.item \in Items
    /\ rnode # NULL /\ wr.child \in live \cup Items
    /\ wr.shift = RootShift /\ wr.shift <= wr.top
    /\ wr.index \div MAP_SIZE^(wr.top + 1) = 0
    /\ wr.index \div MAP_SIZE^wr.top # 0

WrCreate ==
  wr.pc = "create" =>
    /\ wr.index \in Keys /\ wr.item \in Items
    /\ IF wr.node = NULL
       THEN /\ wr.child = rnode
            /\ wr.index \div MAP_SIZE^wr.shift = 0
            /\ IsNode(rnode) => wr.shift = rnode[1] + 1
            /\ rnode \in Items => wr.shift = 0
            /\ rnode = NULL /\ wr.shift > 1
                 => wr.index \div MAP_SIZE^(wr.shift - 1) # 0
       ELSE /\ wr.node \in live /\ wr.node[1] = wr.shift
            /\ Under(wr.node, wr.index)
            /\ wr.child = Entry(wr.node, wr.index)

WrFind ==
  wr.pc \in {"delete_find", "replace_find"} =>
    /\ wr.index \in Keys /\ wr.child \in live /\ Under(wr.child, wr.index)
    /\ wr.node # NULL => wr.node \in live

WrFound ==
  wr.pc \in {"delete", "replace"} =>
    /\ wr.index \in Keys
    /\ IF wr.node = NULL
       THEN rnode \notin NodeIds /\ wr.child = rnode /\ wr.index = 0
       ELSE /\ wr.node \in live /\ Under(wr.node, wr.index)
            /\ wr.child = Entry(wr.node, wr.index)
            /\ wr.node[1] = 0 \/ wr.child = NULL

WrPurpose ==
  /\ wr.pc \in {"delete_find", "delete"} => map[wr.index] # NULL
  /\ wr.pc \in {"replace_find", "replace"} => wr.item \in Items

WrUnlink ==
  /\ wr.pc = "unlink" => wr.node \in live /\ wr.child = NULL
  /\ wr.pc = "shrink" => wr.node = NULL /\ wr.child = NULL

WriterInv == WrExtend /\ WrCreate /\ WrFind /\ WrFound /\ WrPurpose /\ WrUnlink

\* Above the leaves only the node the writer works on is empty.
NonEmpty ==
  ~failed =>
    \A n \in live :
      n[1] > 0 /\ (wr.pc \in {"create", "unlink"} => n # wr.node)
        => node[n].count # 0

\* A root with at most a leftmost child is about to get another one, or is
\* about to be looked at by radix_tree_shrink.
Single == \A s \in Slots \ {0} : node[rnode].slots[s] = NULL

Height ==
  ~failed /\ rnode \in NodeIds /\ rnode[1] > 0 /\ Single =>
    \/ wr.pc \in {"extend", "shrink"}
    \/ wr.pc = "unlink" /\ wr.node = rnode
    \/ /\ wr.pc = "create" /\ Offset(wr.index, rnode[1]) # 0
       /\ wr.node \in {NULL, rnode}

HeightInv == NonEmpty /\ Height

RadixInv ==
  Types /\ TreeInv /\ MapInv /\ GraceInv /\ ReaderInv /\ WriterInv /\ HeightInv

----------------------------------------------------------------------------
(* Indices, places and slots.                                              *)

\* The powers of RADIX_TREE_MAP_SIZE a tree meets.
LEMMA Powers ==
  ASSUME NEW s \in 0 .. TopShift + 1
  PROVE  MAP_SIZE^s \in Nat \ {0}
<1>1. CASE s = TopShift + 1
  <2>1. TopShift \in 0 .. TopShift
    BY RadixTreeAssumption
  <2>2. MAP_SIZE^(TopShift + 1) = MAP_SIZE * MAP_SIZE^TopShift
          /\ MAP_SIZE^TopShift \in Nat /\ 0 < MAP_SIZE^TopShift
    BY <2>1, PowerAssumption
  <2> DEFINE k == MAP_SIZE^TopShift
  <2>3. \A j \in Nat : 0 < j => MAP_SIZE * j \in Nat \ {0}
    BY RadixTreeAssumption
  <2>4. MAP_SIZE * k \in Nat \ {0}
    BY <2>2, <2>3
  <2> QED
    BY <1>1, <2>2, <2>4
<1>2. CASE s \in 0 .. TopShift
  BY <1>2, PowerAssumption
<1> QED
  BY <1>1, <1>2, RadixTreeAssumption

\* Quotient and remainder.
LEMMA DivMod ==
  ASSUME NEW j \in Nat, NEW m \in Nat \ {0}
  PROVE  j = m * (j \div m) + (j % m) /\ j \div m \in Nat /\ j % m \in 0 .. m - 1
OBVIOUS

\* Division by a product, and what the remainder adds.
LEMMA DivProduct ==
  ASSUME NEW i \in Nat, NEW m \in Nat \ {0}, NEW k \in Nat \ {0}
  PROVE  /\ i \div (m * k) = (i \div k) \div m
         /\ (i \div k) % m \in 0 .. m - 1
         /\ i \div k = ((i \div k) \div m) * m + ((i \div k) % m)
         /\ i \div k \in Nat /\ i \div (m * k) \in Nat
<1>1. i \div k \in Nat
  OBVIOUS
<1>2. ASSUME NEW j \in Nat
      PROVE  j = (j \div m) * m + (j % m) /\ j % m \in 0 .. m - 1
  <2>1. j = m * (j \div m) + (j % m) /\ j \div m \in Nat /\ j % m \in 0 .. m - 1
    BY DivMod
  <2>2. \A a \in Nat : m * a = a * m
    OBVIOUS
  <2> QED
    BY <2>1, <2>2
<1>3. i \div (m * k) = (i \div k) \div m
  OBVIOUS
<1>4. (i \div k) \div m \in Nat
  BY <1>1
<1> QED
  BY <1>1, <1>2, <1>3, <1>4

\* radix_tree_descend() finds a slot, and the slot says how the prefix of an
\* index continues one level down.
LEMMA OffsetStep ==
  ASSUME NEW i \in Nat, NEW s \in 0 .. TopShift
  PROVE  /\ Offset(i, s) \in Slots
         /\ i \div MAP_SIZE^s \in Nat /\ i \div MAP_SIZE^(s + 1) \in Nat
         /\ i \div MAP_SIZE^s = (i \div MAP_SIZE^(s + 1)) * MAP_SIZE + Offset(i, s)
<1>1. MAP_SIZE^s \in Nat \ {0} /\ MAP_SIZE \in Nat \ {0}
  BY Powers, RadixTreeAssumption
<1>2. MAP_SIZE^(s + 1) = MAP_SIZE * MAP_SIZE^s
  BY PowerAssumption
<1> DEFINE k == MAP_SIZE^s
<1> HIDE DEF k
<1>k. k \in Nat \ {0}
  BY <1>1 DEF k
<1>3. /\ i \div (MAP_SIZE * k) = (i \div k) \div MAP_SIZE
      /\ (i \div k) % MAP_SIZE \in 0 .. MAP_SIZE - 1
      /\ i \div k = ((i \div k) \div MAP_SIZE) * MAP_SIZE + ((i \div k) % MAP_SIZE)
      /\ i \div k \in Nat /\ i \div (MAP_SIZE * k) \in Nat
  BY <1>1, <1>k, DivProduct
<1>4. Offset(i, s) = (i \div k) % MAP_SIZE
  BY DEF Offset, k
<1>5. i \div MAP_SIZE^s = i \div k /\ i \div MAP_SIZE^(s + 1) = i \div (MAP_SIZE * k)
  BY <1>2 DEF k
<1> QED
  BY <1>3, <1>4, <1>5 DEF Slots

\* A node's name.
LEMMA NodeNames ==
  ASSUME NEW n \in NodeIds
  PROVE  n[1] \in 0 .. TopShift /\ n[2] \in Nat
<1>1. PICK s \in 0 .. TopShift :
        n \in {s} \X (0 .. (ULONG - 1) \div MAP_SIZE^(s + 1)) \X (1 .. Copies)
  BY DEF NodeIds
<1> QED
  BY <1>1

\* Two numbers with the same quotient and remainder.
LEMMA SameQuotient ==
  ASSUME NEW a \in Nat, NEW b \in Nat, NEW s \in Slots, NEW t \in Slots,
         a * MAP_SIZE + s = b * MAP_SIZE + t
  PROVE  a = b /\ s = t
<1>1. \A m \in Nat \ {0} : \A x, y \in Nat : \A u, v \in 0 .. m - 1 :
         x * m + u = y * m + v => x = y
  <2> SUFFICES ASSUME NEW m \in Nat \ {0}, NEW x \in Nat, NEW y \in Nat,
                      NEW u \in 0 .. m - 1, NEW v \in 0 .. m - 1,
                      x * m + u = y * m + v
               PROVE  x = y
    OBVIOUS
  <2>1. (x * m + u) \div m = x
    OBVIOUS
  <2>2. (y * m + v) \div m = y
    OBVIOUS
  <2> QED
    BY <2>1, <2>2
<1>2. a = b
  BY <1>1, RadixTreeAssumption DEF Slots
<1> QED
  BY <1>2, RadixTreeAssumption DEF Slots

\* An index below a node is below the node its slot is named for, and the
\* other way round.
LEMMA UnderChild ==
  ASSUME NEW n \in NodeIds, NEW e \in NodeIds, NEW i \in Nat,
         Under(n, i), Hangs(e, n, Offset(i, n[1]))
  PROVE  Under(e, i)
<1>1. n[1] \in 0 .. TopShift /\ e[1] \in 0 .. TopShift /\ e[1] + 1 = n[1]
  BY NodeNames DEF Hangs
<1>2. i \div MAP_SIZE^n[1] = (i \div MAP_SIZE^(n[1] + 1)) * MAP_SIZE + Offset(i, n[1])
  BY <1>1, OffsetStep
<1>3. e[2] = n[2] * MAP_SIZE + Offset(i, n[1])
  BY DEF Hangs
<1> QED
  BY <1>1, <1>2, <1>3 DEF Under

\* An index that belongs under a node belongs under its parent, in the slot
\* the node hangs in.
LEMMA UnderParent ==
  ASSUME NEW n \in NodeIds, NEW e \in NodeIds, NEW i \in Nat, NEW s \in Slots,
         Under(e, i), Hangs(e, n, s)
  PROVE  Under(n, i) /\ Offset(i, n[1]) = s
<1>1. n[1] \in 0 .. TopShift /\ n[2] \in Nat /\ e[1] + 1 = n[1]
  BY NodeNames DEF Hangs
<1>2. /\ i \div MAP_SIZE^n[1] = (i \div MAP_SIZE^(n[1] + 1)) * MAP_SIZE + Offset(i, n[1])
      /\ Offset(i, n[1]) \in Slots /\ i \div MAP_SIZE^(n[1] + 1) \in Nat
  BY <1>1, OffsetStep
<1>3. i \div MAP_SIZE^n[1] = n[2] * MAP_SIZE + s
  BY <1>1 DEF Hangs, Under
<1>4. n[2] = i \div MAP_SIZE^(n[1] + 1) /\ s = Offset(i, n[1])
  BY <1>1, <1>2, <1>3, SameQuotient
<1> QED
  BY <1>4 DEF Under

\* A slot of a leaf belongs to one index.
LEMMA LeafIndex ==
  ASSUME NEW n \in NodeIds, n[1] = 0, NEW i \in Nat, NEW j \in Nat,
         Under(n, i), Under(n, j), Offset(i, 0) = Offset(j, 0)
  PROVE  i = j
<1>1. 0 \in 0 .. TopShift
  BY RadixTreeAssumption
<1>2. /\ i \div MAP_SIZE^0 = (i \div MAP_SIZE^(0 + 1)) * MAP_SIZE + Offset(i, 0)
      /\ j \div MAP_SIZE^0 = (j \div MAP_SIZE^(0 + 1)) * MAP_SIZE + Offset(j, 0)
  BY <1>1, OffsetStep
<1>3. i \div MAP_SIZE^0 = i /\ j \div MAP_SIZE^0 = j
  BY PowerAssumption
<1> QED
  BY <1>2, <1>3 DEF Under

\* The place of a child names its parent and its slot.
LEMMA OneParent ==
  ASSUME NEW e \in NodeIds, NEW m \in NodeIds, NEW n \in NodeIds,
         NEW s \in Slots, NEW t \in Slots, Hangs(e, m, s), Hangs(e, n, t)
  PROVE  m[1] = n[1] /\ m[2] = n[2] /\ s = t
<1>1. m[2] \in Nat /\ n[2] \in Nat
  BY NodeNames
<1>2. m[2] * MAP_SIZE + s = n[2] * MAP_SIZE + t
  BY DEF Hangs
<1> QED
  BY <1>1, <1>2, SameQuotient DEF Hangs

\* shift_maxindex() is the largest index there is room for, also where it
\* wraps.
LEMMA RoomFor ==
  ASSUME NEW s \in 0 .. TopShift, NEW i \in 0 .. ULONG - 1
  PROVE  i <= shift_maxindex(s) <=> i \div MAP_SIZE^(s + 1) = 0
<1> DEFINE k == MAP_SIZE^(s + 1)
<1>1. k \in Nat \ {0} /\ MAP_SIZE * MAP_SIZE^s = k
  BY Powers, PowerAssumption, RadixTreeAssumption
<1> HIDE DEF k
<1>2. i \div k = 0 <=> i < k
  <2>i. i \in Nat
    BY RadixTreeAssumption
  <2>1. i = k * (i \div k) + (i % k) /\ i \div k \in Nat /\ i % k \in 0 .. k - 1
    BY <1>1, <2>i, DivMod
  <2>2. \A q \in Nat : q # 0 => k * q >= k
    BY <1>1
  <2>3. k * 0 = 0
    BY <1>1
  <2> QED
    BY <1>1, <2>i, <2>1, <2>2, <2>3
<1>3. CASE s < TopShift
  <2>1. k < ULONG
    <3>1. s + 1 \in 0 .. TopShift
      BY <1>3, RadixTreeAssumption
    <3> QED
      BY <3>1, PowerAssumption DEF k
  <2>2. k % ULONG = k /\ (k - 1) % ULONG = k - 1
    BY <1>1, <2>1, RadixTreeAssumption
  <2> QED
    BY <1>1, <1>2, <2>2, RadixTreeAssumption DEF shift_maxindex, k
<1>4. CASE s = TopShift
  <2>1. k % ULONG = 0
    BY <1>4, RadixTreeAssumption DEF k
  <2>2. ULONG \in Nat \ {0}
    BY RadixTreeAssumption
  <2>3. (0 - 1) % ULONG = ULONG - 1
    BY <2>2
  <2>4. k >= ULONG
    <3>1. k = ULONG * (k \div ULONG) + (k % ULONG) /\ k \div ULONG \in Nat
      BY <1>1, <2>2, DivMod
    <3>2. \A q \in Nat : q # 0 => ULONG * q >= ULONG
      BY <2>2
    <3>3. ULONG * 0 = 0
      BY <2>2
    <3> QED
      BY <1>1, <2>1, <2>2, <3>1, <3>2, <3>3
  <2>5. shift_maxindex(s) = ULONG - 1
    BY <1>1, <2>1, <2>3 DEF shift_maxindex, k
  <2> QED
    BY <1>1, <1>2, <2>4, <2>5, RadixTreeAssumption DEF k
<1> QED
  BY <1>3, <1>4, RadixTreeAssumption

\* A set of naturals that is not empty has a smallest element.
LEMMA Smallest ==
  ASSUME NEW T, T \subseteq Nat, T # {}
  PROVE  \E x \in T : \A y \in T : x <= y
<1> DEFINE R == OpToRel(<, Nat)
<1>1. PICK x \in T : \A y \in T : ~ (<<y, x>> \in R)
  <2>1. IsWellFoundedOn(R, Nat)
    BY NatLessThanWellFounded
  <2> QED
    BY <2>1, WFMin
<1>2. \A y \in T : ~ (y < x)
  BY <1>1 DEF OpToRel
<1> QED
  BY <1>2

\* What Min means.
LEMMA MinProperty ==
  ASSUME NEW T, T \subseteq Nat, T # {}
  PROVE  Min(T) \in T /\ \A y \in T : Min(T) <= y
BY Smallest DEF Min

\* radix_tree_extend() finds the least height with room for the index.
LEMMA ShiftForIndex ==
  ASSUME NEW i \in 0 .. ULONG - 1, NEW low \in 0 .. TopShift
  PROVE  LET top == ShiftFor(i, low) IN
         /\ top \in low .. TopShift
         /\ i \div MAP_SIZE^(top + 1) = 0
         /\ top > low => i \div MAP_SIZE^top # 0
<1> DEFINE T == {s \in low .. TopShift : i <= shift_maxindex(s)}
           top == ShiftFor(i, low)
<1>1. TopShift \in T
  <2>1. TopShift \in low .. TopShift /\ TopShift \in 0 .. TopShift
    BY RadixTreeAssumption
  <2>2. i \div MAP_SIZE^(TopShift + 1) = 0
    <3> DEFINE k == MAP_SIZE^(TopShift + 1)
    <3>1. k \in Nat \ {0} /\ k % ULONG = 0 /\ ULONG \in Nat \ {0}
      BY Powers, RadixTreeAssumption
    <3> HIDE DEF k
    <3>2. k = ULONG * (k \div ULONG) + (k % ULONG) /\ k \div ULONG \in Nat
      BY <3>1, DivMod
    <3>3. \A q \in Nat : q # 0 => ULONG * q >= ULONG
      BY <3>1
    <3>4. ULONG * 0 = 0
      BY <3>1
    <3>5. k >= ULONG
      BY <3>1, <3>2, <3>3, <3>4
    <3>6. i < k /\ i \in Nat
      BY <3>1, <3>5
    <3> QED
      BY <3>1, <3>6 DEF k
  <2> QED
    BY <2>1, <2>2, RoomFor
<1>2. top \in T /\ \A y \in T : top <= y
  <2>1. T \subseteq Nat
    OBVIOUS
  <2>2. Min(T) \in T /\ \A y \in T : Min(T) <= y
    BY <1>1, <2>1, MinProperty
  <2> QED
    BY <2>2 DEF ShiftFor
<1> HIDE DEF top
<1>3. top \in 0 .. TopShift /\ i <= shift_maxindex(top)
  BY <1>2
<1>4. i \div MAP_SIZE^(top + 1) = 0
  BY <1>3, RoomFor
<1>5. ASSUME top > low
      PROVE  i \div MAP_SIZE^top # 0
  <2>0. top \in low .. TopShift /\ ~(top <= top - 1)
    BY <1>2
  <2>a. top - 1 \in low .. TopShift /\ top - 1 \in 0 .. TopShift
    BY <1>5, <2>0, RadixTreeAssumption
  <2>b. \A y \in T : top <= y
    BY <1>2
  <2>1. top - 1 \in low .. TopShift /\ top - 1 \in 0 .. TopShift /\ top - 1 \notin T
    <3> HIDE DEF T
    <3> QED
      BY <2>0, <2>a, <2>b
  <2>2. ~(i <= shift_maxindex(top - 1))
    BY <2>1
  <2>3. i \div MAP_SIZE^((top - 1) + 1) # 0
    BY <2>1, <2>2, RoomFor
  <2>4. (top - 1) + 1 = top
    BY <1>3
  <2> QED
    BY <2>3, <2>4
<1>6. top \in low .. TopShift
  BY <1>2
<1> QED
  BY <1>4, <1>5, <1>6 DEF top

\* What calloc() returns for a place of the tree.
LEMMA FreshNode ==
  ASSUME NEW s \in 0 .. TopShift, NEW i \in Nat, NEW n \in Fresh(s, i)
  PROVE  /\ n \in NodeIds /\ n \notin live /\ n \notin retired
         /\ n[1] = s /\ n[2] = i \div MAP_SIZE^(s + 1)
<1> DEFINE copies == {c \in 1 .. Copies : <<s, i \div MAP_SIZE^(s + 1), c>> \in free}
<1>1. copies # {} /\ n = <<s, i \div MAP_SIZE^(s + 1), Min(copies)>>
  BY DEF Fresh
<1>2. copies \subseteq Nat
  BY RadixTreeAssumption
<1>3. Min(copies) \in copies
  BY <1>1, <1>2, MinProperty
<1> HIDE DEF copies
<1>4. n \in free
  BY <1>1, <1>3 DEF copies
<1> QED
  BY <1>1, <1>4 DEF free

----------------------------------------------------------------------------
(* Counting the slots in use.                                              *)

Used(slots) == {s \in Slots : slots[s] # NULL}

\* A node has MAP_SIZE slots.
LEMMA SlotsFinite ==
  /\ IsFiniteSet(Slots)
  /\ \A T \in SUBSET Slots : IsFiniteSet(T) /\ Cardinality(T) \in 0 .. MAP_SIZE
<1>1. IsFiniteSet(Slots) /\ Cardinality(Slots) = MAP_SIZE
  <2>0. MAP_SIZE - 1 \in Int /\ 0 \in Int
    BY RadixTreeAssumption
  <2>1. IsFiniteSet(0 .. MAP_SIZE - 1)
          /\ Cardinality(0 .. MAP_SIZE - 1) =
               IF 0 > MAP_SIZE - 1 THEN 0 ELSE (MAP_SIZE - 1) - 0 + 1
    BY <2>0, FS_Interval
  <2> QED
    BY <2>1, RadixTreeAssumption DEF Slots
<1>2. ASSUME NEW T \in SUBSET Slots
      PROVE  IsFiniteSet(T) /\ Cardinality(T) \in 0 .. MAP_SIZE
  <2>1. IsFiniteSet(T) /\ Cardinality(T) <= Cardinality(Slots)
    BY <1>1, FS_Subset
  <2>2. Cardinality(T) \in Nat
    BY <2>1, FS_CardinalityType
  <2> QED
    BY <1>1, <2>1, <2>2, RadixTreeAssumption
<1> QED
  BY <1>1, <1>2

\* A store into a slot changes the number of slots in use by what it adds.
LEMMA CountStored ==
  ASSUME NEW slots \in [Slots -> Entries], NEW s \in Slots, NEW e \in Entries,
         NEW k \in {-1, 0, 1},
         k = (IF e # NULL THEN 1 ELSE 0) - (IF slots[s] # NULL THEN 1 ELSE 0)
  PROVE  LET count == Cardinality(Used(slots))
         IN  /\ Cardinality(Used([slots EXCEPT ![s] = e])) = count + k
             /\ (count + k) % UINT = count + k
<1> DEFINE old == Used(slots)
           new == Used([slots EXCEPT ![s] = e])
<1>1. old \subseteq Slots /\ new \subseteq Slots
  BY DEF Used
<1>2. /\ IsFiniteSet(old) /\ Cardinality(old) \in 0 .. MAP_SIZE
      /\ IsFiniteSet(new) /\ Cardinality(new) \in 0 .. MAP_SIZE
  BY <1>1, SlotsFinite
<1>3. new = IF e # NULL THEN old \cup {s} ELSE old \ {s}
  BY DEF Used
<1>4. s \in old <=> slots[s] # NULL
  BY DEF Used
<1> HIDE DEF old, new
<1>5. Cardinality(new) = Cardinality(old) + k
  <2>1. CASE e # NULL /\ slots[s] = NULL
    BY <1>2, <1>3, <1>4, <2>1, FS_AddElement
  <2>2. CASE e = NULL /\ slots[s] # NULL
    <3>1. Cardinality(old \ {s}) = Cardinality(old) - 1
      BY <1>2, <1>4, <2>2, FS_RemoveElement
    <3> QED
      BY <1>2, <1>3, <2>2, <3>1
  <2>3. CASE (e # NULL) <=> (slots[s] # NULL)
    <3>1. new = old
      BY <1>3, <1>4, <2>3
    <3> QED
      BY <1>2, <2>3, <3>1
  <2> QED
    BY <2>1, <2>2, <2>3
<1>6. (Cardinality(old) + k) % UINT = Cardinality(old) + k
  BY <1>2, <1>5, RadixTreeAssumption
<1> QED
  BY <1>5, <1>6 DEF old, new

\* What delete_node() and radix_tree_shrink() learn from a count of 0 or 1; it
\* never overflows.
LEMMA CountSmall ==
  ASSUME NEW slots \in [Slots -> Entries]
  PROVE  /\ Cardinality(Used(slots)) \in 0 .. UINT - 1
         /\ Cardinality(Used(slots)) = 0 => \A s \in Slots : slots[s] = NULL
         /\ Cardinality(Used(slots)) = 1 =>
              \A s, t \in Slots : slots[s] # NULL /\ slots[t] # NULL => s = t
         /\ (\A s \in Slots : slots[s] = NULL) => Cardinality(Used(slots)) = 0
         /\ (\E t \in Slots : slots[t] # NULL /\ \A s \in Slots \ {t} : slots[s] = NULL)
              => Cardinality(Used(slots)) = 1
<1>1. Used(slots) \subseteq Slots
  BY DEF Used
<1>2. IsFiniteSet(Used(slots)) /\ Cardinality(Used(slots)) \in 0 .. MAP_SIZE
  BY <1>1, SlotsFinite
<1>3. Cardinality(Used(slots)) = 0 <=> Used(slots) = {}
  BY <1>2, FS_EmptySet
<1>4. Cardinality(Used(slots)) = 1 => \E t : Used(slots) = {t}
  BY <1>2, FS_Singleton
<1>5. ASSUME NEW t \in Slots, slots[t] # NULL, \A s \in Slots \ {t} : slots[s] = NULL
      PROVE  Cardinality(Used(slots)) = 1
  <2>1. Used(slots) = {t}
    BY <1>5 DEF Used
  <2> QED
    BY <2>1, FS_Singleton
<1> QED
  BY <1>2, <1>3, <1>4, <1>5, RadixTreeAssumption DEF Used

----------------------------------------------------------------------------
(* Stores into the tree.                                                   *)

\* Nodes, items and NULL are told apart.
LEMMA Kinds ==
  /\ NULL \notin NodeIds /\ NULL \notin Items
  /\ \A e \in Items : e \notin NodeIds
  /\ \A e \in Entries : e \in NodeIds \/ e \in Items \/ e = NULL
  /\ 0 \in Slots /\ ULONG \in Nat \ {0} /\ Keys \subseteq 0 .. ULONG - 1
BY RadixTreeAssumption, PowerAssumption DEF Entries, Slots

\* The count of an allocated node, in terms of its slots.
LEMMA CountUsed ==
  CountExact <=> \A n \in live : node[n].count = Cardinality(Used(node[n].slots))
BY DEF CountExact, Used

\* The same after a step.
LEMMA CountUsedNext ==
  CountExact' <=> \A n \in live' : node'[n].count = Cardinality(Used(node'[n].slots))
BY DEF CountExact, Used

\* What a store into a slot of node n changes.
LEMMA StoreInto ==
  ASSUME NEW nodes \in [NodeIds -> NodeRecs], NEW n \in NodeIds, NEW i \in Nat,
         NEW e \in Entries, NEW k \in {-1, 0, 1}, Store(nodes, n, i, e, k),
         nodes[n].count = Cardinality(Used(nodes[n].slots)),
         LET s == Offset(i, nodes[n].shift) IN
         k = (IF e # NULL THEN 1 ELSE 0) - (IF nodes[n].slots[s] # NULL THEN 1 ELSE 0)
  PROVE  LET s == Offset(i, nodes[n].shift) IN
         /\ s \in Slots /\ rnode' = rnode /\ node' \in [NodeIds -> NodeRecs]
         /\ \A m \in NodeIds \ {n} : node'[m] = nodes[m]
         /\ node'[n].shift = nodes[n].shift /\ node'[n].offset = nodes[n].offset
         /\ node'[n].parent = nodes[n].parent
         /\ node'[n].slots[s] = e
         /\ \A t \in Slots \ {s} : node'[n].slots[t] = nodes[n].slots[t]
         /\ node'[n].count = Cardinality(Used(node'[n].slots))
         /\ node'[n].count = nodes[n].count + k
<1> DEFINE s == Offset(i, nodes[n].shift)
           slots == nodes[n].slots
<1>1. s \in Slots
  BY OffsetStep DEF NodeRecs
<1>2. n # NULL
  BY Kinds
<1>3. rnode' = rnode /\ node' = [nodes EXCEPT ![n].slots[s] = e,
                                             ![n].count = (@ + k) % UINT]
  BY <1>2 DEF Store
<1> HIDE DEF s
<1>4. slots \in [Slots -> Entries]
  BY DEF NodeRecs
<1>5. /\ \A m \in NodeIds \ {n} : node'[m] = nodes[m]
      /\ node'[n] = [[nodes[n] EXCEPT !.slots[s] = e] EXCEPT !.count = (@ + k) % UINT]
      /\ DOMAIN node' = NodeIds
      /\ node' = [m \in NodeIds |-> node'[m]]
  BY <1>3
<1>6. /\ node'[n].shift = nodes[n].shift /\ node'[n].offset = nodes[n].offset
      /\ node'[n].parent = nodes[n].parent
      /\ node'[n].slots = [slots EXCEPT ![s] = e]
      /\ node'[n].count = (nodes[n].count + k) % UINT
  BY <1>5 DEF NodeRecs
<1>7. /\ Cardinality(Used([slots EXCEPT ![s] = e])) = Cardinality(Used(slots)) + k
      /\ (Cardinality(Used(slots)) + k) % UINT = Cardinality(Used(slots)) + k
  <2>1. k = (IF e # NULL THEN 1 ELSE 0) - (IF slots[s] # NULL THEN 1 ELSE 0)
    BY DEF s
  <2> HIDE DEF slots
  <2> QED
    BY <1>1, <1>4, <2>1, CountStored
<1>8. [slots EXCEPT ![s] = e] \in [Slots -> Entries]
  BY <1>1, <1>4
<1>9. node'[n].count \in 0 .. UINT - 1
  BY <1>6, <1>7, <1>8, CountSmall
<1>10. node'[n] \in NodeRecs
  <2>1. node'[n] = [shift |-> nodes[n].shift, offset |-> nodes[n].offset,
                    count |-> node'[n].count, parent |-> nodes[n].parent,
                    slots |-> [slots EXCEPT ![s] = e]]
    BY <1>5, <1>6 DEF NodeRecs
  <2> QED
    BY <1>8, <1>9, <2>1 DEF NodeRecs
<1>11. node' \in [NodeIds -> NodeRecs]
  BY <1>5, <1>10
<1>12. node'[n].slots[s] = e /\ \A t \in Slots \ {s} : node'[n].slots[t] = nodes[n].slots[t]
  BY <1>1, <1>4, <1>6
<1>13. /\ node'[n].count = Cardinality(Used(node'[n].slots))
       /\ node'[n].count = nodes[n].count + k
  <2> HIDE DEF slots
  <2>1. nodes[n].count = Cardinality(Used(slots))
    BY DEF slots
  <2> QED
    BY <1>6, <1>7, <2>1
<1> QED
  BY <1>1, <1>3, <1>5, <1>6, <1>11, <1>12, <1>13 DEF s

\* Remember() only adds to what readers may return.
LEMMA Remembered ==
  ASSUME Types, SeenOK, LookupLinearizable, NEW i \in Keys,
         NEW e \in Items \cup {NULL}, Remember(i, e)
  PROVE  /\ map' \in [Keys -> Items \cup {NULL}] /\ smashed' \in BOOLEAN
         /\ rd' \in [Readers -> ReaderRecs]
         /\ map'[i] = e /\ \A j \in Keys \ {i} : map'[j] = map[j]
         /\ \A r \in Readers :
              /\ rd'[r].pc = rd[r].pc /\ rd'[r].index = rd[r].index
              /\ rd'[r].node = rd[r].node /\ rd'[r].child = rd[r].child
              /\ rd[r].seen \subseteq rd'[r].seen
         /\ SeenOK' /\ LookupLinearizable' /\ Awaited' = Awaited
<1>1. map' \in [Keys -> Items \cup {NULL}] /\ map'[i] = e
        /\ \A j \in Keys \ {i} : map'[j] = map[j]
  BY DEF Remember, Types
<1>2. smashed' \in BOOLEAN
  BY DEF Remember
<1>3. ASSUME NEW r \in Readers
      PROVE  /\ rd'[r] \in ReaderRecs
             /\ rd'[r].pc = rd[r].pc /\ rd'[r].index = rd[r].index
             /\ rd'[r].node = rd[r].node /\ rd'[r].child = rd[r].child
             /\ rd[r].seen \subseteq rd'[r].seen
             /\ rd[r].pc # "idle" /\ rd[r].index = i => e \in rd'[r].seen
  <2>1. rd[r] \in ReaderRecs
    BY DEF Types
  <2>2. rd'[r] = IF rd[r].pc # "idle" /\ rd[r].index = i
                 THEN [rd[r] EXCEPT !.seen = @ \cup {e}] ELSE rd[r]
    BY DEF Remember
  <2> QED
    BY <2>1, <2>2 DEF ReaderRecs
<1>4. rd' \in [Readers -> ReaderRecs]
  <2>1. rd' = [r \in Readers |-> rd'[r]]
    BY DEF Remember
  <2> QED
    BY <1>3, <2>1
<1>5. SeenOK'
  BY <1>1, <1>3 DEF SeenOK
<1>6. LookupLinearizable'
  BY <1>3 DEF LookupLinearizable
<1>7. Awaited' = Awaited
  BY <1>3 DEF Awaited
<1> QED
  BY <1>1, <1>2, <1>3, <1>4, <1>5, <1>6, <1>7

\* A reader's place is kept when its section goes on and its nodes are kept.
LEMMA PlacesKept ==
  ASSUME DescendOK, MissedOK,
         \A n \in live : \A r \in Awaited : Held(r, n)',
         \A n \in retired : n \in retired' /\ grace'[n] = grace[n],
         \A n \in retired' \ retired : \A r \in grace'[n] :
           rd[r].pc # "iterate" /\ Under(n, rd[r].index)
           /\ node'[n].slots[Offset(rd[r].index, n[1])] = NULL
             => NULL \in rd[r].seen,
         \A n \in retired : node'[n].slots = node[n].slots,
         \A r \in Readers :
           /\ rd'[r].pc = rd[r].pc /\ rd'[r].index = rd[r].index
           /\ rd'[r].node = rd[r].node /\ rd'[r].child = rd[r].child
           /\ rd[r].seen \subseteq rd'[r].seen,
         \A n \in retired' : grace'[n] \subseteq Readers
  PROVE  DescendOK' /\ MissedOK'
<1>1. \A r \in Readers : rd[r].pc = "descend" => r \in Awaited
  BY DEF Awaited
<1>2. DescendOK'
  BY <1>1 DEF DescendOK, Held
<1>3. ASSUME NEW n \in retired', NEW r \in grace'[n], rd'[r].pc # "iterate",
             Under(n, rd'[r].index), node'[n].slots[Offset(rd'[r].index, n[1])] = NULL
      PROVE  NULL \in rd'[r].seen
  <2>1. r \in Readers
    BY <1>3
  <2>2. rd'[r].pc = rd[r].pc /\ rd'[r].index = rd[r].index /\ rd[r].seen \subseteq rd'[r].seen
    BY <2>1
  <2>3. CASE n \in retired
    <3>1. r \in grace[n] /\ node'[n].slots = node[n].slots
      BY <1>3, <2>3
    <3> QED
      BY <1>3, <2>2, <2>3, <3>1 DEF MissedOK, Entry
  <2>4. CASE n \notin retired
    BY <1>3, <2>2, <2>4 DEF Entry
  <2> QED
    BY <2>3, <2>4
<1>4. MissedOK'
  BY <1>3 DEF MissedOK, Entry
<1> QED
  BY <1>2, <1>4

\* Of some nodes one is highest.
LEMMA Highest ==
  ASSUME NEW T, T \subseteq NodeIds, T # {}
  PROVE  \E x \in T : \A y \in T : y[1] <= x[1]
<1> DEFINE D == {TopShift - x[1] : x \in T}
<1>1. \A x \in T : x[1] \in 0 .. TopShift
  BY NodeNames
<1>2. D \subseteq Nat /\ D # {}
  BY <1>1, RadixTreeAssumption
<1>3. PICK d \in D : \A c \in D : d <= c
  <2> HIDE DEF D
  <2> QED
    BY <1>2, Smallest
<1>4. PICK x \in T : d = TopShift - x[1]
  OBVIOUS
<1>5. \A y \in T : TopShift - x[1] <= TopShift - y[1]
  BY <1>3, <1>4
<1>6. \A y \in T : y[1] <= x[1]
  BY <1>1, <1>5, RadixTreeAssumption
<1> QED
  BY <1>6

\* The parent of a node is an allocated node one level up that has it in the
\* slot its name says.
LEMMA ParentOf ==
  ASSUME Types, TreeInv, NEW n \in live, n # rnode
  PROVE  \E p \in live : \E s \in Slots :
           p[1] = n[1] + 1 /\ node[p].slots[s] = n /\ Hangs(n, p, s)
             /\ node[n].parent = p /\ node[n].offset = s
<1> DEFINE p == node[n].parent
           s == node[n].offset
<1>1. p # NULL /\ p \in live /\ node[p].slots[s] = n /\ node[p].shift = node[n].shift + 1
  BY DEF TreeInv, Linked
<1>2. s \in Slots /\ n \in NodeIds /\ p \in NodeIds
  BY <1>1 DEF Types, NodeRecs
<1>3. p[1] = n[1] + 1
  BY <1>1 DEF TreeInv, Shaped
<1>4. SlotOK(p, s)
  BY <1>1, <1>2 DEF TreeInv, SlotsOK
<1>5. Hangs(n, p, s)
  BY <1>1, <1>2, <1>4, Kinds DEF SlotOK
<1> QED
  BY <1>1, <1>2, <1>3, <1>5

\* Where an index has a node, every node above it leads down to it.
LEMMA Spine ==
  ASSUME Types, TreeInv, NEW m \in live, NEW n \in live, NEW i \in Nat,
         Under(m, i), Under(n, i), n[1] < m[1]
  PROVE  Entry(m, i) # NULL
<1> DEFINE T == {x \in live : Under(x, i) /\ x[1] < m[1]}
<1>1. T # {} /\ T \subseteq NodeIds
  BY DEF Types
<1>2. PICK x \in T : \A y \in T : y[1] <= x[1]
  <2> HIDE DEF T
  <2> QED
    BY <1>1, Highest
<1>3. x \in live /\ Under(x, i) /\ x[1] < m[1]
  BY <1>2
<1>4. live \subseteq NodeIds
  BY DEF Types
<1>5. m[1] \in Nat /\ x[1] \in Nat
  BY <1>3, <1>4, NodeNames
<1>6. x # rnode
  <2> SUFFICES ASSUME x = rnode PROVE FALSE
    OBVIOUS
  <2>1. m[1] <= x[1]
    BY <1>3, <1>4 DEF TreeInv, RootOK
  <2> QED
    BY <1>3, <1>5, <2>1
<1>7. PICK p \in live, s \in Slots :
        p[1] = x[1] + 1 /\ node[p].slots[s] = x /\ Hangs(x, p, s)
  BY <1>3, <1>6, ParentOf
<1>8. Under(p, i) /\ Offset(i, p[1]) = s
  BY <1>3, <1>4, <1>7, UnderParent
<1>9. p \notin T
  BY <1>2, <1>5, <1>7
<1>10. p[1] = m[1]
  BY <1>3, <1>5, <1>7, <1>8, <1>9
<1>11. p = m
  BY <1>8, <1>10 DEF Under, TreeInv, Unique
<1> QED
  BY <1>3, <1>4, <1>7, <1>8, <1>11, Kinds DEF Entry

\* Every index with a node is below the root.
LEMMA RootAbove ==
  ASSUME Types, TreeInv, NEW n \in live, NEW i \in Nat, Under(n, i)
  PROVE  rnode \in live /\ Under(rnode, i)
<1> DEFINE T == {x \in live : Under(x, i)}
<1>1. T # {} /\ T \subseteq NodeIds /\ live \subseteq NodeIds
  BY DEF Types
<1>2. PICK x \in T : \A y \in T : y[1] <= x[1]
  <2> HIDE DEF T
  <2> QED
    BY <1>1, Highest
<1>3. SUFFICES ASSUME x # rnode PROVE FALSE
  BY <1>2
<1>4. PICK p \in live, s \in Slots :
        p[1] = x[1] + 1 /\ node[p].slots[s] = x /\ Hangs(x, p, s)
  BY <1>2, <1>3, ParentOf
<1>5. Under(p, i)
  BY <1>1, <1>2, <1>4, UnderParent
<1>6. x[1] \in Nat
  BY <1>1, NodeNames
<1> QED
  BY <1>2, <1>4, <1>5, <1>6

\* A root without children is the only node.
LEMMA RootAlone ==
  ASSUME Types, TreeInv, rnode \in NodeIds,
         \A s \in Slots : node[rnode].slots[s] = NULL
  PROVE  live = {rnode}
<1> DEFINE T == live \ {rnode}
<1>1. rnode \in live /\ live \subseteq NodeIds /\ \A n \in live : n[1] <= rnode[1]
  BY DEF Types, TreeInv, RootOK
<1>2. SUFFICES ASSUME T # {} PROVE FALSE
  BY <1>1
<1>3. PICK x \in T : \A y \in T : y[1] <= x[1]
  <2>1. T \subseteq NodeIds
    BY <1>1
  <2> HIDE DEF T
  <2> QED
    BY <1>2, <2>1, Highest
<1>4. PICK p \in live, s \in Slots : p[1] = x[1] + 1 /\ node[p].slots[s] = x
  BY <1>3, ParentOf
<1>5. x[1] \in Nat /\ x # NULL
  BY <1>1, <1>3, NodeNames, Kinds
<1>6. p \notin T
  BY <1>3, <1>4, <1>5
<1>7. p = rnode
  BY <1>6
<1> QED
  BY <1>4, <1>5, <1>7

\* insert_entries, radix_tree_replace_slot and radix_tree_delete_item store in
\* a leaf.
LEMMA LeafStored ==
  ASSUME RadixInv, NEW n \in live, n[1] = 0, NEW i \in Keys, Under(n, i),
         NEW e \in Items \cup {NULL}, NEW k \in {-1, 0, 1},
         k = (IF e # NULL THEN 1 ELSE 0) - (IF Entry(n, i) # NULL THEN 1 ELSE 0),
         Store(node, n, i, e, k), Remember(i, e), UNCHANGED <<live, grace>>
  PROVE  /\ node' \in [NodeIds -> NodeRecs] /\ rnode' = rnode
         /\ TreeInv' /\ MapInv' /\ GraceInv' /\ ReaderInv'
         /\ \A m \in NodeIds \ {n} : node'[m] = node[m]
<1> DEFINE s == Offset(i, 0)
<1>1. n \in NodeIds /\ n \notin retired /\ node[n].shift = 0 /\ i \in Nat
        /\ node \in [NodeIds -> NodeRecs] /\ e \in Entries
  BY Kinds DEF RadixInv, Types, TreeInv, Shaped, Entries
<1>2. node[n].count = Cardinality(Used(node[n].slots))
  BY CountUsed DEF RadixInv, TreeInv
<1>3. Entry(n, i) = node[n].slots[s]
  BY DEF Entry
<1>4. /\ s \in Slots /\ rnode' = rnode /\ node' \in [NodeIds -> NodeRecs]
      /\ \A m \in NodeIds \ {n} : node'[m] = node[m]
      /\ node'[n].shift = 0 /\ node'[n].offset = node[n].offset
      /\ node'[n].parent = node[n].parent
      /\ node'[n].slots[s] = e
      /\ \A t \in Slots \ {s} : node'[n].slots[t] = node[n].slots[t]
      /\ node'[n].count = Cardinality(Used(node'[n].slots))
  BY <1>1, <1>2, <1>3, StoreInto
<1> HIDE DEF s
<1>5. live' = live /\ grace' = grace /\ retired' = retired
  BY DEF retired
<1>6. live \subseteq NodeIds /\ retired \subseteq NodeIds
  BY DEF RadixInv, Types
<1>7. \A m \in NodeIds : /\ node'[m].shift = node[m].shift
                         /\ node'[m].offset = node[m].offset
                         /\ node'[m].parent = node[m].parent
  BY <1>1, <1>4
<1>8. \A m \in NodeIds : m[1] # 0 => node'[m].slots = node[m].slots
  BY <1>4
<1>9. SlotsOK'
  <2> SUFFICES ASSUME NEW m \in live, NEW t \in Slots
               PROVE  SlotOK(m, t)'
    BY <1>5 DEF SlotsOK
  <2>1. SlotOK(m, t)
    BY DEF RadixInv, TreeInv, SlotsOK
  <2>2. CASE m = n /\ t = s
    BY <1>4, <1>5, <2>2 DEF SlotOK
  <2>3. CASE ~(m = n /\ t = s)
    <3>1. node'[m].slots[t] = node[m].slots[t]
      BY <1>4, <1>6, <2>3
    <3> QED
      BY <1>5, <1>6, <1>7, <2>1, <3>1 DEF SlotOK
  <2> QED
    BY <2>2, <2>3
<1>10. RootOK' /\ Shaped' /\ Unique'
  BY <1>4, <1>5, <1>6, <1>7 DEF RadixInv, TreeInv, RootOK, Shaped, Unique
<1>11. Linked'
  <2> SUFFICES ASSUME NEW m \in live, node[m].parent # NULL
               PROVE  node'[node[m].parent].slots[node[m].offset] = m
    BY <1>4, <1>5, <1>6, <1>7 DEF RadixInv, TreeInv, Linked
  <2>1. node[m].parent \in live /\ node[node[m].parent].slots[node[m].offset] = m
          /\ node[node[m].parent].shift = node[m].shift + 1
    BY DEF RadixInv, TreeInv, Linked
  <2>2. node[m].shift \in Nat
    BY <1>1, <1>6 DEF NodeRecs
  <2>3. node[m].parent # n
    BY <1>1, <2>1, <2>2
  <2> QED
    BY <1>4, <1>6, <2>1, <2>3
<1>12. CountExact'
  BY <1>2, <1>4, <1>5, <1>6, CountUsed, CountUsedNext DEF RadixInv, TreeInv
<1>13. /\ map' \in [Keys -> Items \cup {NULL}] /\ smashed' \in BOOLEAN
       /\ rd' \in [Readers -> ReaderRecs]
       /\ map'[i] = e /\ \A j \in Keys \ {i} : map'[j] = map[j]
       /\ \A r \in Readers :
            /\ rd'[r].pc = rd[r].pc /\ rd'[r].index = rd[r].index
            /\ rd'[r].node = rd[r].node /\ rd'[r].child = rd[r].child
            /\ rd[r].seen \subseteq rd'[r].seen
       /\ SeenOK' /\ LookupLinearizable' /\ Awaited' = Awaited
  BY Remembered DEF RadixInv, ReaderInv
<1>14. ASSUME NEW m \in live, NEW j \in Keys, Under(m, j)
       PROVE  Entry(m, j)' = IF m = n /\ j = i THEN e ELSE Entry(m, j)
  <2>1. j \in Nat /\ m \in NodeIds /\ m[1] \in 0 .. TopShift
    BY <1>6, Kinds, NodeNames
  <2>2. Offset(j, m[1]) \in Slots
    BY <2>1, OffsetStep
  <2>3. CASE m = n /\ j = i
    BY <1>4, <2>3 DEF Entry, s
  <2>4. CASE m = n /\ j # i
    <3>1. Offset(j, 0) # s
      BY <1>1, <1>14, <2>1, <2>4, LeafIndex DEF s
    <3> QED
      BY <1>4, <2>2, <2>4, <3>1 DEF Entry
  <2>5. CASE m # n
    BY <1>4, <2>1, <2>5 DEF Entry
  <2> QED
    BY <2>3, <2>4, <2>5
<1>15. \A m \in live : m[1] = 0 /\ Under(m, i) => m = n
  <2> SUFFICES ASSUME NEW m \in live, m[1] = 0, Under(m, i) PROVE m = n
    OBVIOUS
  <2>1. m[2] = n[2]
    BY DEF Under
  <2> QED
    BY <2>1 DEF RadixInv, TreeInv, Unique
<1>16. LeafExact'
  BY <1>5, <1>13, <1>14, <1>15 DEF RadixInv, MapInv, LeafExact
<1>17. ASSUME NEW m \in live, NEW j \in Keys, Under(m, j), Entry(m, j)' = NULL
       PROVE  map'[j] = NULL
  <2>1. CASE m = n /\ j = i
    BY <1>13, <1>14, <1>17, <2>1
  <2>2. CASE m # n /\ j = i
    <3>1. Entry(m, j) = NULL
      BY <1>14, <1>17, <2>2
    <3>2. m[1] \in Nat /\ m[1] # 0
      BY <1>6, <1>15, <1>17, <2>2, NodeNames
    <3>3. Entry(m, j) # NULL
      BY <1>1, <1>17, <2>2, <3>2, Spine DEF RadixInv
    <3> QED
      BY <3>1, <3>3
  <2>3. CASE j # i
    BY <1>13, <1>14, <1>17, <2>3 DEF RadixInv, MapInv, Absent
  <2> QED
    BY <2>1, <2>2, <2>3
<1>18. Absent'
  BY <1>5, <1>17 DEF Absent
<1>19. RootExact'
  <2>1. rnode \in NodeIds
    BY DEF RadixInv, TreeInv, RootOK
  <2>3. Under(rnode, i)
    BY <1>1, RootAbove DEF RadixInv
  <2> QED
    BY <1>4, <1>13, <2>1, <2>3 DEF RadixInv, MapInv, RootExact
<1>20. GraceInv'
  <2>1. \A m \in retired : m # n
    BY <1>1
  <2>2. RetiredOK'
    BY <1>4, <1>5, <1>6, <2>1 DEF RadixInv, GraceInv, RetiredOK, KeptSlot
  <2>3. HeldByReadersOnly'
    BY <1>5, <1>13 DEF RadixInv, GraceInv, HeldByReadersOnly
  <2> QED
    BY <2>2, <2>3 DEF GraceInv
<1>21. DescendOK' /\ MissedOK'
  <2>1. \A m \in retired : node'[m].slots = node[m].slots
    BY <1>1, <1>4, <1>6
  <2>2. \A m \in retired' : grace'[m] \subseteq Readers
    BY <1>5 DEF RadixInv, Types
  <2>3. DescendOK /\ MissedOK
    BY DEF RadixInv, ReaderInv
  <2>4. \A m \in live : \A r \in Awaited : Held(r, m)'
    BY <1>5 DEF Held
  <2> QED
    BY <1>5, <1>13, <2>1, <2>2, <2>3, <2>4, PlacesKept
<1> QED
  BY <1>4, <1>9, <1>10, <1>11, <1>12, <1>13, <1>16, <1>18, <1>19, <1>20, <1>21
     DEF TreeInv, MapInv, ReaderInv

\* The same calls when the item of index 0 is the root.
LEMMA RootStored ==
  ASSUME RadixInv, rnode \notin NodeIds, 0 \in Keys, NEW e \in Items \cup {NULL},
         rnode' = e, node' = node, Remember(0, e), UNCHANGED <<live, grace>>
  PROVE  TreeInv' /\ MapInv' /\ GraceInv' /\ ReaderInv'
<1>1. live' = {} /\ live = {} /\ grace' = grace /\ retired' = retired
  BY DEF RadixInv, TreeInv, RootOK, retired
<1>2. e \notin NodeIds
  BY Kinds
<1>3. TreeInv'
  BY <1>1, <1>2 DEF RadixInv, TreeInv, SlotsOK, RootOK, Shaped, Unique, Linked, CountExact
<1>4. /\ map'[0] = e /\ \A j \in Keys \ {0} : map'[j] = map[j]
      /\ \A r \in Readers :
           /\ rd'[r].pc = rd[r].pc /\ rd'[r].index = rd[r].index
           /\ rd'[r].node = rd[r].node /\ rd'[r].child = rd[r].child
           /\ rd[r].seen \subseteq rd'[r].seen
      /\ SeenOK' /\ LookupLinearizable' /\ Awaited' = Awaited
  BY Remembered DEF RadixInv, ReaderInv
<1>5. MapInv'
  BY <1>1, <1>2, <1>4 DEF RadixInv, MapInv, LeafExact, Absent, RootExact
<1>6. GraceInv'
  <2>1. RetiredOK'
    BY <1>1 DEF RadixInv, GraceInv, RetiredOK, KeptSlot
  <2>2. HeldByReadersOnly'
    BY <1>1, <1>4 DEF RadixInv, GraceInv, HeldByReadersOnly
  <2> QED
    BY <2>1, <2>2 DEF GraceInv
<1>7. DescendOK' /\ MissedOK'
  <2>1. \A m \in retired' : grace'[m] \subseteq Readers
    BY <1>1 DEF RadixInv, Types
  <2>2. DescendOK /\ MissedOK
    BY DEF RadixInv, ReaderInv
  <2> QED
    BY <1>1, <1>4, <2>1, <2>2, PlacesKept
<1> QED
  BY <1>3, <1>4, <1>5, <1>6, <1>7 DEF ReaderInv

----------------------------------------------------------------------------
(* Nodes that come into the tree.                                          *)

\* A new node is empty.
LEMMA BlankNode ==
  /\ Blank \in NodeRecs /\ \A s \in Slots : Blank.slots[s] = NULL
  /\ Blank.count = 0 /\ Cardinality(Used(Blank.slots)) = 0
<1>1. Blank.slots \in [Slots -> Entries] /\ \A s \in Slots : Blank.slots[s] = NULL
  BY DEF Blank, Entries
<1>2. Cardinality(Used(Blank.slots)) = 0
  BY <1>1, CountSmall
<1>3. Blank.count = 0 /\ Blank.count \in 0 .. UINT - 1
  BY RadixTreeAssumption DEF Blank
<1>4. 0 \in 0 .. TopShift /\ 0 \in Slots
  BY RadixTreeAssumption, Kinds
<1> QED
  BY <1>1, <1>2, <1>3, <1>4, RadixTreeAssumption DEF Blank, NodeRecs

\* The fields calloc() and __radix_tree_create give a new node.
LEMMA BlankMade ==
  ASSUME NEW s, NEW p, NEW o
  PROVE  [Blank EXCEPT !.shift = s, !.parent = p, !.offset = o]
           = [shift |-> s, offset |-> o, count |-> 0, parent |-> p, slots |-> Blank.slots]
<1> DEFINE none == [t \in Slots |-> NULL]
<1>1. Blank = [shift |-> 0, offset |-> 0, count |-> 0, parent |-> NULL, slots |-> none]
  BY DEF Blank
<1> HIDE DEF none
<1>2. Blank.slots = none
  BY <1>1
<1>3. PICK y : y = [[shift |-> 0, offset |-> 0, count |-> 0, parent |-> NULL, slots |-> none]
                      EXCEPT !.shift = s, !.parent = p, !.offset = o]
  OBVIOUS
<1>4. y = [shift |-> s, offset |-> o, count |-> 0, parent |-> p, slots |-> none]
  BY <1>3
<1> QED
  BY <1>1, <1>2, <1>3, <1>4

\* Readers and unlinked nodes do not notice a new node: it was free, so no
\* reader is in it and no unlinked node leads to it.
LEMMA NodeAdded ==
  ASSUME RadixInv, live \subseteq live', UNCHANGED <<grace, rd>>, map' = map,
         \A m \in retired : node'[m] = node[m]
  PROVE  GraceInv' /\ ReaderInv'
<1>1. retired' = retired /\ Awaited' = Awaited
  BY DEF retired, Awaited
<1>2. RetiredOK'
  BY <1>1 DEF RadixInv, GraceInv, RetiredOK, KeptSlot
<1>3. HeldByReadersOnly'
  BY <1>1 DEF RadixInv, GraceInv, HeldByReadersOnly
<1>4. SeenOK' /\ LookupLinearizable'
  BY DEF RadixInv, ReaderInv, SeenOK, LookupLinearizable
<1>5. DescendOK' /\ MissedOK'
  <2>1. \A m \in retired' : grace'[m] \subseteq Readers
    BY <1>1 DEF RadixInv, Types
  <2>2. \A m \in live : \A r \in Awaited : Held(r, m)'
    BY DEF Held
  <2>3. DescendOK /\ MissedOK
    BY DEF RadixInv, ReaderInv
  <2> QED
    BY <1>1, <2>1, <2>2, <2>3, PlacesKept
<1> QED
  BY <1>2, <1>3, <1>4, <1>5 DEF GraceInv, ReaderInv

\* __radix_tree_create puts the first node into an empty tree.
LEMMA FirstNode ==
  ASSUME RadixInv, rnode = NULL, NEW s \in 0 .. TopShift, NEW i \in Keys,
         i \div MAP_SIZE^(s + 1) = 0, NEW n \in Fresh(s, i),
         rnode' = n, live' = live \cup {n}, UNCHANGED <<grace, rd, map>>,
         node' = [node EXCEPT ![n] = [Blank EXCEPT !.shift = s, !.parent = NULL,
                                                   !.offset = 0]]
  PROVE  /\ node' \in [NodeIds -> NodeRecs] /\ n \in NodeIds /\ n[1] = s
         /\ TreeInv' /\ MapInv' /\ GraceInv' /\ ReaderInv'
         /\ Under(n, i) /\ live' = {n} /\ \A t \in Slots : node'[n].slots[t] = NULL
<1>1. i \in Nat
  BY Kinds
<1>2. n \in NodeIds /\ n \notin live /\ n \notin retired /\ n[1] = s /\ n[2] = 0
  BY <1>1, FreshNode
<1>3. live = {} /\ live' = {n}
  BY Kinds DEF RadixInv, TreeInv, RootOK
<1>4. node \in [NodeIds -> NodeRecs] /\ retired \subseteq NodeIds
  BY DEF RadixInv, Types
<1>5. /\ node'[n].shift = s /\ node'[n].parent = NULL /\ node'[n].offset = 0
      /\ node'[n].count = 0 /\ node'[n].slots = Blank.slots /\ node'[n] \in NodeRecs
      /\ \A m \in NodeIds \ {n} : node'[m] = node[m]
      /\ node' \in [NodeIds -> NodeRecs]
  <2>1. [Blank EXCEPT !.shift = s, !.parent = NULL, !.offset = 0]
          = [shift |-> s, offset |-> 0, count |-> 0, parent |-> NULL, slots |-> Blank.slots]
    BY BlankMade
  <2>2. node'[n] = [shift |-> s, offset |-> 0, count |-> 0, parent |-> NULL,
                    slots |-> Blank.slots]
    BY <1>2, <1>4, <2>1
  <2>a. Blank.slots \in [Slots -> Entries] /\ 0 \in 0 .. UINT - 1 /\ 0 \in Slots
    BY BlankNode, Kinds DEF NodeRecs
  <2>b. [shift |-> s, offset |-> 0, count |-> 0, parent |-> NULL, slots |-> Blank.slots]
          \in NodeRecs
    BY <2>a DEF NodeRecs
  <2>3. node'[n] \in NodeRecs
    BY <2>2, <2>b
  <2> QED
    BY <1>2, <1>4, <2>2, <2>3
<1>6. \A t \in Slots : node'[n].slots[t] = NULL
  BY <1>5, BlankNode
<1>7. retired' = retired
  BY DEF retired
<1>8. SlotsOK' /\ RootOK' /\ Unique' /\ Linked'
  BY <1>2, <1>3, <1>5, <1>6, NodeNames DEF SlotsOK, SlotOK, RootOK, Unique, Linked
<1>9. Shaped'
  BY <1>2, <1>3, <1>4, <1>5, <1>7 DEF RadixInv, TreeInv, Shaped
<1>10. CountExact'
  BY <1>3, <1>5, BlankNode, CountUsedNext
<1>11. \A j \in Keys : map[j] = NULL
  BY Kinds DEF RadixInv, MapInv, RootExact
<1>12. MapInv'
  <2>1. ASSUME NEW j \in Keys
        PROVE  node'[n].slots[Offset(j, n[1])] = NULL
    <3>1. Offset(j, n[1]) \in Slots
      BY <1>2, OffsetStep, Kinds
    <3> QED
      BY <1>6, <3>1
  <2> QED
    BY <1>2, <1>3, <1>11, <2>1 DEF MapInv, LeafExact, Absent, RootExact, Entry
<1>13. \A m \in retired : node'[m] = node[m]
  BY <1>2, <1>4, <1>5
<1>14. GraceInv' /\ ReaderInv'
  BY <1>13, NodeAdded
<1>15. Under(n, i)
  BY <1>2 DEF Under
<1> QED
  BY <1>2, <1>3, <1>5, <1>6, <1>8, <1>9, <1>10, <1>12, <1>14, <1>15 DEF TreeInv

\* __radix_tree_create hangs a new node n into an empty slot of node p.
LEMMA ChildAdded ==
  ASSUME RadixInv, NEW p \in live, p[1] > 0, NEW i \in Keys, Under(p, i),
         Entry(p, i) = NULL, NEW n \in Fresh(p[1] - 1, i),
         NEW nodes \in [NodeIds -> NodeRecs], Store(nodes, p, i, n, 1),
         \A m \in NodeIds \ {n} : nodes[m] = node[m],
         nodes[n].shift = p[1] - 1, nodes[n].parent = p,
         nodes[n].offset = Offset(i, p[1]), nodes[n].count = 0,
         nodes[n].slots = Blank.slots,
         live' = live \cup {n}, UNCHANGED <<grace, rd, map>>
  PROVE  /\ node' \in [NodeIds -> NodeRecs] /\ rnode' = rnode
         /\ n \in NodeIds /\ n[1] = p[1] - 1 /\ n \notin live
         /\ TreeInv' /\ MapInv' /\ GraceInv' /\ ReaderInv'
         /\ Under(n, i) /\ \A t \in Slots : node'[n].slots[t] = NULL
         /\ \A m \in live \ {p} : node'[m] = node[m]
         /\ node'[p].count # 0 /\ node'[p].slots[Offset(i, p[1])] = n
         /\ \A t \in Slots \ {Offset(i, p[1])} : node'[p].slots[t] = node[p].slots[t]
<1> DEFINE s == Offset(i, p[1])
<1>1. i \in Nat /\ p \in NodeIds /\ p \notin retired /\ node \in [NodeIds -> NodeRecs]
        /\ live \subseteq NodeIds /\ retired \subseteq NodeIds
  BY Kinds DEF RadixInv, Types
<1>2. p[1] \in 0 .. TopShift /\ p[1] - 1 \in 0 .. TopShift /\ p[2] \in Nat
  BY <1>1, NodeNames, RadixTreeAssumption
<1>3. s \in Slots
  BY <1>1, <1>2, OffsetStep
<1>4. /\ n \in NodeIds /\ n \notin live /\ n \notin retired
      /\ n[1] = p[1] - 1 /\ n[2] = i \div MAP_SIZE^((p[1] - 1) + 1)
  BY <1>1, <1>2, FreshNode
<1>5. Under(n, i) /\ Hangs(n, p, s)
  <2>1. (p[1] - 1) + 1 = p[1] /\ n[1] + 1 = p[1]
    BY <1>2, <1>4
  <2>2. i \div MAP_SIZE^p[1] = (i \div MAP_SIZE^(p[1] + 1)) * MAP_SIZE + s
    BY <1>1, <1>2, OffsetStep
  <2> QED
    BY <1>4, <2>1, <2>2 DEF Under, Hangs
<1>8. p # n /\ nodes[p] = node[p] /\ node[p].shift = p[1]
  BY <1>1, <1>4 DEF RadixInv, TreeInv, Shaped
<1>9. node[p].count = Cardinality(Used(node[p].slots)) /\ node[p].slots[s] = NULL
  BY CountUsed DEF RadixInv, TreeInv, Entry
<1>n. n \in Entries /\ n # NULL
  BY <1>4, Kinds DEF Entries
<1> HIDE DEF s
<1>10. /\ rnode' = rnode /\ node' \in [NodeIds -> NodeRecs]
       /\ \A m \in NodeIds \ {p} : node'[m] = nodes[m]
       /\ node'[p].shift = node[p].shift /\ node'[p].offset = node[p].offset
       /\ node'[p].parent = node[p].parent
       /\ node'[p].slots[s] = n
       /\ \A t \in Slots \ {s} : node'[p].slots[t] = node[p].slots[t]
       /\ node'[p].count = Cardinality(Used(node'[p].slots))
       /\ node'[p].count = node[p].count + 1
  <2>1. s = Offset(i, nodes[p].shift)
    BY <1>8 DEF s
  <2> QED
    BY <1>1, <1>8, <1>9, <1>n, <2>1, StoreInto
<1>11. /\ \A m \in NodeIds : m # n /\ m # p => node'[m] = node[m]
       /\ node'[n] = nodes[n]
  BY <1>4, <1>8, <1>10
<1>12. \A t \in Slots : node'[n].slots[t] = NULL
  BY <1>11, BlankNode
<1>13. /\ node'[n].shift = n[1] /\ node'[n].parent = p /\ node'[n].offset = s
       /\ node'[n].count = Cardinality(Used(node'[n].slots))
  BY <1>4, <1>11, BlankNode DEF s
<1>14. \A m \in live : /\ node'[m].shift = node[m].shift
                       /\ node'[m].offset = node[m].offset
                       /\ node'[m].parent = node[m].parent
  BY <1>1, <1>4, <1>10, <1>11
<1>15. \A m \in live : \A t \in Slots :
         node'[m].slots[t] = IF m = p /\ t = s THEN n ELSE node[m].slots[t]
  BY <1>1, <1>4, <1>10, <1>11
<1>16. retired' = retired
  BY DEF retired
<1>17. SlotsOK'
  <2> SUFFICES ASSUME NEW m \in live', NEW t \in Slots
               PROVE  SlotOK(m, t)'
    BY DEF SlotsOK
  <2>1. CASE m = n
    BY <1>12, <2>1 DEF SlotOK
  <2>2. CASE m = p /\ t = s
    BY <1>5, <1>10, <1>13, <2>2 DEF SlotOK
  <2>3. CASE m \in live /\ ~(m = p /\ t = s)
    <3>1. SlotOK(m, t)
      BY <2>3 DEF RadixInv, TreeInv, SlotsOK
    <3> QED
      BY <1>14, <1>15, <2>3, <3>1 DEF SlotOK
  <2> QED
    BY <2>1, <2>2, <2>3
<1>18. RootOK'
  <2>1. rnode \in NodeIds /\ rnode \in live /\ \A m \in live : m[1] <= rnode[1]
    BY DEF RadixInv, TreeInv, RootOK
  <2>2. n[1] <= rnode[1]
    <3>1. p[1] <= rnode[1] /\ rnode[1] \in Nat
      BY <2>1, NodeNames
    <3> QED
      BY <1>2, <1>4, <3>1
  <2> QED
    BY <1>10, <1>14, <2>1, <2>2 DEF RadixInv, TreeInv, RootOK
<1>19. Shaped'
  <2>1. \A m \in live : node'[m].shift = m[1]
    BY <1>14 DEF RadixInv, TreeInv, Shaped
  <2>2. \A m \in retired : node'[m].shift = m[1]
    BY <1>1, <1>4, <1>11 DEF RadixInv, TreeInv, Shaped
  <2> QED
    BY <1>13, <1>16, <2>1, <2>2 DEF Shaped
<1>20. \A m \in live : ~(m[1] = n[1] /\ m[2] = n[2])
  <2> SUFFICES ASSUME NEW m \in live, m[1] = n[1], m[2] = n[2]
               PROVE  FALSE
    OBVIOUS
  <2>1. Under(m, i)
    BY <1>5 DEF Under
  <2>2. m[1] < p[1]
    BY <1>2, <1>4
  <2>3. Entry(p, i) # NULL
    BY <1>1, <2>1, <2>2, Spine DEF RadixInv
  <2> QED
    BY <2>3
<1>21. Unique'
  BY <1>20 DEF RadixInv, TreeInv, Unique
<1>22. Linked'
  <2>1. ASSUME NEW m \in live
        PROVE  IF node[m].parent = NULL THEN rnode = m
               ELSE /\ node[m].parent \in live
                    /\ node'[node[m].parent].slots[node[m].offset] = m
                    /\ node[node[m].parent].shift = node[m].shift + 1
    <3>1. IF node[m].parent = NULL THEN rnode = m
          ELSE /\ node[m].parent \in live
               /\ node[node[m].parent].slots[node[m].offset] = m
               /\ node[node[m].parent].shift = node[m].shift + 1
      BY DEF RadixInv, TreeInv, Linked
    <3>2. node[m].offset \in Slots /\ m # NULL
      BY <1>1, Kinds DEF NodeRecs
    <3>3. ~(node[m].parent = p /\ node[m].offset = s)
      BY <1>9, <3>1, <3>2, Kinds, <1>1
    <3> QED
      BY <1>15, <3>1, <3>2, <3>3
  <2>2. /\ node'[p].slots[node'[n].offset] = n
        /\ node'[p].shift = node'[n].shift + 1
    BY <1>2, <1>4, <1>8, <1>10, <1>13
  <2> QED
    BY <1>10, <1>13, <1>14, <2>1, <2>2, Kinds, <1>1 DEF Linked
<1>23. CountExact'
  <2>1. \A m \in live : m # p => node'[m].count = Cardinality(Used(node'[m].slots))
    BY <1>1, <1>4, <1>11, CountUsed DEF RadixInv, TreeInv
  <2> QED
    BY <1>10, <1>13, <2>1, CountUsedNext
<1>24. ASSUME NEW m \in live, NEW j \in Keys
       PROVE  /\ Entry(m, j)' = NULL => Entry(m, j) = NULL
              /\ m[1] = 0 => Entry(m, j)' = Entry(m, j)
  <2>1. m[1] \in 0 .. TopShift
    BY <1>1, NodeNames
  <2>2. Offset(j, m[1]) \in Slots
    BY <2>1, OffsetStep, Kinds
  <2> QED
    BY <1>15, <1>n, <2>2 DEF Entry
<1>25. ASSUME NEW j \in Keys, Under(n, j)
       PROVE  map[j] = NULL /\ Entry(n, j)' = NULL
  <2>1. j \in Nat
    BY Kinds
  <2>2. Under(p, j) /\ Offset(j, p[1]) = s
    BY <1>1, <1>3, <1>4, <1>5, <1>25, <2>1, UnderParent
  <2>3. Entry(p, j) = NULL
    BY <1>9, <2>2 DEF Entry
  <2>4. Offset(j, n[1]) \in Slots
    BY <1>2, <1>4, <2>1, OffsetStep
  <2> QED
    BY <1>12, <2>2, <2>3, <2>4 DEF RadixInv, MapInv, Absent, Entry
<1>26. MapInv'
  <2>1. LeafExact' /\ Absent'
    BY <1>24, <1>25 DEF RadixInv, MapInv, LeafExact, Absent
  <2>2. RootExact'
    BY <1>10 DEF RadixInv, MapInv, RootExact
  <2> QED
    BY <2>1, <2>2 DEF MapInv
<1>27. GraceInv' /\ ReaderInv'
  <2>1. \A m \in retired : node'[m] = node[m]
    BY <1>1, <1>4, <1>11
  <2> QED
    BY <2>1, NodeAdded
<1>28. node'[p].count # 0
  <2>1. node[p].count \in Nat
    BY <1>1 DEF NodeRecs
  <2> QED
    BY <1>10, <2>1
<1> QED
  BY <1>1, <1>4, <1>5, <1>10, <1>11, <1>12, <1>17, <1>18, <1>19, <1>21, <1>22, <1>23,
     <1>26, <1>27, <1>28 DEF TreeInv, s

\* radix_tree_extend puts a node above the root, be it a node or an item.
LEMMA RootRaised ==
  ASSUME RadixInv, rnode # NULL, NEW s \in 0 .. TopShift, s = RootShift,
         NEW n \in Fresh(s, 0), rnode' = n, live' = live \cup {n},
         UNCHANGED <<grace, rd, map>>,
         node' = [m \in NodeIds |->
                    IF m = n THEN NewRoot(s, rnode)
                    ELSE IF m = rnode THEN [node[m] EXCEPT !.parent = n]
                    ELSE node[m]]
  PROVE  /\ node' \in [NodeIds -> NodeRecs]
         /\ n \in NodeIds /\ n[1] = s /\ n \notin live
         /\ TreeInv' /\ MapInv' /\ GraceInv' /\ ReaderInv'
         /\ node'[n].count # 0
         /\ \A m \in live : node'[m].slots = node[m].slots /\ node'[m].count = node[m].count
<1>1. /\ node \in [NodeIds -> NodeRecs] /\ rnode \in Entries
      /\ live \subseteq NodeIds /\ retired \subseteq NodeIds /\ live \cap retired = {}
  BY DEF RadixInv, Types
<1>2. 0 \in Nat /\ 0 \div MAP_SIZE^(s + 1) = 0 /\ 0 \div MAP_SIZE^s = 0
  BY Powers, RadixTreeAssumption
<1>3. n \in NodeIds /\ n \notin live /\ n \notin retired /\ n[1] = s /\ n[2] = 0
  BY <1>2, FreshNode
<1>4. Offset(0, s) = 0 /\ Under(n, 0)
  BY <1>2, <1>3, RadixTreeAssumption DEF Offset, Under
<1>5. n # rnode
  BY <1>3 DEF RadixInv, TreeInv, RootOK
<1> DEFINE slots == [Blank.slots EXCEPT ![0] = rnode]
           top == [shift |-> s, offset |-> 0, count |-> 1, parent |-> NULL, slots |-> slots]
<1>6. NewRoot(s, rnode) = top
  <2> DEFINE none == [t \in Slots |-> NULL]
  <2>1. Blank = [shift |-> 0, offset |-> 0, count |-> 0, parent |-> NULL, slots |-> none]
    BY DEF Blank
  <2> HIDE DEF none
  <2>2. PICK y : y = [[shift |-> 0, offset |-> 0, count |-> 0, parent |-> NULL, slots |-> none]
                        EXCEPT !.shift = s, !.count = 1, !.slots[0] = rnode]
    OBVIOUS
  <2>3. y = [shift |-> s, offset |-> 0, count |-> 1, parent |-> NULL,
             slots |-> [none EXCEPT ![0] = rnode]]
    BY <2>2
  <2>4. Blank.slots = none
    BY <2>1
  <2>5. NewRoot(s, rnode) = y
    BY <2>1, <2>2 DEF NewRoot
  <2> QED
    BY <2>3, <2>4, <2>5
<1>7. slots \in [Slots -> Entries] /\ slots[0] = rnode
        /\ \A t \in Slots \ {0} : slots[t] = NULL
  <2>1. Blank.slots \in [Slots -> Entries] /\ 0 \in Slots
    BY BlankNode, Kinds DEF NodeRecs
  <2> QED
    BY <1>1, <2>1, BlankNode
<1> HIDE DEF slots
<1>8. Cardinality(Used(slots)) = 1
  BY <1>7, CountSmall, Kinds
<1>9. top \in NodeRecs
  <2>1. 1 \in 0 .. UINT - 1 /\ 0 \in Slots
    BY RadixTreeAssumption, Kinds
  <2> QED
    BY <1>7, <2>1 DEF NodeRecs
<1>10. /\ node'[n].shift = s /\ node'[n].offset = 0 /\ node'[n].count = 1
       /\ node'[n].parent = NULL /\ node'[n].slots = slots
  <2>1. node'[n] = top
    BY <1>3, <1>6
  <2> QED
    BY <2>1
<1>11. ASSUME NEW m \in NodeIds, m # n
       PROVE  /\ node'[m] \in NodeRecs
              /\ node'[m].shift = node[m].shift /\ node'[m].offset = node[m].offset
              /\ node'[m].slots = node[m].slots /\ node'[m].count = node[m].count
              /\ node'[m].parent = IF m = rnode THEN n ELSE node[m].parent
              /\ m # rnode => node'[m] = node[m]
  <2>1. node'[m] = IF m = rnode THEN [node[m] EXCEPT !.parent = n] ELSE node[m]
    BY <1>11
  <2>2. node[m] \in NodeRecs
    BY <1>1
  <2> QED
    BY <1>3, <2>1, <2>2 DEF NodeRecs
<1>12. node' \in [NodeIds -> NodeRecs]
  <2>1. node'[n] \in NodeRecs
    BY <1>3, <1>6, <1>9
  <2> HIDE DEF top
  <2>2. node' = [m \in NodeIds |-> node'[m]]
    OBVIOUS
  <2> QED
    BY <1>11, <2>1, <2>2
<1> HIDE DEF top
<1>13. retired' = retired
  BY DEF retired
<1>14. ASSUME rnode \in NodeIds
       PROVE  SlotsOK' /\ RootOK' /\ Shaped' /\ Unique' /\ Linked' /\ MapInv'
  <2>1. rnode \in live /\ rnode[2] = 0 /\ node[rnode].offset = 0
          /\ node[rnode].parent = NULL /\ \A m \in live : m[1] <= rnode[1]
    BY <1>14 DEF RadixInv, TreeInv, RootOK
  <2>2. node[rnode].shift = rnode[1] /\ rnode[1] \in Nat
    BY <1>14, <2>1, NodeNames DEF RadixInv, TreeInv, Shaped
  <2>3. rnode[1] + 1 = s /\ s > 0
    BY <1>14, <2>2 DEF RootShift, IsNode
  <2>4. Hangs(rnode, n, 0)
    BY <1>3, <2>1, <2>3, RadixTreeAssumption DEF Hangs
  <2>5. \A m \in live : m[1] \in Nat /\ m[1] < s
    BY <1>1, <2>1, <2>2, <2>3, NodeNames
  <2>6. SlotsOK'
    <3> SUFFICES ASSUME NEW m \in live', NEW t \in Slots
                 PROVE  SlotOK(m, t)'
      BY DEF SlotsOK
    <3>1. CASE m = n /\ t = 0
      <4>1. node'[m].slots[t] = rnode /\ node'[rnode].parent = n /\ node'[rnode].offset = 0
        BY <1>5, <1>7, <1>10, <1>11, <1>14, <2>1, <3>1
      <4> QED
        BY <1>3, <2>1, <2>3, <2>4, <3>1, <4>1 DEF SlotOK
    <3>2. CASE m = n /\ t # 0
      BY <1>7, <1>10, <3>2 DEF SlotOK
    <3>3. CASE m \in live
      <4>1. SlotOK(m, t) /\ node'[m].slots = node[m].slots
        BY <1>1, <1>3, <1>11, <3>3 DEF RadixInv, TreeInv, SlotsOK
      <4> DEFINE e == node[m].slots[t]
      <4>2. CASE e \in live /\ m[1] > 0
        <5>1. Hangs(e, m, t) /\ node[e].parent = m /\ node[e].offset = t
          BY <1>1, <4>1, <4>2, Kinds DEF SlotOK
        <5>2. e # rnode
          BY <2>1, <3>3, <5>1, <1>1, Kinds
        <5>3. node'[e].parent = m /\ node'[e].offset = t
          BY <1>1, <1>3, <1>11, <4>2, <5>1, <5>2
        <5>4. node'[m].slots[t] = e /\ e \in live'
          BY <4>1, <4>2
        <5> HIDE DEF e
        <5> QED
          BY <4>2, <5>1, <5>3, <5>4 DEF SlotOK
      <4>3. CASE ~(e \in live /\ m[1] > 0)
        BY <4>1, <4>3 DEF SlotOK
      <4> QED
        BY <4>2, <4>3
    <3> QED
      BY <3>1, <3>2, <3>3
  <2>7. RootOK'
    <3>1. \A m \in live : m[1] <= n[1]
      BY <1>3, <2>5
    <3>2. n[1] <= n[1]
      BY <1>3
    <3> QED
      BY <1>3, <1>10, <3>1, <3>2 DEF RootOK
  <2>8. Shaped'
    <3>1. \A m \in live \cup retired : node'[m].shift = m[1]
      BY <1>1, <1>3, <1>11 DEF RadixInv, TreeInv, Shaped
    <3> QED
      BY <1>3, <1>10, <1>13, <3>1 DEF Shaped
  <2>9. Unique'
    BY <1>3, <2>5 DEF RadixInv, TreeInv, Unique
  <2>10. Linked'
    <3>1. ASSUME NEW m \in live, m # rnode
          PROVE  /\ node'[m].parent # NULL /\ node'[m].parent \in live'
                 /\ node'[node'[m].parent].slots[node'[m].offset] = m
                 /\ node'[node'[m].parent].shift = node'[m].shift + 1
      <4>0. PICK q : q = node[m].parent
        OBVIOUS
      <4>1. q # NULL /\ q \in live /\ node[q].slots[node[m].offset] = m
              /\ node[q].shift = node[m].shift + 1
        BY <3>1, <4>0 DEF RadixInv, TreeInv, Linked
      <4>2. node'[m].parent = q /\ node'[m].offset = node[m].offset
              /\ node'[m].shift = node[m].shift
        BY <1>1, <1>3, <1>11, <3>1, <4>0
      <4>3. node'[q].slots = node[q].slots /\ node'[q].shift = node[q].shift
        BY <1>1, <1>3, <1>11, <4>1
      <4>4. q \in live'
        BY <4>1
      <4> QED
        BY <4>1, <4>2, <4>3, <4>4
    <3>2. /\ node'[rnode].parent = n /\ node'[rnode].offset = 0
          /\ node'[n].slots[0] = rnode /\ node'[n].shift = node'[rnode].shift + 1
      BY <1>5, <1>7, <1>10, <1>11, <1>14, <2>1, <2>2, <2>3
    <3>3. n # NULL /\ n \in live'
      BY <1>3, Kinds
    <3> SUFFICES ASSUME NEW m \in live'
                 PROVE  IF node'[m].parent = NULL THEN rnode' = m
                        ELSE /\ node'[m].parent \in live'
                             /\ node'[node'[m].parent].slots[node'[m].offset] = m
                             /\ node'[node'[m].parent].shift = node'[m].shift + 1
      BY DEF Linked
    <3>4. CASE m = n
      BY <1>10, <3>4
    <3>5. CASE m = rnode
      BY <3>2, <3>3, <3>5
    <3>6. CASE m \in live /\ m # rnode
      BY <3>1, <3>6
    <3> QED
      BY <3>4, <3>5, <3>6
  <2>11. ASSUME NEW j \in Keys, Under(rnode, j)
         PROVE  Under(n, j) /\ Offset(j, n[1]) = 0
    BY <1>3, <1>14, <2>4, <2>11, UnderParent, Kinds
  <2>12. ASSUME NEW j \in Keys, node'[n].slots[Offset(j, n[1])] = NULL
         PROVE  map[j] = NULL
    <3>1. Offset(j, n[1]) # 0
      BY <1>7, <1>10, <2>12
    <3>2. ~Under(rnode, j)
      BY <2>11, <3>1
    <3> QED
      BY <1>14, <3>2 DEF RadixInv, MapInv, RootExact
  <2>13. \A m \in live : node'[m].slots = node[m].slots
    BY <1>1, <1>3, <1>11
  <2>14. LeafExact' /\ Absent'
    BY <1>3, <2>3, <2>12, <2>13 DEF RadixInv, MapInv, LeafExact, Absent, Entry
  <2>15. RootExact'
    BY <1>3, <1>14, <2>11 DEF RadixInv, MapInv, RootExact
  <2> QED
    BY <2>6, <2>7, <2>8, <2>9, <2>10, <2>14, <2>15 DEF MapInv
<1>15. ASSUME rnode \notin NodeIds
       PROVE  SlotsOK' /\ RootOK' /\ Shaped' /\ Unique' /\ Linked' /\ MapInv'
  <2>1. live = {} /\ rnode \in Items /\ live' = {n}
    BY <1>1, <1>15, Kinds DEF RadixInv, TreeInv, RootOK
  <2>2. s = 0
    BY <1>15 DEF RootShift, IsNode
  <2>3. SlotsOK' /\ RootOK' /\ Unique' /\ Linked'
    BY <1>3, <1>7, <1>10, <2>1, <2>2, NodeNames
       DEF SlotsOK, SlotOK, RootOK, Unique, Linked
  <2>4. Shaped'
    BY <1>1, <1>3, <1>10, <1>11, <1>13, <2>1 DEF RadixInv, TreeInv, Shaped
  <2>5. ASSUME NEW j \in Keys
        PROVE  map[j] = IF j = 0 THEN rnode ELSE NULL
    BY <1>15 DEF RadixInv, MapInv, RootExact
  <2>6. ASSUME NEW j \in Keys, Under(n, j)
        PROVE  node'[n].slots[Offset(j, n[1])] = map[j]
    <3>1. Offset(j, 0) \in Slots /\ j \in Nat
      BY OffsetStep, Kinds, <2>2
    <3>2. Offset(j, 0) = 0 => j = 0
      BY <1>2, <1>3, <1>4, <2>2, <2>6, <3>1, LeafIndex
    <3>3. j = 0 => Offset(j, 0) = 0
      BY <1>4, <2>2
    <3> QED
      BY <1>3, <1>7, <1>10, <2>2, <2>5, <3>1, <3>2, <3>3
  <2>7. MapInv'
    BY <1>3, <1>4, <2>1, <2>5, <2>6 DEF MapInv, LeafExact, Absent, RootExact, Entry
  <2> QED
    BY <2>3, <2>4, <2>7 DEF MapInv
<1>16. CountExact'
  <2>1. \A m \in live : node'[m].count = Cardinality(Used(node'[m].slots))
    BY <1>1, <1>3, <1>11, CountUsed DEF RadixInv, TreeInv
  <2> QED
    BY <1>8, <1>10, <2>1, CountUsedNext
<1>17. GraceInv' /\ ReaderInv'
  <2>1. \A m \in retired : m # rnode
    BY <1>1 DEF RadixInv, TreeInv, RootOK
  <2>2. \A m \in retired : node'[m] = node[m]
    BY <1>1, <1>3, <1>11, <2>1
  <2> QED
    BY <2>2, NodeAdded
<1> QED
  BY <1>1, <1>3, <1>10, <1>11, <1>12, <1>14, <1>15, <1>16, <1>17 DEF TreeInv

----------------------------------------------------------------------------
(* Nodes that leave the tree.                                              *)

\* What call_rcu() keeps of a node, and of the nodes that wait already.
LEMMA RetireHeap ==
  ASSUME Types, HeldByReadersOnly, NEW n \in live,
         NEW nodes \in [NodeIds -> NodeRecs], Retire(nodes, n)
  PROVE  /\ node' \in [NodeIds -> NodeRecs] /\ live' = live \ {n}
         /\ retired' \subseteq NodeIds \ live'
         /\ grace' \in [retired' -> SUBSET Readers]
         /\ \A m \in NodeIds : m # n => node'[m] = nodes[m]
         /\ retired' \subseteq retired \cup {n}
         /\ \A m \in retired : m \in retired' /\ grace'[m] = grace[m]
         /\ n \in retired' => node'[n] = nodes[n] /\ grace'[n] = Awaited /\ Awaited # {}
         /\ n \notin retired' => Awaited = {}
<1>1. /\ live \subseteq NodeIds /\ retired \subseteq NodeIds \ live
      /\ grace \in [retired -> SUBSET Readers] /\ n \in NodeIds /\ n \notin retired
  BY DEF Types
<1>2. CASE Awaited = {}
  <2>1. live' = live \ {n} /\ node' = Cleared(nodes, {n}) /\ grace' = grace
    BY <1>2 DEF Retire
  <2>2. retired' = retired
    BY <2>1 DEF retired
  <2>3. \A m \in NodeIds : node'[m] = IF m = n THEN Blank ELSE nodes[m]
    BY <2>1 DEF Cleared
  <2>4. node' \in [NodeIds -> NodeRecs]
    <3>1. node' = [m \in NodeIds |-> node'[m]]
      BY <2>1 DEF Cleared
    <3>2. \A m \in NodeIds : node'[m] \in NodeRecs
      BY <2>3, BlankNode
    <3> QED
      BY <3>1, <3>2
  <2>5. retired' \subseteq NodeIds \ live' /\ grace' \in [retired' -> SUBSET Readers]
    BY <1>1, <2>1, <2>2
  <2> QED
    BY <1>1, <1>2, <2>1, <2>2, <2>3, <2>4, <2>5
<1>3. CASE Awaited # {}
  <2>1. live' = live \ {n} /\ node' = nodes
          /\ grace' = [m \in retired \cup {n} |-> IF m = n THEN Awaited ELSE grace[m]]
    BY <1>3 DEF Retire
  <2>2. retired' = retired \cup {n}
    BY <2>1 DEF retired
  <2>3. Awaited \in SUBSET Readers
    BY DEF Awaited
  <2>4. grace' \in [retired' -> SUBSET Readers]
    BY <1>1, <2>1, <2>2, <2>3
  <2>5. retired' \subseteq NodeIds \ live'
    BY <1>1, <2>1, <2>2
  <2> QED
    BY <1>1, <1>3, <2>1, <2>2, <2>4, <2>5
<1> QED
  BY <1>2, <1>3

\* A node handed to call_rcu() keeps its slots: readers in it go on to nodes
\* that stay, and those that miss their index there saw it missing.
LEMMA NodeRetired ==
  ASSUME RadixInv, NEW n \in live, NEW nodes \in [NodeIds -> NodeRecs],
         Retire(nodes, n), rd' = rd, map' = map,
         \A m \in retired : nodes[m] = node[m],
         nodes[n].slots = node[n].slots,
         n[1] > 0 \/ \A s \in Slots : node[n].slots[s] = NULL
  PROVE  GraceInv' /\ ReaderInv'
<1>1. /\ live' = live \ {n}
      /\ \A m \in NodeIds : m # n => node'[m] = nodes[m]
      /\ retired' \subseteq retired \cup {n}
      /\ \A m \in retired : m \in retired' /\ grace'[m] = grace[m]
      /\ n \in retired' => node'[n] = nodes[n] /\ grace'[n] = Awaited /\ Awaited # {}
      /\ n \notin retired' => Awaited = {}
      /\ grace' \in [retired' -> SUBSET Readers]
  BY RetireHeap DEF RadixInv, GraceInv
<1>2. /\ live \subseteq NodeIds /\ retired \subseteq NodeIds \ live /\ n \in NodeIds
      /\ \A m \in retired : grace[m] # {} /\ grace[m] \subseteq Awaited
  BY DEF RadixInv, Types, GraceInv, HeldByReadersOnly
<1>3. Awaited' = Awaited
  BY DEF Awaited
<1>4. \A m \in retired : node'[m].slots = node[m].slots
  BY <1>1, <1>2
<1>5. ASSUME NEW m \in retired', NEW s \in Slots
      PROVE  KeptSlot(m, s)'
  <2>1. CASE m \in retired
    <3> DEFINE e == node[m].slots[s]
    <3>1. KeptSlot(m, s) /\ node'[m].slots[s] = e /\ grace'[m] = grace[m]
      BY <1>1, <1>4, <2>1 DEF RadixInv, GraceInv, RetiredOK
    <3>2. CASE e = n
      <4>1. n \in retired' /\ grace'[m] \subseteq grace'[n]
        BY <1>1, <1>2, <2>1, <3>1
      <4>2. m[1] > 0 /\ Hangs(n, m, s)
        BY <1>2, <3>1, <3>2, Kinds DEF KeptSlot
      <4> QED
        BY <3>1, <3>2, <4>1, <4>2 DEF KeptSlot
    <3>3. CASE e # n
      BY <1>1, <3>1, <3>3 DEF KeptSlot
    <3> QED
      BY <3>2, <3>3
  <2>2. CASE m = n
    <3> DEFINE e == node[n].slots[s]
    <3>1. node'[m].slots[s] = e
      BY <1>1, <2>2
    <3>2. SlotOK(n, s)
      BY DEF RadixInv, TreeInv, SlotsOK
    <3>3. CASE e = NULL
      BY <3>1, <3>3 DEF KeptSlot
    <3>4. CASE e # NULL
      <4>1. n[1] > 0 /\ n[1] \in Nat
        BY <1>2, <3>4, NodeNames
      <4>2. e \in live /\ Hangs(e, n, s)
        BY <3>2, <3>4, <4>1 DEF SlotOK
      <4>3. e # n
        <5>1. e[1] + 1 = n[1]
          BY <4>2 DEF Hangs
        <5> QED
          BY <4>1, <5>1
      <4>4. e \notin retired'
        BY <1>1, <1>2, <4>2, <4>3
      <4> QED
        BY <1>1, <2>2, <3>1, <4>1, <4>2, <4>3, <4>4 DEF KeptSlot
    <3> QED
      BY <3>3, <3>4
  <2> QED
    BY <1>1, <2>1, <2>2
<1>6. RetiredOK'
  BY <1>5 DEF RetiredOK
<1>7. HeldByReadersOnly'
  BY <1>1, <1>2, <1>3 DEF HeldByReadersOnly
<1>8. SeenOK' /\ LookupLinearizable'
  BY DEF RadixInv, ReaderInv, SeenOK, LookupLinearizable
<1>9. ASSUME NEW m \in retired' \ retired, NEW r \in grace'[m], rd[r].pc # "iterate",
             Under(m, rd[r].index), node'[m].slots[Offset(rd[r].index, m[1])] = NULL
      PROVE  NULL \in rd[r].seen
  <2>1. m = n /\ r \in Awaited /\ node'[n].slots = node[n].slots
    BY <1>1, <1>9
  <2>2. rd[r].index \in Keys /\ map[rd[r].index] \in rd[r].seen
    BY <1>9, <2>1 DEF Awaited, RadixInv, ReaderInv, SeenOK
  <2>3. map[rd[r].index] = NULL
    BY <1>9, <2>1, <2>2 DEF RadixInv, MapInv, Absent, Entry
  <2> QED
    BY <2>2, <2>3
<1>10. DescendOK' /\ MissedOK'
  <2>1. \A m \in live : \A r \in Awaited : Held(r, m)'
    BY <1>1 DEF Held
  <2>2. \A m \in retired' \ retired : \A r \in grace'[m] :
          rd[r].pc # "iterate" /\ Under(m, rd[r].index)
          /\ node'[m].slots[Offset(rd[r].index, m[1])] = NULL
            => NULL \in rd[r].seen
    BY <1>9
  <2>3. \A m \in retired' : grace'[m] \subseteq Readers
    BY <1>1
  <2>4. DescendOK /\ MissedOK
    BY DEF RadixInv, ReaderInv
  <2>5. \A m \in retired : m \in retired' /\ grace'[m] = grace[m]
    BY <1>1
  <2> QED
    BY <1>4, <2>1, <2>2, <2>3, <2>4, <2>5, PlacesKept
<1> QED
  BY <1>6, <1>7, <1>8, <1>10 DEF GraceInv, ReaderInv

\* delete_node takes the empty root out: the tree is empty.
LEMMA UnlinkedRoot ==
  ASSUME RadixInv, NEW n \in live, node[n].count = 0, node[n].parent = NULL,
         rnode' = NULL, Retire(node, n), rd' = rd, map' = map
  PROVE  TreeInv' /\ MapInv' /\ GraceInv' /\ ReaderInv' /\ HeapTypes' /\ live' = {}
<1>1. /\ node \in [NodeIds -> NodeRecs] /\ live \subseteq NodeIds
      /\ retired \subseteq NodeIds \ live
  BY DEF RadixInv, Types
<1>2. rnode = n
  BY DEF RadixInv, TreeInv, Linked
<1>3. \A s \in Slots : node[n].slots[s] = NULL
  <2>1. node[n].count = Cardinality(Used(node[n].slots))
    BY CountUsed DEF RadixInv, TreeInv
  <2>2. node[n].slots \in [Slots -> Entries]
    BY <1>1 DEF NodeRecs
  <2> QED
    BY <2>1, <2>2, CountSmall
<1>4. live = {n}
  BY <1>1, <1>2, <1>3, RootAlone DEF RadixInv
<1>5. /\ live' = live \ {n} /\ \A m \in NodeIds : m # n => node'[m] = node[m]
      /\ retired' \subseteq retired \cup {n}
      /\ n \in retired' => node'[n] = node[n]
  BY <1>1, RetireHeap DEF RadixInv, GraceInv
<1>6. live' = {}
  BY <1>4, <1>5
<1>h. HeapTypes'
  BY <1>1, <1>6, RetireHeap DEF HeapTypes, RadixInv, GraceInv
<1>7. Shaped'
  <2>1. \A m \in retired' : node'[m].shift = m[1]
    BY <1>1, <1>5 DEF RadixInv, TreeInv, Shaped
  <2> QED
    BY <1>6, <2>1 DEF Shaped
<1>8. SlotsOK' /\ RootOK' /\ Unique' /\ Linked' /\ CountExact'
  BY <1>6, Kinds DEF SlotsOK, RootOK, Unique, Linked, CountExact
<1>9. ASSUME NEW i \in Keys
      PROVE  map[i] = NULL
  <2>1. n[1] \in 0 .. TopShift
    BY <1>1, NodeNames
  <2>2. Offset(i, n[1]) \in Slots
    BY <2>1, OffsetStep, Kinds
  <2>3. Entry(n, i) = NULL
    BY <1>3, <2>2 DEF Entry
  <2> QED
    BY <1>1, <1>2, <2>3 DEF RadixInv, MapInv, Absent, RootExact
<1>10. MapInv'
  BY <1>6, <1>9, Kinds DEF MapInv, LeafExact, Absent, RootExact
<1>11. GraceInv' /\ ReaderInv'
  BY <1>1, <1>3, NodeRetired
<1> QED
  BY <1>6, <1>7, <1>8, <1>10, <1>11, <1>h DEF TreeInv

\* delete_node takes an empty node n out of the slot of its parent.
LEMMA UnlinkedChild ==
  ASSUME RadixInv, NEW n \in live, node[n].count = 0, node[n].parent # NULL,
         Retire([node EXCEPT ![node[n].parent].slots[node[n].offset] = NULL,
                             ![node[n].parent].count = (@ - 1) % UINT], n),
         rnode' = rnode, rd' = rd, map' = map
  PROVE  /\ TreeInv' /\ MapInv' /\ GraceInv' /\ ReaderInv' /\ HeapTypes'
         /\ live' = live \ {n} /\ node[n].parent \in live'
         /\ \A m \in live' : m # node[n].parent => node'[m] = node[m]
<1>1. /\ node \in [NodeIds -> NodeRecs] /\ live \subseteq NodeIds /\ n \in NodeIds
      /\ retired \subseteq NodeIds \ live
  BY DEF RadixInv, Types
<1>2. n # rnode
  BY <1>1 DEF RadixInv, TreeInv, RootOK
<1>3. PICK p \in live, s \in Slots :
        /\ p[1] = n[1] + 1 /\ node[p].slots[s] = n /\ Hangs(n, p, s)
        /\ node[n].parent = p /\ node[n].offset = s
  BY <1>2, ParentOf DEF RadixInv
<1>4. p \in NodeIds /\ p[1] \in 0 .. TopShift /\ n[1] \in 0 .. TopShift /\ p # n /\ p[1] > 0
  BY <1>1, <1>3, NodeNames
<1>5. \A t \in Slots : node[n].slots[t] = NULL
  <2>1. node[n].count = Cardinality(Used(node[n].slots))
    BY CountUsed DEF RadixInv, TreeInv
  <2>2. node[n].slots \in [Slots -> Entries]
    BY <1>1 DEF NodeRecs
  <2> QED
    BY <2>1, <2>2, CountSmall
<1> DEFINE slots == node[p].slots
           rec == [shift |-> node[p].shift, offset |-> node[p].offset,
                   count |-> (node[p].count - 1) % UINT, parent |-> node[p].parent,
                   slots |-> [slots EXCEPT ![s] = NULL]]
           nodes == [node EXCEPT ![p] = rec]
<1>6. slots \in [Slots -> Entries] /\ node[p].count = Cardinality(Used(slots))
  BY <1>1, <1>4, CountUsed DEF NodeRecs, RadixInv, TreeInv
<1>n. n # NULL /\ NULL \in Entries
  BY <1>1, Kinds DEF Entries
<1>7. /\ Cardinality(Used([slots EXCEPT ![s] = NULL])) = Cardinality(Used(slots)) + (-1)
      /\ (Cardinality(Used(slots)) + (-1)) % UINT = Cardinality(Used(slots)) + (-1)
  <2>1. -1 = (IF NULL # NULL THEN 1 ELSE 0) - (IF slots[s] # NULL THEN 1 ELSE 0)
    BY <1>3, <1>n
  <2> HIDE DEF slots
  <2> QED
    BY <1>6, <1>n, <2>1, CountStored
<1>8. /\ rec \in NodeRecs /\ rec.count = Cardinality(Used(rec.slots))
      /\ rec.slots = [slots EXCEPT ![s] = NULL]
      /\ rec.shift = node[p].shift /\ rec.offset = node[p].offset
      /\ rec.parent = node[p].parent
  <2>1. [slots EXCEPT ![s] = NULL] \in [Slots -> Entries]
    BY <1>6, <1>n
  <2>2. Cardinality(Used([slots EXCEPT ![s] = NULL])) \in 0 .. UINT - 1
    BY <2>1, CountSmall
  <2>3. Cardinality(Used(slots)) - 1 = Cardinality(Used(slots)) + (-1)
    <3>1. Cardinality(Used(slots)) \in Nat
      BY <1>1, <1>4, <1>6 DEF NodeRecs
    <3> QED
      BY <3>1
  <2>4. (node[p].count - 1) % UINT = Cardinality(Used([slots EXCEPT ![s] = NULL]))
    BY <1>6, <1>7, <2>3
  <2>5. node[p] \in NodeRecs
    BY <1>1, <1>4
  <2> QED
    BY <2>1, <2>2, <2>4, <2>5 DEF NodeRecs
<1>9. Retire(nodes, n)
  <2>1. [node EXCEPT ![p].slots[s] = NULL, ![p].count = (@ - 1) % UINT] = nodes
    <3>1. node[p] \in NodeRecs
      BY <1>1, <1>4
    <3>2. PICK y : y = [[node[p] EXCEPT !.slots[s] = NULL] EXCEPT !.count = (@ - 1) % UINT]
      OBVIOUS
    <3>3. y = rec
      BY <3>1, <3>2 DEF NodeRecs
    <3>4. [node EXCEPT ![p].slots[s] = NULL, ![p].count = (@ - 1) % UINT] = [node EXCEPT ![p] = y]
      BY <1>1, <1>4, <3>2
    <3> QED
      BY <3>3, <3>4
  <2> QED
    BY <1>3, <2>1
<1> HIDE DEF rec
<1>10. nodes \in [NodeIds -> NodeRecs] /\ nodes[p] = rec
         /\ \A m \in NodeIds : m # p => nodes[m] = node[m]
  BY <1>1, <1>4, <1>8
<1> HIDE DEF nodes
<1>11. /\ live' = live \ {n} /\ \A m \in NodeIds : m # n => node'[m] = nodes[m]
       /\ retired' \subseteq retired \cup {n}
       /\ n \in retired' => node'[n] = nodes[n]
  BY <1>9, <1>10, RetireHeap DEF RadixInv, GraceInv
<1>h. HeapTypes'
  <2>1. live' \subseteq NodeIds
    BY <1>1, <1>11
  <2> QED
    BY <1>9, <1>10, <2>1, RetireHeap DEF HeapTypes, RadixInv, GraceInv
<1>12. node'[p] = rec /\ \A m \in NodeIds : m # n /\ m # p => node'[m] = node[m]
  BY <1>4, <1>10, <1>11
<1>13. \A m \in live' : /\ node'[m].shift = node[m].shift /\ node'[m].offset = node[m].offset
                        /\ node'[m].parent = node[m].parent
                        /\ node'[m].count = Cardinality(Used(node'[m].slots))
  BY <1>1, <1>8, <1>11, <1>12, CountUsed DEF RadixInv, TreeInv
<1>14. \A m \in live' : \A t \in Slots :
         node'[m].slots[t] = IF m = p /\ t = s THEN NULL ELSE node[m].slots[t]
  BY <1>1, <1>6, <1>8, <1>11, <1>12
<1>15. SlotsOK'
  <2> SUFFICES ASSUME NEW m \in live', NEW t \in Slots
               PROVE  SlotOK(m, t)'
    BY DEF SlotsOK
  <2> DEFINE e == node[m].slots[t]
  <2>1. SlotOK(m, t) /\ m \in live
    BY <1>11 DEF RadixInv, TreeInv, SlotsOK
  <2>2. CASE m = p /\ t = s
    BY <1>14, <2>2 DEF SlotOK
  <2>3. CASE ~(m = p /\ t = s)
    <3>1. node'[m].slots[t] = e
      BY <1>14, <2>3
    <3>2. CASE m[1] > 0 /\ e \in live
      <4>1. Hangs(e, m, t) /\ node[e].parent = m /\ node[e].offset = t
        BY <1>1, <2>1, <3>2, Kinds, NodeNames DEF SlotOK
      <4>2. e # n
        BY <1>3, <2>3, <4>1
      <4> QED
        BY <1>11, <1>13, <3>1, <3>2, <4>1, <4>2 DEF SlotOK
    <3>3. CASE ~(m[1] > 0 /\ e \in live)
      BY <2>1, <3>1, <3>3 DEF SlotOK
    <3> QED
      BY <3>2, <3>3
  <2> QED
    BY <2>2, <2>3
<1>16. RootOK'
  <2>1. rnode \in NodeIds /\ rnode \in live
    BY DEF RadixInv, TreeInv, RootOK
  <2>2. rnode \in live'
    BY <1>2, <1>11, <2>1
  <2> QED
    BY <1>11, <1>13, <2>1, <2>2 DEF RadixInv, TreeInv, RootOK
<1>17. Shaped'
  <2>1. \A m \in live' : node'[m].shift = m[1]
    BY <1>11, <1>13 DEF RadixInv, TreeInv, Shaped
  <2>2. \A m \in retired' : node'[m] = node[m] /\ node[m].shift = m[1]
    BY <1>1, <1>3, <1>4, <1>10, <1>11, <1>12 DEF RadixInv, TreeInv, Shaped
  <2> QED
    BY <2>1, <2>2 DEF Shaped
<1>18. Unique' /\ CountExact'
  <2>1. Unique'
    BY <1>11 DEF RadixInv, TreeInv, Unique
  <2> QED
    BY <1>13, <2>1, CountUsedNext
<1>19. Linked'
  <2> SUFFICES ASSUME NEW m \in live'
               PROVE  IF node[m].parent = NULL THEN rnode' = m
                      ELSE /\ node[m].parent \in live'
                           /\ node'[node[m].parent].slots[node[m].offset] = m
                           /\ node'[node[m].parent].shift = node[m].shift + 1
    BY <1>13 DEF Linked
  <2> DEFINE q == node[m].parent
             t == node[m].offset
  <2>1. /\ m \in live /\ m # n /\ t \in Slots /\ m # NULL
        /\ IF q = NULL THEN rnode = m
           ELSE q \in live /\ node[q].slots[t] = m /\ node[q].shift = node[m].shift + 1
    BY <1>1, <1>11, Kinds DEF RadixInv, TreeInv, Linked, NodeRecs
  <2>2. CASE q # NULL
    <3>1. q # n
      BY <1>5, <2>1, <2>2
    <3>2. ~(q = p /\ t = s)
      BY <1>3, <2>1, <2>2
    <3>3. q \in live'
      BY <1>11, <2>1, <2>2, <3>1
    <3> QED
      BY <1>13, <1>14, <2>1, <2>2, <3>2, <3>3
  <2>3. CASE q = NULL
    BY <2>1, <2>3
  <2> QED
    BY <2>2, <2>3
<1>20. ASSUME NEW m \in live', NEW j \in Keys, Under(m, j)
       PROVE  /\ m[1] = 0 => Entry(m, j)' = Entry(m, j)
              /\ Entry(m, j)' = NULL => map[j] = NULL
  <2>1. j \in Nat /\ m \in live /\ m[1] \in 0 .. TopShift
    BY <1>1, <1>11, Kinds, NodeNames
  <2>2. Offset(j, m[1]) \in Slots
    BY <2>1, OffsetStep
  <2>3. CASE m = p /\ Offset(j, p[1]) = s
    <3>1. Under(n, j)
      BY <1>1, <1>3, <1>4, <1>20, <2>1, <2>3, UnderChild
    <3>2. Offset(j, n[1]) \in Slots
      BY <1>4, <2>1, OffsetStep
    <3>3. Entry(n, j) = NULL
      BY <1>5, <3>2 DEF Entry
    <3>4. map[j] = NULL
      BY <3>1, <3>3 DEF RadixInv, MapInv, Absent
    <3> QED
      BY <1>4, <2>3, <3>4
  <2>4. CASE ~(m = p /\ Offset(j, p[1]) = s)
    <3>1. Entry(m, j)' = Entry(m, j)
      BY <1>14, <2>2, <2>4 DEF Entry
    <3> QED
      BY <1>20, <2>1, <3>1 DEF RadixInv, MapInv, Absent
  <2> QED
    BY <2>3, <2>4
<1>21. MapInv'
  <2>1. LeafExact'
    BY <1>11, <1>20 DEF RadixInv, MapInv, LeafExact
  <2>2. Absent'
    BY <1>20 DEF Absent
  <2>3. RootExact'
    BY DEF RadixInv, MapInv, RootExact
  <2> QED
    BY <2>1, <2>2, <2>3 DEF MapInv
<1>22. GraceInv' /\ ReaderInv'
  <2>1. \A m \in retired : nodes[m] = node[m]
    BY <1>1, <1>10
  <2>2. nodes[n] = node[n]
    BY <1>1, <1>4, <1>10
  <2> QED
    BY <1>5, <1>9, <1>10, <2>1, <2>2, NodeRetired
<1> QED
  BY <1>1, <1>3, <1>4, <1>11, <1>12, <1>15, <1>16, <1>17, <1>18, <1>19, <1>21, <1>22,
     <1>h DEF TreeInv

\* radix_tree_shrink makes the only child of the root the root.
LEMMA Shrunk ==
  ASSUME RadixInv, CanShrink, rnode' = node[rnode].slots[0],
         Retire(Discarded(Orphaned(node[rnode].slots[0]), rnode), rnode),
         rd' = rd, map' = map
  PROVE  /\ TreeInv' /\ MapInv' /\ GraceInv' /\ ReaderInv' /\ HeapTypes'
         /\ rnode' \in live' /\ live' \subseteq live
         /\ \A m \in live' : node'[m].count = node[m].count
<1> DEFINE n == rnode
           c == node[rnode].slots[0]
<1>1. /\ n \in NodeIds /\ n \in live /\ n[2] = 0 /\ node[n].parent = NULL
      /\ \A m \in live : m[1] <= n[1]
  BY DEF CanShrink, IsNode, RadixInv, TreeInv, RootOK
<1>2. /\ node \in [NodeIds -> NodeRecs] /\ live \subseteq NodeIds
      /\ retired \subseteq NodeIds \ live
  BY DEF RadixInv, Types
<1>3. n[1] \in 0 .. TopShift /\ n[1] > 0 /\ 0 \in Slots /\ MAP_SIZE \in Nat
  <2>1. n[1] \in 0 .. TopShift /\ node[n].shift = n[1]
    BY <1>1, NodeNames DEF RadixInv, TreeInv, Shaped
  <2> QED
    BY <2>1, Kinds, RadixTreeAssumption DEF CanShrink
<1>4. c # NULL /\ c \in live /\ Hangs(c, n, 0) /\ node[c].parent = n /\ node[c].offset = 0
  <2>1. SlotOK(n, 0)
    BY <1>1, <1>3 DEF RadixInv, TreeInv, SlotsOK
  <2> QED
    BY <1>3, <2>1 DEF CanShrink, SlotOK
<1>5. c \in NodeIds /\ c # n /\ c[1] \in Nat /\ c[1] + 1 = n[1] /\ c[2] = 0
  <2>1. c \in NodeIds /\ c[1] \in Nat
    BY <1>2, <1>4, NodeNames
  <2>2. c[1] + 1 = n[1] /\ c[2] = n[2] * MAP_SIZE + 0
    BY <1>4 DEF Hangs
  <2>3. 0 * MAP_SIZE + 0 = 0
    BY <1>3
  <2> QED
    BY <1>1, <2>1, <2>2, <2>3
<1>6. \A t \in Slots \ {0} : node[n].slots[t] = NULL
  <2>1. Cardinality(Used(node[n].slots)) = 1
    BY <1>1, CountUsed DEF RadixInv, TreeInv, CanShrink
  <2>2. node[n].slots \in [Slots -> Entries]
    BY <1>1, <1>2 DEF NodeRecs
  <2> QED
    BY <1>3, <1>4, <2>1, <2>2, CountSmall
<1> DEFINE nodes == Discarded(Orphaned(c), n)
<1> HIDE DEF n, c
<1>7. /\ nodes \in [NodeIds -> NodeRecs]
      /\ \A m \in NodeIds : m # n /\ m # c => nodes[m] = node[m]
      /\ nodes[n].slots = node[n].slots /\ nodes[n].shift = node[n].shift
      /\ nodes[c].slots = node[c].slots /\ nodes[c].shift = node[c].shift
      /\ nodes[c].offset = node[c].offset /\ nodes[c].count = node[c].count
      /\ nodes[c].parent = NULL
  <2> DEFINE mid == [node EXCEPT ![c].parent = NULL]
  <2>1. nodes = [mid EXCEPT ![n].count = 0]
    BY <1>5 DEF Discarded, Orphaned, IsNode
  <2>2. node[c] \in NodeRecs /\ node[n] \in NodeRecs
    BY <1>1, <1>2, <1>5
  <2>3. PICK y : y = [node[c] EXCEPT !.parent = NULL]
    OBVIOUS
  <2>4. y \in NodeRecs /\ y.slots = node[c].slots /\ y.shift = node[c].shift
          /\ y.offset = node[c].offset /\ y.count = node[c].count /\ y.parent = NULL
    BY <2>2, <2>3 DEF NodeRecs
  <2>5. mid \in [NodeIds -> NodeRecs] /\ mid[c] = y
          /\ \A m \in NodeIds : m # c => mid[m] = node[m]
    BY <1>2, <1>5, <2>3, <2>4
  <2> HIDE DEF mid, nodes
  <2>6. PICK z : z = [node[n] EXCEPT !.count = 0]
    OBVIOUS
  <2>7. z \in NodeRecs /\ z.slots = node[n].slots /\ z.shift = node[n].shift
    <3>1. 0 \in 0 .. UINT - 1
      BY RadixTreeAssumption
    <3> QED
      BY <2>2, <2>6, <3>1 DEF NodeRecs
  <2>8. nodes \in [NodeIds -> NodeRecs] /\ nodes[n] = z
          /\ \A m \in NodeIds : m # n => nodes[m] = mid[m]
    BY <1>1, <1>5, <2>1, <2>5, <2>6, <2>7
  <2> QED
    BY <1>5, <2>4, <2>5, <2>7, <2>8
<1>8. Retire(nodes, n) /\ rnode' = c /\ rnode = n
  BY DEF n, c
<1>h. HeapTypes'
  <2>1. live' \subseteq NodeIds
    BY <1>1, <1>2, <1>7, <1>8, RetireHeap DEF RadixInv, GraceInv
  <2> QED
    BY <1>1, <1>7, <1>8, <2>1, RetireHeap DEF HeapTypes, RadixInv, GraceInv
<1> HIDE DEF nodes
<1>9. /\ live' = live \ {n} /\ \A m \in NodeIds : m # n => node'[m] = nodes[m]
      /\ retired' \subseteq retired \cup {n}
      /\ n \in retired' => node'[n] = nodes[n]
  BY <1>1, <1>7, <1>8, RetireHeap DEF RadixInv, GraceInv
<1>10. c \in live' /\ n \notin live'
  BY <1>4, <1>5, <1>9
<1>11. \A m \in live' : /\ node'[m].shift = node[m].shift /\ node'[m].offset = node[m].offset
                        /\ node'[m].slots = node[m].slots /\ node'[m].count = node[m].count
                        /\ node'[m].parent = IF m = c THEN NULL ELSE node[m].parent
  BY <1>2, <1>7, <1>9
<1>12. SlotsOK'
  <2> SUFFICES ASSUME NEW m \in live', NEW t \in Slots
               PROVE  SlotOK(m, t)'
    BY DEF SlotsOK
  <2> DEFINE e == node[m].slots[t]
  <2>1. SlotOK(m, t) /\ m \in live /\ m # n /\ node'[m].slots[t] = e
    BY <1>9, <1>11 DEF RadixInv, TreeInv, SlotsOK
  <2>2. CASE m[1] > 0 /\ e \in live
    <3>1. Hangs(e, m, t) /\ node[e].parent = m /\ node[e].offset = t
      BY <1>2, <2>1, <2>2, Kinds, NodeNames DEF SlotOK
    <3>2. e # n /\ e # c
      BY <1>1, <1>2, <1>4, <2>1, <3>1, Kinds
    <3> QED
      BY <1>9, <1>11, <2>1, <2>2, <3>1, <3>2 DEF SlotOK
  <2>3. CASE ~(m[1] > 0 /\ e \in live)
    BY <2>1, <2>3 DEF SlotOK
  <2> QED
    BY <2>2, <2>3
<1>13. ASSUME NEW m \in live, m # n
       PROVE  \E q \in live : \E t \in Slots :
                q[1] = m[1] + 1 /\ node[q].slots[t] = m /\ node[m].parent = q
                  /\ node[m].offset = t
  BY <1>8, <1>13, ParentOf DEF RadixInv
<1>14. RootOK'
  <2>1. ASSUME NEW m \in live'
        PROVE  m[1] <= c[1]
    <3>1. m \in live /\ m # n /\ m[1] \in Nat
      BY <1>2, <1>9, NodeNames
    <3>2. PICK q \in live : q[1] = m[1] + 1
      BY <1>13, <3>1
    <3>3. q[1] <= n[1]
      BY <1>1
    <3> QED
      BY <1>5, <3>1, <3>2, <3>3
  <2> QED
    BY <1>4, <1>5, <1>8, <1>10, <1>11, <2>1 DEF RootOK
<1>15. Shaped'
  <2>1. \A m \in live' : node'[m].shift = m[1]
    BY <1>9, <1>11 DEF RadixInv, TreeInv, Shaped
  <2>2. \A m \in retired : m # n /\ m # c /\ node'[m] = node[m] /\ node[m].shift = m[1]
    BY <1>1, <1>2, <1>4, <1>7, <1>9 DEF RadixInv, TreeInv, Shaped
  <2>3. n \in retired' => node'[n].shift = n[1]
    BY <1>1, <1>7, <1>9 DEF RadixInv, TreeInv, Shaped
  <2> QED
    BY <1>9, <2>1, <2>2, <2>3 DEF Shaped
<1>16. Unique' /\ CountExact'
  <2>1. Unique'
    BY <1>9 DEF RadixInv, TreeInv, Unique
  <2>2. \A m \in live' : node'[m].count = Cardinality(Used(node'[m].slots))
    BY <1>9, <1>11, CountUsed DEF RadixInv, TreeInv
  <2> QED
    BY <2>1, <2>2, CountUsedNext
<1>17. Linked'
  <2> SUFFICES ASSUME NEW m \in live'
               PROVE  IF node'[m].parent = NULL THEN rnode' = m
                      ELSE /\ node'[m].parent \in live'
                           /\ node'[node'[m].parent].slots[node'[m].offset] = m
                           /\ node'[node'[m].parent].shift = node'[m].shift + 1
    BY DEF Linked
  <2>1. CASE m = c
    BY <1>8, <1>10, <1>11, <2>1
  <2>2. CASE m # c
    <3>1. m \in live /\ m # n /\ m # NULL
      BY <1>2, <1>9, Kinds
    <3>2. PICK q \in live, t \in Slots :
            node[q].slots[t] = m /\ node[m].parent = q /\ node[m].offset = t
      BY <1>13, <3>1
    <3>3. q # n
      <4> SUFFICES ASSUME q = n PROVE FALSE
        OBVIOUS
      <4>1. t = 0
        BY <1>6, <3>1, <3>2
      <4> QED
        BY <2>2, <3>2, <4>1 DEF c, n
    <3>4. q \in live' /\ q # NULL
      BY <1>2, <1>9, <3>3, Kinds
    <3>5. node[q].shift = node[m].shift + 1
      BY <3>1, <3>2, <3>4 DEF RadixInv, TreeInv, Linked
    <3>6. node'[m].parent = q /\ node'[m].offset = t /\ node'[m].shift = node[m].shift
      BY <1>11, <2>2, <3>2
    <3>7. node'[q].slots = node[q].slots /\ node'[q].shift = node[q].shift
      BY <1>11, <3>4
    <3> QED
      BY <3>2, <3>4, <3>5, <3>6, <3>7
  <2> QED
    BY <2>1, <2>2
<1>18. LeafExact' /\ Absent'
  <2>1. ASSUME NEW m \in live', NEW j \in Keys
        PROVE  m \in live /\ Entry(m, j)' = Entry(m, j)
    BY <1>9, <1>11 DEF Entry
  <2> QED
    BY <2>1 DEF RadixInv, MapInv, LeafExact, Absent
<1>19. ASSUME NEW j \in Keys, ~Under(c, j)
       PROVE  map[j] = NULL
  <2>1. CASE ~Under(n, j)
    BY <1>1, <1>8, <2>1 DEF RadixInv, MapInv, RootExact
  <2>2. CASE Under(n, j)
    <3>1. j \in Nat
      BY Kinds
    <3>2. Offset(j, n[1]) \in Slots /\ Offset(j, n[1]) # 0
      BY <1>1, <1>3, <1>4, <1>5, <1>19, <2>2, <3>1, OffsetStep, UnderChild
    <3>3. Entry(n, j) = NULL
      BY <1>6, <3>2 DEF Entry
    <3> QED
      BY <1>1, <2>2, <3>3 DEF RadixInv, MapInv, Absent
  <2> QED
    BY <2>1, <2>2
<1>20. RootExact'
  BY <1>5, <1>8, <1>19 DEF RootExact
<1>21. GraceInv' /\ ReaderInv'
  <2>1. \A m \in retired : nodes[m] = node[m]
    BY <1>1, <1>2, <1>4, <1>7
  <2> QED
    BY <1>1, <1>3, <1>7, <1>8, <2>1, NodeRetired
<1> QED
  BY <1>8, <1>9, <1>10, <1>11, <1>12, <1>14, <1>15, <1>16, <1>17, <1>18, <1>20, <1>21,
     <1>h DEF TreeInv, MapInv

----------------------------------------------------------------------------
(* The readers' steps.                                                     *)

\* A step that leaves the allocated nodes alone keeps the tree, the map and
\* the writer's place in it.
LEMMA TreeKept ==
  ASSUME RadixInv, UNCHANGED <<rnode, live, map>>, retired' \subseteq retired,
         \A m \in live \cup retired' : node'[m] = node[m]
  PROVE  /\ TreeInv' /\ MapInv'
         /\ wr' = wr /\ failed' = failed => WriterInv' /\ HeightInv'
<1>1. live' = live /\ rnode' = rnode /\ map' = map
        /\ \A m \in live : node'[m] = node[m]
  OBVIOUS
<1>2. rnode \in NodeIds => rnode \in live
  BY DEF RadixInv, TreeInv, RootOK
<1>3. SlotsOK'
  BY <1>1 DEF RadixInv, TreeInv, SlotsOK, SlotOK
<1>4. RootOK' /\ Unique'
  BY <1>1 DEF RadixInv, TreeInv, RootOK, Unique
<1>5. Shaped'
  BY <1>1 DEF RadixInv, TreeInv, Shaped
<1>6. Linked'
  BY <1>1 DEF RadixInv, TreeInv, Linked
<1>7. CountExact'
  BY <1>1 DEF RadixInv, TreeInv, CountExact
<1>8. MapInv'
  BY <1>1 DEF RadixInv, MapInv, LeafExact, Absent, RootExact, Entry
<1>9. ASSUME wr' = wr, failed' = failed
      PROVE  WriterInv' /\ HeightInv'
  <2>1. WrExtend'
    BY <1>1, <1>2, <1>9 DEF RadixInv, WriterInv, WrExtend, RootShift, IsNode
  <2>2. WrCreate'
    BY <1>1, <1>2, <1>9 DEF RadixInv, WriterInv, WrCreate, Entry
  <2>3. WrFind' /\ WrFound'
    BY <1>1, <1>2, <1>9 DEF RadixInv, WriterInv, WrFind, WrFound, Entry
  <2>4. WrPurpose' /\ WrUnlink'
    BY <1>1, <1>9 DEF RadixInv, WriterInv, WrPurpose, WrUnlink
  <2>5. NonEmpty'
    BY <1>1, <1>9 DEF RadixInv, HeightInv, NonEmpty
  <2>6. Height'
    BY <1>1, <1>2, <1>9 DEF RadixInv, HeightInv, Height, Single
  <2> QED
    BY <2>1, <2>2, <2>3, <2>4, <2>5, <2>6 DEF WriterInv, HeightInv
<1> QED
  BY <1>3, <1>4, <1>5, <1>6, <1>7, <1>8, <1>9 DEF TreeInv

\* radix_tree_load_root() tells whether the tree has room for an index.
LEMMA RoomInRoot ==
  ASSUME RadixInv, NEW i \in Keys
  PROVE  /\ IsNode(rnode) => (i <= RootMax <=> Under(rnode, i))
         /\ ~IsNode(rnode) => (i <= RootMax <=> i = 0)
         /\ ~(i <= RootMax) => map[i] = NULL
<1>1. i \in 0 .. ULONG - 1 /\ i \in Nat
  BY Kinds
<1>2. CASE IsNode(rnode)
  <2>1. rnode \in NodeIds /\ rnode \in live /\ rnode[2] = 0 /\ node[rnode].shift = rnode[1]
    BY <1>2 DEF IsNode, RadixInv, TreeInv, RootOK, Shaped
  <2>2. rnode[1] \in 0 .. TopShift
    BY <2>1, NodeNames
  <2>3. i <= RootMax <=> i \div MAP_SIZE^(rnode[1] + 1) = 0
    BY <1>1, <1>2, <2>1, <2>2, RoomFor DEF RootMax
  <2>4. i <= RootMax <=> Under(rnode, i)
    BY <2>1, <2>3 DEF Under
  <2> QED
    BY <1>2, <2>1, <2>4 DEF RadixInv, MapInv, RootExact
<1>3. CASE ~IsNode(rnode)
  <2>1. RootMax = 0
    BY <1>3 DEF RootMax
  <2>2. i <= RootMax <=> i = 0
    BY <1>1, <2>1
  <2> QED
    BY <1>3, <2>2 DEF IsNode, RadixInv, MapInv, RootExact
<1> QED
  BY <1>2, <1>3

\* __radix_tree_lookup() starts at the root.
LEMMA LookupStep ==
  ASSUME RadixInv, NEW r \in Readers, NEW i \in Keys, ReaderLookup(r, i)
  PROVE  RadixInv'
<1> DEFINE new == [pc |-> IF i <= RootMax /\ IsNode(rnode) THEN "descend" ELSE "done",
                   index |-> i, node |-> NULL,
                   child |-> IF i <= RootMax THEN rnode ELSE NULL, seen |-> {map[i]}]
<1>1. /\ rd[r].pc = "idle" /\ rd' = [rd EXCEPT ![r] = new]
      /\ UNCHANGED <<rnode, node, live, grace, wr, smashed, map, failed>>
  BY DEF ReaderLookup
<1>2. /\ rd \in [Readers -> ReaderRecs] /\ rnode \in Entries
      /\ map \in [Keys -> Items \cup {NULL}] /\ grace \in [retired -> SUBSET Readers]
  BY DEF RadixInv, Types
<1>3. new \in ReaderRecs
  <2>1. i \in 0 .. ULONG - 1 /\ NULL \in Entries /\ map[i] \in Items \cup {NULL}
    BY <1>2, Kinds DEF Entries
  <2> QED
    BY <1>2, <2>1 DEF ReaderRecs
<1>4. /\ new.index = i /\ new.node = NULL /\ new.seen = {map[i]}
      /\ new.pc = IF i <= RootMax /\ IsNode(rnode) THEN "descend" ELSE "done"
      /\ new.child = IF i <= RootMax THEN rnode ELSE NULL
  OBVIOUS
<1> HIDE DEF new
<1>5. rd' \in [Readers -> ReaderRecs] /\ rd'[r] = new
        /\ \A q \in Readers : q # r => rd'[q] = rd[q]
  BY <1>1, <1>2, <1>3
<1>6. retired' = retired /\ grace' = grace /\ live' = live /\ node' = node
  BY <1>1 DEF retired
<1>7. Types'
  BY <1>1, <1>5, <1>6 DEF RadixInv, Types
<1>8. TreeInv' /\ MapInv' /\ WriterInv' /\ HeightInv'
  BY <1>1, <1>6, TreeKept
<1>9. Awaited \subseteq Awaited' /\ r \notin Awaited
  BY <1>1, <1>5 DEF Awaited
<1>10. RetiredOK' /\ HeldByReadersOnly'
  <2>1. RetiredOK'
    BY <1>6 DEF RadixInv, GraceInv, RetiredOK, KeptSlot
  <2> QED
    BY <1>6, <1>9, <2>1 DEF RadixInv, GraceInv, HeldByReadersOnly
<1>11. MissedOK'
  <2> SUFFICES ASSUME NEW n \in retired, NEW q \in grace[n],
                      rd'[q].pc # "iterate", Under(n, rd'[q].index),
                      node[n].slots[Offset(rd'[q].index, n[1])] = NULL
               PROVE  NULL \in rd'[q].seen
    BY <1>6 DEF MissedOK, Entry
  <2>1. q \in Readers /\ q # r
    BY <1>2, <1>9 DEF RadixInv, GraceInv, HeldByReadersOnly
  <2> QED
    BY <1>5, <2>1 DEF RadixInv, ReaderInv, MissedOK, Entry
<1>12. SeenOK'
  BY <1>1, <1>4, <1>5 DEF RadixInv, ReaderInv, SeenOK
<1>13. DescendOK'
  <2>1. new.pc = "descend" => /\ new.child \in live /\ Under(new.child, i)
    <3>1. IsNode(rnode) => rnode \in live
      BY DEF IsNode, RadixInv, TreeInv, RootOK
    <3> QED
      BY <1>4, <3>1, RoomInRoot
  <2>2. ASSUME NEW q \in Readers, rd'[q].pc = "descend"
        PROVE  /\ Held(q, rd'[q].child) /\ Under(rd'[q].child, rd'[q].index)
               /\ rd'[q].node # NULL => /\ Held(q, rd'[q].node)
                                        /\ rd'[q].node[1] = rd'[q].child[1] + 1
    BY <1>4, <1>5, <2>1, <2>2 DEF RadixInv, ReaderInv, DescendOK, Held
  <2> QED
    BY <1>6, <2>2 DEF DescendOK, Held
<1>14. LookupLinearizable'
  <2>1. new.pc = "done" => new.child = map[i]
    <3>1. IsNode(rnode) \/ (i = 0 => rnode = map[0])
      BY DEF IsNode, RadixInv, MapInv, RootExact
    <3> QED
      BY <1>4, <3>1, RoomInRoot
  <2> QED
    BY <1>4, <1>5, <2>1 DEF RadixInv, ReaderInv, LookupLinearizable
<1> QED
  BY <1>7, <1>8, <1>10, <1>11, <1>12, <1>13, <1>14 DEF RadixInv, GraceInv, ReaderInv

\* One turn of the loop of __radix_tree_lookup(), through a node that is in
\* the tree or was unlinked under the reader.
LEMMA DescendStep ==
  ASSUME RadixInv, NEW r \in Readers, ReaderDescend(r)
  PROVE  RadixInv'
<1> DEFINE n == rd[r].child
           i == rd[r].index
           e == Entry(n, i)
           new == [pc |-> IF n[1] = 0 \/ ~IsNode(e) THEN "done" ELSE "descend",
                   index |-> i, node |-> n, child |-> e, seen |-> rd[r].seen]
<1>1. /\ rd[r].pc = "descend" /\ Held(r, n) /\ Under(n, i)
      /\ UNCHANGED <<rnode, node, live, grace, wr, smashed, map, failed>>
  BY DEF ReaderDescend, RadixInv, ReaderInv, DescendOK
<1>2. i \in Keys /\ map[i] \in rd[r].seen
  BY <1>1 DEF RadixInv, ReaderInv, SeenOK
<1>3. /\ rd \in [Readers -> ReaderRecs] /\ node \in [NodeIds -> NodeRecs]
      /\ live \subseteq NodeIds /\ retired \subseteq NodeIds \ live
      /\ grace \in [retired -> SUBSET Readers]
  BY DEF RadixInv, Types
<1>4. n \in NodeIds /\ n \in live \cup retired /\ node[n].shift = n[1] /\ i \in Nat
        /\ n[1] \in 0 .. TopShift
  <2>1. n \in live \cup retired
    BY <1>1 DEF Held
  <2> HIDE DEF n, i
  <2>2. n \in NodeIds /\ i \in Nat
    BY <1>2, <1>3, <2>1, Kinds
  <2>3. node[n].shift = n[1]
    BY <2>1 DEF RadixInv, TreeInv, Shaped
  <2> QED
    BY <2>1, <2>2, <2>3, NodeNames
<1>5. Offset(i, n[1]) \in Slots
  BY <1>4, OffsetStep
<1>6. e \in Entries /\ Below(n, i) = e
  BY <1>3, <1>4, <1>5 DEF NodeRecs, Below, Entry
<1>7. rd' = [rd EXCEPT ![r] = new]
  <2>1. rd[r] \in ReaderRecs
    BY <1>3
  <2>2. rd' = [rd EXCEPT ![r] = Deeper(rd[r], e)]
    BY <1>3, <1>6 DEF ReaderDescend
  <2>3. PICK y : y = [rd[r] EXCEPT !.node = n, !.child = e,
                        !.pc = IF n[1] = 0 \/ ~IsNode(e) THEN "done" ELSE @]
    OBVIOUS
  <2>4. Deeper(rd[r], e) = y
    BY <1>4, <2>3 DEF Deeper
  <2> HIDE DEF e, n
  <2>5. y = new
    BY <1>1, <2>1, <2>3 DEF ReaderRecs
  <2> QED
    BY <2>2, <2>4, <2>5
<1>8. /\ new.index = i /\ new.node = n /\ new.seen = rd[r].seen /\ new.child = e
      /\ new.pc = IF n[1] = 0 \/ ~IsNode(e) THEN "done" ELSE "descend"
  OBVIOUS
<1>9. new \in ReaderRecs
  <2>1. i \in 0 .. ULONG - 1 /\ n \in Entries /\ rd[r].seen \in SUBSET (Items \cup {NULL})
    BY <1>2, <1>3, <1>4, Kinds DEF ReaderRecs, Entries
  <2> QED
    BY <1>6, <2>1 DEF ReaderRecs
<1>10. /\ n[1] > 0 /\ e \in NodeIds => Held(r, e) /\ Hangs(e, n, Offset(i, n[1]))
       /\ n[1] = 0 \/ e \notin NodeIds => e \in rd[r].seen
  <2>1. CASE n \in live
    <3>1. SlotOK(n, Offset(i, n[1]))
      BY <1>5, <2>1 DEF RadixInv, TreeInv, SlotsOK
    <3>2. n[1] > 0 /\ e \in NodeIds => e \in live /\ Hangs(e, n, Offset(i, n[1]))
      BY <3>1, Kinds DEF SlotOK, Entry
    <3>3. e = NULL => map[i] = NULL
      BY <1>1, <1>2, <2>1 DEF RadixInv, MapInv, Absent
    <3>4. n[1] = 0 => e = map[i]
      BY <1>1, <1>2, <2>1 DEF RadixInv, MapInv, LeafExact
    <3>5. e \notin NodeIds => e = NULL \/ n[1] = 0
      BY <1>3, <3>1 DEF SlotOK, Entry
    <3> QED
      BY <1>2, <3>2, <3>3, <3>4, <3>5 DEF Held
  <2>2. CASE n \in retired
    <3>1. KeptSlot(n, Offset(i, n[1])) /\ r \in grace[n]
      BY <1>1, <1>3, <1>5, <2>2 DEF RadixInv, GraceInv, RetiredOK, Held
    <3>2. e # NULL => /\ n[1] > 0 /\ e \in live \cup retired /\ Hangs(e, n, Offset(i, n[1]))
                      /\ e \in retired => r \in grace[e]
      BY <3>1 DEF KeptSlot, Entry
    <3>3. e = NULL => NULL \in rd[r].seen
      BY <1>1, <2>2, <3>1 DEF RadixInv, ReaderInv, MissedOK
    <3>4. n[1] > 0 /\ e \in NodeIds => Held(r, e) /\ Hangs(e, n, Offset(i, n[1]))
      BY <3>2, Kinds DEF Held
    <3> HIDE DEF e, n, i
    <3>5. n[1] = 0 \/ e \notin NodeIds => e = NULL
      BY <1>3, <1>4, <3>2
    <3> QED
      BY <3>3, <3>4, <3>5
  <2> QED
    BY <1>4, <2>1, <2>2
<1> HIDE DEF new, e
<1>11. rd' \in [Readers -> ReaderRecs] /\ rd'[r] = new
         /\ \A q \in Readers : q # r => rd'[q] = rd[q]
  BY <1>3, <1>7, <1>9
<1>12. retired' = retired /\ grace' = grace /\ live' = live /\ node' = node
  BY <1>1 DEF retired
<1>13. Types'
  BY <1>1, <1>11, <1>12 DEF RadixInv, Types
<1>14. TreeInv' /\ MapInv' /\ WriterInv' /\ HeightInv'
  BY <1>1, <1>12, TreeKept
<1>15. Awaited' = Awaited
  <2>1. new.pc # "idle"
    BY <1>8
  <2> QED
    BY <1>1, <1>11, <2>1 DEF Awaited
<1>16. RetiredOK' /\ HeldByReadersOnly'
  <2>1. RetiredOK'
    BY <1>12 DEF RadixInv, GraceInv, RetiredOK, KeptSlot
  <2> QED
    BY <1>12, <1>15, <2>1 DEF RadixInv, GraceInv, HeldByReadersOnly
<1>17. MissedOK'
  <2> SUFFICES ASSUME NEW m \in retired, NEW q \in grace[m],
                      rd'[q].pc # "iterate", Under(m, rd'[q].index),
                      node[m].slots[Offset(rd'[q].index, m[1])] = NULL
               PROVE  NULL \in rd'[q].seen
    BY <1>12 DEF MissedOK, Entry
  <2>1. q \in Readers /\ rd'[q].index = rd[q].index /\ rd'[q].seen = rd[q].seen
          /\ rd[q].pc # "iterate"
    BY <1>1, <1>3, <1>8, <1>11
  <2> QED
    BY <2>1 DEF RadixInv, ReaderInv, MissedOK, Entry
<1>18. SeenOK'
  BY <1>1, <1>2, <1>8, <1>11 DEF RadixInv, ReaderInv, SeenOK
<1>19. DescendOK'
  <2>1. ASSUME new.pc = "descend"
        PROVE  /\ Held(r, e) /\ Under(e, i) /\ Held(r, n) /\ n[1] = e[1] + 1
    <3>1. n[1] > 0 /\ e \in NodeIds
      BY <1>4, <1>8, <2>1 DEF IsNode
    <3>2. Held(r, e) /\ Hangs(e, n, Offset(i, n[1]))
      BY <1>10, <3>1
    <3>3. Under(e, i)
      BY <1>1, <1>4, <3>1, <3>2, UnderChild
    <3> QED
      BY <1>1, <3>2, <3>3 DEF Hangs
  <2>2. ASSUME NEW q \in Readers, rd'[q].pc = "descend"
        PROVE  /\ Held(q, rd'[q].child) /\ Under(rd'[q].child, rd'[q].index)
               /\ rd'[q].node # NULL => /\ Held(q, rd'[q].node)
                                        /\ rd'[q].node[1] = rd'[q].child[1] + 1
    <3>1. CASE q = r
      BY <1>8, <1>11, <2>1, <2>2, <3>1
    <3>2. CASE q # r
      BY <1>11, <2>2, <3>2 DEF RadixInv, ReaderInv, DescendOK
    <3> QED
      BY <3>1, <3>2
  <2> QED
    BY <1>12, <2>2 DEF DescendOK, Held
<1>20. LookupLinearizable'
  <2>1. new.pc = "done" => new.child \in new.seen
    BY <1>8, <1>10 DEF IsNode
  <2> QED
    BY <1>11, <2>1 DEF RadixInv, ReaderInv, LookupLinearizable
<1> QED
  BY <1>13, <1>14, <1>16, <1>17, <1>18, <1>19, <1>20 DEF RadixInv, GraceInv, ReaderInv

\* rcu_read_unlock(): the nodes only this reader held back are freed, and
\* nobody is in them or can get there.
LEMMA SectionLeft ==
  ASSUME RadixInv, NEW r \in Readers, LeaveSection(r),
         rd' \in [Readers -> ReaderRecs], rd'[r].pc \in {"idle", "iterate"},
         \A q \in Readers : q # r => rd'[q] = rd[q],
         UNCHANGED <<rnode, live, wr, smashed, map, failed>>
  PROVE  RadixInv'
<1> DEFINE over == {n \in retired : grace[n] \ {r} = {}}
<1>1. UNCHANGED <<rnode, live, wr, smashed, map, failed>>
  OBVIOUS
<1>2. /\ rd \in [Readers -> ReaderRecs] /\ node \in [NodeIds -> NodeRecs]
      /\ live \subseteq NodeIds /\ retired \subseteq NodeIds \ live
      /\ grace \in [retired -> SUBSET Readers]
  BY DEF RadixInv, Types
<1>3. /\ grace' = [n \in retired \ over |-> grace[n] \ {r}]
      /\ node' = Cleared(node, over)
  <2>1. \A n \in retired : Released(r)[n] = grace[n] \ {r}
    BY DEF Released
  <2>2. {n \in retired : Released(r)[n] = {}} = over
    BY <2>1
  <2> HIDE DEF over
  <2>3. [n \in retired \ over |-> Released(r)[n]] = [n \in retired \ over |-> grace[n] \ {r}]
    BY <2>1
  <2> QED
    BY <2>2, <2>3 DEF LeaveSection
<1>4. retired' = retired \ over
  BY <1>3 DEF retired
<1>5. \A n \in retired' : n \in retired /\ grace'[n] = grace[n] \ {r} /\ grace'[n] # {}
  BY <1>3, <1>4
<1>6. \A n \in retired : n \notin retired' <=> grace[n] \subseteq {r}
  BY <1>4
<1>7. over \subseteq retired
  OBVIOUS
<1> HIDE DEF over
<1>8. /\ \A n \in live \cup retired' : node'[n] = node[n]
      /\ node' \in [NodeIds -> NodeRecs]
  <2>1. \A n \in NodeIds : node'[n] = IF n \in over THEN Blank ELSE node[n]
    BY <1>3 DEF Cleared
  <2>2. node' = [n \in NodeIds |-> node'[n]]
    BY <1>3 DEF Cleared
  <2>3. \A n \in NodeIds : node'[n] \in NodeRecs
    BY <1>2, <2>1, BlankNode
  <2>4. node' \in [NodeIds -> NodeRecs]
    BY <2>2, <2>3
  <2> QED
    BY <1>2, <1>4, <1>7, <2>1, <2>4
<1>9. /\ rd' \in [Readers -> ReaderRecs] /\ rd'[r].pc \in {"idle", "iterate"}
      /\ \A q \in Readers : q # r => rd'[q] = rd[q]
  OBVIOUS
<1>10. Types'
  <2>1. retired' \subseteq NodeIds \ live'
    BY <1>1, <1>2, <1>4
  <2>2. grace' \in [retired' -> SUBSET Readers]
    BY <1>2, <1>3, <1>4
  <2> QED
    BY <1>1, <1>8, <1>9, <2>1, <2>2 DEF RadixInv, Types
<1>11. TreeInv' /\ MapInv' /\ WriterInv' /\ HeightInv'
  <2>1. retired' \subseteq retired
    BY <1>5
  <2> QED
    BY <1>1, <1>8, <2>1, TreeKept
<1>12. Awaited \ {r} \subseteq Awaited'
  BY <1>9 DEF Awaited
<1>13. RetiredOK'
  <2> SUFFICES ASSUME NEW n \in retired', NEW s \in Slots
               PROVE  KeptSlot(n, s)'
    BY DEF RetiredOK
  <2>1. KeptSlot(n, s) /\ node'[n] = node[n]
    BY <1>5, <1>8 DEF RadixInv, GraceInv, RetiredOK
  <2> DEFINE e == node[n].slots[s]
  <2>2. CASE e \in retired /\ e # NULL
    <3>1. n[1] > 0 /\ Hangs(e, n, s) /\ grace[n] \subseteq grace[e]
      BY <2>1, <2>2 DEF KeptSlot
    <3>2. e \in retired' /\ grace'[n] \subseteq grace'[e]
      BY <1>5, <1>6, <2>2, <3>1
    <3> QED
      BY <2>1, <3>1, <3>2 DEF KeptSlot
  <2>3. CASE e \notin retired \/ e = NULL
    <3>1. e \notin retired' \/ e = NULL
      BY <1>5, <2>3
    <3> QED
      BY <1>1, <2>1, <2>3, <3>1 DEF KeptSlot
  <2> QED
    BY <2>2, <2>3
<1>14. HeldByReadersOnly'
  BY <1>5, <1>12 DEF RadixInv, GraceInv, HeldByReadersOnly
<1>15. ASSUME NEW q \in Readers, q # r, NEW n, Held(q, n)
       PROVE  Held(q, n)'
  BY <1>1, <1>5, <1>6, <1>15 DEF Held
<1>16. MissedOK'
  <2> SUFFICES ASSUME NEW n \in retired', NEW q \in grace'[n],
                      rd'[q].pc # "iterate", Under(n, rd'[q].index),
                      node'[n].slots[Offset(rd'[q].index, n[1])] = NULL
               PROVE  NULL \in rd'[q].seen
    BY DEF MissedOK, Entry
  <2>1. n \in retired /\ q \in grace[n] /\ q \in Readers /\ q # r /\ node'[n] = node[n]
    BY <1>2, <1>5, <1>8
  <2>2. rd'[q] = rd[q]
    BY <1>9, <2>1
  <2> QED
    BY <2>1, <2>2 DEF RadixInv, ReaderInv, MissedOK, Entry
<1>17. SeenOK' /\ LookupLinearizable'
  BY <1>1, <1>9 DEF RadixInv, ReaderInv, SeenOK, LookupLinearizable
<1>18. DescendOK'
  <2>1. ASSUME NEW q \in Readers, rd'[q].pc = "descend"
        PROVE  /\ rd'[q] = rd[q] /\ q # r
               /\ Held(q, rd[q].child) /\ Under(rd[q].child, rd[q].index)
               /\ rd[q].node # NULL => /\ Held(q, rd[q].node)
                                       /\ rd[q].node[1] = rd[q].child[1] + 1
    BY <1>9, <2>1 DEF RadixInv, ReaderInv, DescendOK
  <2>2. ASSUME NEW q \in Readers, q # r, NEW n, Held(q, n)
        PROVE  n \in live' \/ (n \in retired' /\ q \in grace'[n])
    BY <1>15, <2>2 DEF Held
  <2> QED
    BY <2>1, <2>2 DEF DescendOK, Held
<1> QED
  BY <1>10, <1>11, <1>13, <1>14, <1>16, <1>17, <1>18 DEF RadixInv, GraceInv, ReaderInv

\* A lookup returns.
LEMMA ReturnStep ==
  ASSUME RadixInv, NEW r \in Readers, ReaderReturn(r)
  PROVE  RadixInv'
<1>1. /\ rd' = [rd EXCEPT ![r] = ReaderIdle] /\ rd \in [Readers -> ReaderRecs]
      /\ LeaveSection(r) /\ UNCHANGED <<rnode, live, wr, smashed, map, failed>>
  BY DEF ReaderReturn, RadixInv, Types
<1>2. ReaderIdle \in ReaderRecs /\ ReaderIdle.pc = "idle"
  BY Kinds DEF ReaderIdle, ReaderRecs, Entries
<1>3. /\ rd' \in [Readers -> ReaderRecs] /\ rd'[r].pc \in {"idle", "iterate"}
      /\ \A q \in Readers : q # r => rd'[q] = rd[q]
  BY <1>1, <1>2
<1> QED
  BY <1>1, <1>3, SectionLeft

----------------------------------------------------------------------------
(* The writer's steps.                                                     *)

\* No node above the leaves is empty and the tree is of minimum height.
Settled ==
  ~failed =>
    /\ \A n \in live : n[1] > 0 => node[n].count # 0
    /\ rnode \in NodeIds /\ rnode[1] > 0 => ~Single

\* A call that is over leaves no trace in the writer's locals.
LEMMA Idle ==
  /\ WriterIdle \in WriterRecs /\ WriterIdle.pc = "idle"
  /\ wr' = WriterIdle => WriterInv'
<1>1. WriterIdle \in WriterRecs /\ WriterIdle.pc = "idle"
  <2>1. 0 \in 0 .. ULONG - 1 /\ NULL \in Entries /\ 0 \in 0 .. TopShift
          /\ 0 \in 0 .. TopShift + 1
    BY Kinds, RadixTreeAssumption DEF Entries
  <2> QED
    BY <2>1 DEF WriterIdle, WriterRecs
<1>2. ASSUME wr' = WriterIdle
      PROVE  WriterInv'
  <2>1. wr'.pc = "idle"
    BY <1>1, <1>2
  <2> QED
    BY <2>1 DEF WriterInv, WrExtend, WrCreate, WrFind, WrFound, WrPurpose, WrUnlink
<1> QED
  BY <1>1, <1>2

\* A step of the writer that stores nothing.
LEMMA WriterMoved ==
  ASSUME RadixInv, UNCHANGED <<rnode, node, live, grace, rd, smashed, map>>,
         wr' \in WriterRecs, failed' \in BOOLEAN
  PROVE  Types' /\ TreeInv' /\ MapInv' /\ GraceInv' /\ ReaderInv'
<1>1. retired' = retired
  BY DEF retired
<1>2. Types'
  BY <1>1 DEF RadixInv, Types
<1>3. TreeInv' /\ MapInv'
  BY <1>1, TreeKept
<1>4. GraceInv' /\ ReaderInv'
  BY NodeAdded
<1> QED
  BY <1>2, <1>3, <1>4

\* Where no call is about to fill or to remove a node, the tree is settled.
LEMMA SettledTree ==
  ASSUME RadixInv,
         \/ wr.pc \in {"idle", "delete_find", "delete", "replace_find", "replace"}
         \/ wr.pc = "create" /\ wr.shift = 0
  PROVE  Settled
<1> SUFFICES ASSUME ~failed
             PROVE  /\ \A n \in live : n[1] > 0 => node[n].count # 0
                    /\ rnode \in NodeIds /\ rnode[1] > 0 => ~Single
  BY DEF Settled
<1>1. live \subseteq NodeIds /\ NULL \notin live
  BY Kinds DEF RadixInv, Types
<1>2. CASE wr.pc # "create"
  <2>1. \A n \in live : n[1] > 0 => node[n].count # 0
    BY <1>2 DEF RadixInv, HeightInv, NonEmpty
  <2>2. rnode \in NodeIds /\ rnode[1] > 0 => ~Single
    BY <1>2 DEF RadixInv, HeightInv, Height
  <2> QED
    BY <2>1, <2>2
<1>3. CASE wr.pc = "create" /\ wr.shift = 0
  <2>1. wr.node = NULL \/ wr.node[1] = 0
    BY <1>3 DEF RadixInv, WriterInv, WrCreate
  <2>2. \A n \in live : n[1] > 0 => node[n].count # 0
    <3> SUFFICES ASSUME NEW n \in live, n[1] > 0 PROVE node[n].count # 0
      OBVIOUS
    <3>1. n # wr.node
      BY <1>1, <2>1, NodeNames
    <3> QED
      BY <3>1 DEF RadixInv, HeightInv, NonEmpty
  <2>3. ASSUME rnode \in NodeIds, rnode[1] > 0
        PROVE  ~Single
    <3>1. rnode[1] \in Nat
      BY <2>3, NodeNames
    <3>2. wr.node # rnode
      BY <2>1, <2>3, <3>1, Kinds
    <3>3. wr.node # NULL
      BY <1>3, <2>3, <3>1 DEF RadixInv, WriterInv, WrCreate, IsNode
    <3> QED
      BY <1>3, <2>3, <3>2, <3>3 DEF RadixInv, HeightInv, Height
  <2> QED
    BY <2>2, <2>3
<1> QED
  BY <1>2, <1>3

\* It stays settled while only leaves change.
LEMMA StaysSettled ==
  ASSUME RadixInv, Settled, live' = live, failed' = failed,
         rnode' = rnode \/ rnode' \notin NodeIds,
         \A n \in live : n[1] > 0 => node'[n] = node[n]
  PROVE  HeightInv'
<1>1. rnode \in NodeIds => rnode \in live
  BY DEF RadixInv, TreeInv, RootOK
<1>2. NonEmpty'
  BY DEF Settled, NonEmpty
<1>3. Height'
  BY <1>1 DEF Settled, Height, Single
<1> QED
  BY <1>2, <1>3 DEF HeightInv

\* What the writer or a reader loads from the slot of an allocated node.
LEMMA Loaded ==
  ASSUME RadixInv, NEW n \in live, NEW i \in Keys, Under(n, i)
  PROVE  /\ Below(n, i) = Entry(n, i) /\ Entry(n, i) \in Entries
         /\ n[1] > 0 /\ Entry(n, i) # NULL =>
              /\ Entry(n, i) \in live /\ Entry(n, i)[1] = n[1] - 1
              /\ Under(Entry(n, i), i)
         /\ n[1] = 0 => Entry(n, i) \notin NodeIds
         /\ Entry(n, i) # NULL => node[n].count # 0
<1> DEFINE s == Offset(i, n[1])
           e == node[n].slots[s]
<1>1. /\ n \in NodeIds /\ live \subseteq NodeIds /\ node[n].shift = n[1] /\ i \in Nat
      /\ n[1] \in 0 .. TopShift /\ node[n] \in NodeRecs
  BY Kinds, NodeNames DEF RadixInv, Types, TreeInv, Shaped
<1>2. s \in Slots
  BY <1>1, OffsetStep
<1>3. Below(n, i) = e /\ Entry(n, i) = e
  BY <1>1 DEF Below, Entry
<1>4. SlotOK(n, s) /\ e \in Entries
  BY <1>1, <1>2 DEF RadixInv, TreeInv, SlotsOK, NodeRecs
<1>5. ASSUME n[1] > 0, e # NULL
      PROVE  e \in live /\ e[1] = n[1] - 1 /\ Under(e, i)
  <2>1. e \in live /\ Hangs(e, n, s)
    BY <1>1, <1>4, <1>5 DEF SlotOK
  <2>2. e[1] + 1 = n[1] /\ e \in NodeIds /\ e[1] \in 0 .. TopShift
    BY <1>1, <2>1, NodeNames DEF Hangs
  <2>3. Under(e, i)
    BY <1>1, <2>1, <2>2, UnderChild
  <2> HIDE DEF e
  <2> QED
    BY <1>1, <2>1, <2>2, <2>3
<1>6. n[1] = 0 => e \notin NodeIds
  BY <1>1, <1>4, Kinds DEF SlotOK
<1>7. e # NULL => node[n].count # 0
  <2>1. node[n].count = Cardinality(Used(node[n].slots)) /\ node[n].slots \in [Slots -> Entries]
    BY <1>1, CountUsed DEF RadixInv, TreeInv, NodeRecs
  <2> QED
    BY <1>2, <2>1, CountSmall
<1> HIDE DEF e
<1> QED
  BY <1>3, <1>4, <1>5, <1>6, <1>7

\* What the step that ends a call or starts one leaves to show.
LEMMA StoresNothing ==
  ASSUME RadixInv, UNCHANGED <<rnode, node, live, grace, rd, smashed, map, failed>>,
         Settled, wr' \in WriterRecs, WriterInv'
  PROVE  RadixInv'
<1>1. failed' \in BOOLEAN
  BY DEF RadixInv, Types
<1>2. HeightInv'
  BY StaysSettled
<1> QED
  BY <1>1, <1>2, WriterMoved DEF RadixInv

\* The shift a new root would have, for an index the tree has room for and
\* for one it has no room for.
LEMMA AboveRoot ==
  ASSUME RadixInv, NEW i \in Keys
  PROVE  /\ i > RootMax <=> ~(i <= RootMax)
         /\ RootShift \in 0 .. TopShift + 1
         /\ i <= RootMax => i \div MAP_SIZE^RootShift = 0
         /\ ~(i <= RootMax) => RootShift \in 0 .. TopShift /\ i \div MAP_SIZE^RootShift # 0
<1>1. i \in 0 .. ULONG - 1 /\ i \in Nat /\ ULONG \in Nat \ {0}
  BY Kinds
<1>2. 0 \in 0 .. TopShift /\ TopShift \in 0 .. TopShift /\ TopShift \in Nat
  BY RadixTreeAssumption
<1>3. CASE IsNode(rnode)
  <2>1. rnode \in NodeIds /\ rnode \in live /\ rnode[2] = 0 /\ node[rnode].shift = rnode[1]
    BY <1>3 DEF IsNode, RadixInv, TreeInv, RootOK, Shaped
  <2>2. rnode[1] \in 0 .. TopShift
    BY <2>1, NodeNames
  <2>3. RootShift = rnode[1] + 1 /\ RootMax = shift_maxindex(rnode[1])
    BY <1>3, <2>1 DEF RootShift, RootMax
  <2>4. i <= RootMax <=> i \div MAP_SIZE^RootShift = 0
    BY <1>1, <2>2, <2>3, RoomFor
  <2>5. RootMax \in Nat
    <3>1. MAP_SIZE * MAP_SIZE^rnode[1] \in Nat
      BY <2>2, PowerAssumption, RadixTreeAssumption
    <3> DEFINE k == MAP_SIZE * MAP_SIZE^rnode[1]
    <3> HIDE DEF k
    <3>2. \A j \in Int : j % ULONG \in Nat
      BY <1>1
    <3>3. k % ULONG \in Nat
      BY <3>1, <3>2 DEF k
    <3>4. (k % ULONG) - 1 \in Int
      BY <3>3
    <3>5. ((k % ULONG) - 1) % ULONG \in Nat
      BY <3>2, <3>4
    <3> QED
      BY <2>3, <3>5 DEF shift_maxindex, k
  <2>6. ASSUME rnode[1] = TopShift
        PROVE  i \div MAP_SIZE^RootShift = 0
    <3>1. LET top == ShiftFor(i, TopShift) IN
            top \in TopShift .. TopShift /\ i \div MAP_SIZE^(top + 1) = 0
      BY <1>1, <1>2, ShiftForIndex
    <3>2. ShiftFor(i, TopShift) = TopShift
      BY <1>2, <3>1
    <3> QED
      BY <2>3, <2>6, <3>1, <3>2
  <2>7. rnode[1] # TopShift => RootShift \in 0 .. TopShift
    BY <1>2, <2>2, <2>3
  <2> QED
    BY <1>1, <1>2, <2>2, <2>3, <2>4, <2>5, <2>6, <2>7
<1>4. CASE ~IsNode(rnode)
  <2>1. RootShift = 0 /\ RootMax = 0
    BY <1>4 DEF RootShift, RootMax
  <2>2. i \div MAP_SIZE^0 = i
    BY <1>1, PowerAssumption
  <2> QED
    BY <1>1, <1>2, <2>1, <2>2
<1> QED
  BY <1>3, <1>4

\* radix_tree_insert() loads the root and decides whether to extend the tree.
LEMMA InsertStep ==
  ASSUME RadixInv, NEW i \in Keys, NEW item \in Items, Insert(i, item)
  PROVE  RadixInv'
<1> DEFINE grow == ~(i <= RootMax) /\ rnode # NULL
           plant == ~(i <= RootMax) /\ rnode = NULL
           shift == IF plant THEN ShiftFor(i, 0) + 1 ELSE RootShift
           top == IF grow THEN ShiftFor(i, RootShift) ELSE 0
           new == [pc |-> IF grow THEN "extend" ELSE "create", index |-> i,
                   item |-> item, node |-> NULL, child |-> rnode, shift |-> shift,
                   top |-> top]
<1>1. i \in 0 .. ULONG - 1 /\ i \in Nat /\ rnode \in Entries /\ NULL \in Entries
  BY Kinds DEF RadixInv, Types, Entries
<1>2. 0 \in 0 .. TopShift /\ TopShift \in Nat
  BY RadixTreeAssumption
<1>3. /\ RootShift \in 0 .. TopShift + 1
      /\ i <= RootMax => i \div MAP_SIZE^RootShift = 0
      /\ ~(i <= RootMax) => RootShift \in 0 .. TopShift /\ i \div MAP_SIZE^RootShift # 0
      /\ i > RootMax <=> ~(i <= RootMax)
  BY AboveRoot
<1>4. wr' = new
  <2>1. PICK y : y = [WriterIdle EXCEPT
                        !.pc = IF i > RootMax /\ rnode # NULL THEN "extend" ELSE "create",
                        !.index = i, !.item = item, !.child = rnode,
                        !.shift = IF i > RootMax /\ rnode = NULL
                                  THEN ShiftFor(i, 0) + 1 ELSE RootShift,
                        !.top = IF i > RootMax /\ rnode # NULL
                                THEN ShiftFor(i, RootShift) ELSE 0]
    OBVIOUS
  <2>2. wr' = y
    BY <2>1 DEF Insert
  <2>3. y = [pc |-> IF i > RootMax /\ rnode # NULL THEN "extend" ELSE "create",
             index |-> i, item |-> item, node |-> NULL, child |-> rnode,
             shift |-> IF i > RootMax /\ rnode = NULL
                       THEN ShiftFor(i, 0) + 1 ELSE RootShift,
             top |-> IF i > RootMax /\ rnode # NULL THEN ShiftFor(i, RootShift) ELSE 0]
    BY <2>1 DEF WriterIdle
  <2> QED
    BY <1>3, <2>2, <2>3
<1>5. /\ wr.pc = "idle"
      /\ UNCHANGED <<rnode, node, live, grace, rd, smashed, map, failed>>
  BY DEF Insert
<1>6. plant => /\ ShiftFor(i, 0) \in 0 .. TopShift
               /\ i \div MAP_SIZE^(ShiftFor(i, 0) + 1) = 0
               /\ ShiftFor(i, 0) > 0 => i \div MAP_SIZE^ShiftFor(i, 0) # 0
  BY <1>1, <1>2, ShiftForIndex
<1>7. grow => /\ ShiftFor(i, RootShift) \in RootShift .. TopShift
              /\ i \div MAP_SIZE^(ShiftFor(i, RootShift) + 1) = 0
              /\ ShiftFor(i, RootShift) > RootShift
                   => i \div MAP_SIZE^ShiftFor(i, RootShift) # 0
  BY <1>1, <1>3, ShiftForIndex
<1>8. shift \in 0 .. TopShift + 1 /\ top \in 0 .. TopShift
  BY <1>2, <1>3, <1>6, <1>7
<1>9. /\ wr'.pc = IF grow THEN "extend" ELSE "create"
      /\ wr'.index = i /\ wr'.item = item /\ wr'.node = NULL /\ wr'.child = rnode
      /\ wr'.shift = shift /\ wr'.top = top
  BY <1>4
<1>10. wr' \in WriterRecs
  <2> HIDE DEF shift, top
  <2> QED
    BY <1>1, <1>4, <1>8 DEF WriterRecs
<1>11. WrExtend'
  <2> SUFFICES ASSUME wr'.pc = "extend" PROVE WrExtend'
    BY DEF WrExtend
  <2>1. grow
    BY <1>9
  <2>2. rnode \in live \cup Items
    BY <1>1, <2>1, Kinds DEF RadixInv, TreeInv, RootOK
  <2>3. wr'.shift = RootShift /\ wr'.top = ShiftFor(i, RootShift)
    BY <1>9, <2>1
  <2>4. RootShift' = RootShift
    BY <1>5 DEF RootShift
  <2>5. wr'.shift <= wr'.top
    BY <1>3, <1>7, <2>1, <2>3
  <2>6. i \div MAP_SIZE^(wr'.top + 1) = 0
    BY <1>7, <2>1, <2>3
  <2>7. i \div MAP_SIZE^wr'.top # 0
    <3>1. CASE wr'.top > RootShift
      BY <1>7, <2>1, <2>3, <3>1
    <3>2. CASE wr'.top = RootShift
      BY <1>3, <2>1, <3>2
    <3> QED
      BY <1>2, <1>3, <1>7, <2>1, <2>3, <3>1, <3>2
  <2> HIDE DEF grow, shift, top
  <2> QED
    BY <1>5, <1>9, <2>1, <2>2, <2>3, <2>4, <2>5, <2>6, <2>7 DEF WrExtend, grow
<1>12. WrCreate'
  <2> SUFFICES ASSUME wr'.pc = "create" PROVE WrCreate'
    BY DEF WrCreate
  <2>1. ~grow
    BY <1>9
  <2>2. i \div MAP_SIZE^wr'.shift = 0
    BY <1>3, <1>6, <1>9, <2>1
  <2>3. IsNode(rnode) => wr'.shift = rnode[1] + 1
    <3>1. IsNode(rnode) => rnode # NULL /\ node[rnode].shift = rnode[1]
      BY Kinds DEF IsNode, RadixInv, TreeInv, RootOK, Shaped
    <3> QED
      BY <1>9, <3>1 DEF RootShift
  <2>4. rnode \in Items => wr'.shift = 0
    BY <1>9, Kinds DEF RootShift, IsNode
  <2>5. rnode = NULL /\ wr'.shift > 1 => i \div MAP_SIZE^(wr'.shift - 1) # 0
    <3>1. CASE plant
      <4>1. wr'.shift = ShiftFor(i, 0) + 1 /\ wr'.shift - 1 = ShiftFor(i, 0)
        BY <1>6, <1>9, <3>1
      <4>2. wr'.shift > 1 => ShiftFor(i, 0) > 0
        BY <1>6, <3>1, <4>1
      <4> QED
        BY <1>6, <3>1, <4>1, <4>2
    <3>2. CASE ~plant /\ rnode = NULL
      BY <1>9, <3>2, Kinds DEF RootShift, IsNode
    <3> QED
      BY <3>1, <3>2
  <2> HIDE DEF grow, shift, top
  <2> QED
    BY <1>5, <1>9, <2>2, <2>3, <2>4, <2>5 DEF WrCreate, IsNode
<1>13. WrFind' /\ WrFound' /\ WrPurpose' /\ WrUnlink'
  <2>1. wr'.pc \in {"extend", "create"}
    BY <1>9
  <2> QED
    BY <2>1 DEF WrFind, WrFound, WrPurpose, WrUnlink
<1> QED
  BY <1>5, <1>10, <1>11, <1>12, <1>13, SettledTree, StoresNothing DEF WriterInv

\* radix_tree_delete_item() and radix_tree_lookup_slot() start to look for
\* their index.
LEMMA FindStarts ==
  ASSUME RadixInv, NEW i \in Keys, NEW item \in Items \cup {NULL}, i <= RootMax,
         NEW find \in {"delete_find", "replace_find"},
         NEW found \in {"delete", "replace"},
         find = "delete_find" <=> found = "delete",
         find = "delete_find" => map[i] # NULL,
         find = "replace_find" => item \in Items,
         wr.pc = "idle",
         wr' = [WriterIdle EXCEPT !.pc = IF IsNode(rnode) THEN find ELSE found,
                                  !.index = i, !.item = item, !.child = rnode],
         UNCHANGED <<rnode, node, live, grace, rd, smashed, map, failed>>
  PROVE  RadixInv'
<1>1. /\ i \in 0 .. ULONG - 1 /\ i \in Nat /\ rnode \in Entries /\ NULL \in Entries
      /\ 0 \in 0 .. TopShift /\ 0 \in 0 .. TopShift + 1
  BY Kinds, RadixTreeAssumption DEF RadixInv, Types, Entries
<1>2. PICK pc : /\ pc \in {"delete_find", "replace_find", "delete", "replace"}
                /\ pc = IF IsNode(rnode) THEN find ELSE found
  OBVIOUS
<1>3. wr' = [pc |-> pc, index |-> i, item |-> item, node |-> NULL, child |-> rnode,
             shift |-> 0, top |-> 0]
  BY <1>2 DEF WriterIdle
<1>4. /\ wr'.pc = IF IsNode(rnode) THEN find ELSE found
      /\ wr'.index = i /\ wr'.item = item /\ wr'.node = NULL /\ wr'.child = rnode
      /\ wr' \in WriterRecs
  <2>1. PICK y : y = [pc |-> pc, index |-> i, item |-> item, node |-> NULL,
                      child |-> rnode, shift |-> 0, top |-> 0]
    OBVIOUS
  <2>2. y \in WriterRecs
    BY <1>1, <1>2, <2>1 DEF WriterRecs
  <2>3. wr' = y
    BY <1>3, <2>1
  <2>4. y.pc = pc /\ y.index = i /\ y.item = item /\ y.node = NULL /\ y.child = rnode
    BY <2>1
  <2> QED
    BY <1>2, <2>2, <2>3, <2>4
<1>5. WrFind'
  <2>1. IsNode(rnode) => rnode \in live /\ Under(rnode, i)
    BY RoomInRoot DEF IsNode, RadixInv, TreeInv, RootOK
  <2>2. wr'.pc \in {"delete_find", "replace_find"} => IsNode(rnode)
    BY <1>4
  <2> QED
    BY <1>4, <2>1, <2>2 DEF WrFind
<1>6. WrFound'
  <2>1. ~IsNode(rnode) => rnode \notin NodeIds /\ i = 0
    BY RoomInRoot DEF IsNode
  <2>2. wr'.pc \in {"delete", "replace"} => ~IsNode(rnode)
    BY <1>4
  <2> QED
    BY <1>4, <2>1, <2>2 DEF WrFound
<1>7. WrPurpose'
  <2>1. wr'.pc \in {"delete_find", "delete"} => find = "delete_find"
    BY <1>4
  <2>2. wr'.pc \in {"replace_find", "replace"} => find = "replace_find"
    BY <1>4
  <2> QED
    BY <1>4, <2>1, <2>2 DEF WrPurpose
<1>8. WrExtend' /\ WrCreate' /\ WrUnlink'
  <2>1. wr'.pc \in {"delete_find", "replace_find", "delete", "replace"}
    BY <1>4
  <2> QED
    BY <2>1 DEF WrExtend, WrCreate, WrUnlink
<1> QED
  BY <1>4, <1>5, <1>6, <1>7, <1>8, SettledTree, StoresNothing DEF WriterInv

\* radix_tree_lookup_slot() starts at the root.
LEMMA LookupSlotStep ==
  ASSUME RadixInv, NEW i \in Keys, NEW item \in Items, LookupSlot(i, item)
  PROVE  RadixInv'
BY FindStarts DEF LookupSlot

\* So does radix_tree_delete_item(), for an index that is present.
LEMMA DeleteStep ==
  ASSUME RadixInv, DeleteAbsent = FALSE, NEW i \in Keys, NEW item \in Items \cup {NULL},
         Delete(i, item)
  PROVE  RadixInv'
BY FindStarts DEF Delete

\* The writer's turn of the loop of __radix_tree_lookup().
LEMMA WriterDescendStep ==
  ASSUME RadixInv, WriterDescend
  PROVE  RadixInv'
<1> DEFINE n == wr.child
           i == wr.index
           e == Entry(n, i)
           last == n[1] = 0 \/ ~IsNode(e)
           pc == IF last THEN IF wr.pc = "delete_find" THEN "delete" ELSE "replace"
                 ELSE wr.pc
           new == [pc |-> pc, index |-> i, item |-> wr.item, node |-> n, child |-> e,
                   shift |-> wr.shift, top |-> wr.top]
<1>1. /\ wr.pc \in {"delete_find", "replace_find"}
      /\ UNCHANGED <<rnode, node, live, grace, rd, smashed, map, failed>>
  BY DEF WriterDescend
<1>2. n \in live /\ i \in Keys /\ Under(n, i)
  BY <1>1 DEF RadixInv, WriterInv, WrFind
<1>3. n \in NodeIds /\ n \in Entries /\ node[n].shift = n[1] /\ n[1] \in 0 .. TopShift
        /\ n # NULL
  <2> HIDE DEF n
  <2>1. n \in NodeIds
    BY <1>2 DEF RadixInv, Types
  <2> QED
    BY <1>2, <2>1, NodeNames, Kinds DEF Entries, RadixInv, TreeInv, Shaped
<1>4. /\ Below(n, i) = e /\ e \in Entries
      /\ n[1] > 0 /\ e # NULL => e \in live /\ Under(e, i)
      /\ n[1] = 0 => e \notin NodeIds
  <2> HIDE DEF n, i
  <2> QED
    BY <1>2, Loaded
<1>5. wr \in WriterRecs
  BY DEF RadixInv, Types
<1>6. wr' = new
  <2>1. PICK y : y = [wr EXCEPT !.node = n, !.child = e, !.pc = IF last THEN "done" ELSE @]
    OBVIOUS
  <2>2. Deeper(wr, Below(n, i)) = y
    BY <1>3, <1>4, <2>1 DEF Deeper
  <2> HIDE DEF e, n, last
  <2>3. y = [pc |-> IF last THEN "done" ELSE wr.pc, index |-> i, item |-> wr.item,
             node |-> n, child |-> e, shift |-> wr.shift, top |-> wr.top]
    BY <1>5, <2>1 DEF WriterRecs
  <2>4. y.pc # "done" <=> ~last
    BY <1>1, <2>3
  <2>5. wr' = IF y.pc # "done" THEN y
              ELSE [y EXCEPT !.pc = IF wr.pc = "delete_find" THEN "delete" ELSE "replace"]
    BY <2>2 DEF WriterDescend, n
  <2> QED
    BY <2>3, <2>4, <2>5
<1> HIDE DEF e, last
<1>7. /\ wr'.pc = pc /\ wr'.index = i /\ wr'.item = wr.item /\ wr'.node = n /\ wr'.child = e
  BY <1>6
<1>8. wr' \in WriterRecs
  <2>1. pc \in {"delete_find", "replace_find", "delete", "replace"}
    BY <1>1
  <2> HIDE DEF n, i, pc
  <2> QED
    BY <1>3, <1>4, <1>5, <1>6, <2>1 DEF WriterRecs, i
<1>9. WrFind'
  <2>1. ASSUME wr'.pc \in {"delete_find", "replace_find"}
        PROVE  e \in live /\ Under(e, i)
    <3>1. ~last
      BY <1>7, <2>1
    <3>2. n[1] # 0 /\ e # NULL
      BY <3>1, Kinds DEF last, IsNode
    <3> QED
      BY <1>3, <1>4, <3>2
  <2> QED
    BY <1>1, <1>2, <1>7, <2>1 DEF WrFind
<1>10. WrFound'
  <2>1. ASSUME wr'.pc \in {"delete", "replace"}
        PROVE  n[1] = 0 \/ e = NULL
    <3>1. last
      BY <1>1, <1>7, <2>1
    <3>2. e \in live => e \in NodeIds
      BY DEF RadixInv, Types
    <3> QED
      BY <1>3, <1>4, <3>1, <3>2 DEF last, IsNode
  <2>2. node'[n].slots[Offset(i, n[1])] = e
    BY <1>1 DEF e, Entry
  <2> HIDE DEF n, i, pc
  <2> QED
    BY <1>1, <1>2, <1>3, <1>7, <2>1, <2>2 DEF WrFound, Entry
<1>11. WrPurpose'
  <2>1. wr'.pc \in {"delete_find", "delete"} => wr.pc = "delete_find"
    BY <1>1, <1>7
  <2>2. wr'.pc \in {"replace_find", "replace"} => wr.pc = "replace_find"
    BY <1>1, <1>7
  <2> QED
    BY <1>1, <1>7, <2>1, <2>2 DEF RadixInv, WriterInv, WrPurpose
<1>12. WrExtend' /\ WrCreate' /\ WrUnlink'
  <2>1. wr'.pc \in {"delete_find", "replace_find", "delete", "replace"}
    BY <1>1, <1>7
  <2> QED
    BY <2>1 DEF WrExtend, WrCreate, WrUnlink
<1> QED
  BY <1>1, <1>8, <1>9, <1>10, <1>11, <1>12, SettledTree, StoresNothing DEF WriterInv

\* An insert that runs out of memory leaves the tree as it is.
LEMMA NoMemoryStep ==
  ASSUME RadixInv, NoMemory
  PROVE  RadixInv'
<1>1. /\ wr' = WriterIdle /\ failed' = TRUE
      /\ UNCHANGED <<rnode, node, live, grace, rd, smashed, map>>
  BY DEF NoMemory, Return
<1>2. WriterInv' /\ wr' \in WriterRecs
  BY <1>1, Idle
<1>3. HeightInv'
  BY <1>1 DEF HeightInv, NonEmpty, Height
<1> QED
  BY <1>1, <1>2, <1>3, WriterMoved DEF RadixInv

\* An index that needs the top level of a tree is not in its leftmost part.
LEMMA NotLeftmost ==
  ASSUME NEW i \in Keys, NEW s \in 0 .. TopShift,
         i \div MAP_SIZE^(s + 1) = 0, i \div MAP_SIZE^s # 0
  PROVE  Offset(i, s) # 0
<1>1. /\ i \div MAP_SIZE^s = (i \div MAP_SIZE^(s + 1)) * MAP_SIZE + Offset(i, s)
      /\ Offset(i, s) \in Slots
  BY OffsetStep, Kinds
<1>2. 0 * MAP_SIZE + 0 = 0
  BY RadixTreeAssumption
<1> QED
  BY <1>1, <1>2

\* radix_tree_extend() puts one more node above the root.
LEMMA ExtendStep ==
  ASSUME RadixInv, Extend
  PROVE  RadixInv'
<1>1. wr.pc = "extend"
  BY DEF Extend
<1>2. CASE NoMemory
  BY <1>2, NoMemoryStep
<1>3. CASE ExtendNode
  <2> DEFINE s == wr.shift
             i == wr.index
  <2>1. /\ wr.node = NULL /\ i \in Keys /\ wr.item \in Items /\ rnode # NULL
        /\ wr.child \in live \cup Items
        /\ s = RootShift /\ s <= wr.top
        /\ i \div MAP_SIZE^(wr.top + 1) = 0 /\ i \div MAP_SIZE^wr.top # 0
    BY <1>1 DEF RadixInv, WriterInv, WrExtend
  <2>2. wr \in WriterRecs /\ wr.top \in 0 .. TopShift /\ s \in 0 .. TopShift
    <3>1. wr \in WriterRecs
      BY DEF RadixInv, Types
    <3>2. wr.top \in 0 .. TopShift /\ s \in 0 .. TopShift + 1 /\ TopShift \in Nat
      BY <3>1, RadixTreeAssumption DEF WriterRecs
    <3> QED
      BY <2>1, <3>1, <3>2
  <2>3. PICK n \in Fresh(s, 0) :
          /\ rnode' = n /\ live' = live \cup {n}
          /\ node' = [m \in NodeIds |->
                        IF m = n THEN NewRoot(s, rnode)
                        ELSE IF m = rnode THEN [node[m] EXCEPT !.parent = n]
                        ELSE node[m]]
          /\ smashed' = (smashed \/ ~IsNode(rnode))
          /\ wr' = IF s < wr.top
                   THEN [wr EXCEPT !.shift = @ + 1]
                   ELSE [wr EXCEPT !.pc = "create", !.shift = @ + 1, !.top = 0, !.child = n]
          /\ UNCHANGED <<grace, rd, map, failed>>
    BY <1>3 DEF ExtendNode
  <2> HIDE DEF s
  <2>4. /\ node' \in [NodeIds -> NodeRecs]
        /\ n \in NodeIds /\ n[1] = s /\ n \notin live
        /\ TreeInv' /\ MapInv' /\ GraceInv' /\ ReaderInv'
        /\ node'[n].count # 0
        /\ \A m \in live : node'[m].slots = node[m].slots /\ node'[m].count = node[m].count
    BY <2>1, <2>2, <2>3, RootRaised
  <2>5. /\ wr'.node = NULL /\ wr'.index = i /\ wr'.item = wr.item /\ wr'.shift = s + 1
        /\ wr' \in WriterRecs
        /\ s < wr.top => /\ wr'.pc = "extend" /\ wr'.child = wr.child /\ wr'.top = wr.top
        /\ ~(s < wr.top) => wr'.pc = "create" /\ wr'.child = n
    <3>1. s + 1 \in 0 .. TopShift + 1 /\ 0 \in 0 .. TopShift /\ n \in Entries
      BY <2>2, <2>4, RadixTreeAssumption DEF Entries
    <3>2. CASE s < wr.top
      <4>1. wr' = [wr EXCEPT !.shift = s + 1]
        BY <2>3, <3>2 DEF s
      <4> QED
        BY <1>1, <2>1, <2>2, <3>1, <3>2, <4>1 DEF WriterRecs
    <3>3. CASE ~(s < wr.top)
      <4>1. PICK y : y = [wr EXCEPT !.pc = "create", !.shift = s + 1, !.top = 0, !.child = n]
        OBVIOUS
      <4>2. wr' = y
        BY <2>3, <3>3, <4>1 DEF s
      <4>3. y = [pc |-> "create", index |-> i, item |-> wr.item, node |-> wr.node,
                 child |-> n, shift |-> s + 1, top |-> 0]
        BY <2>2, <4>1 DEF WriterRecs
      <4>4. y \in WriterRecs
        BY <2>2, <3>1, <4>3 DEF WriterRecs
      <4> QED
        BY <2>1, <3>3, <4>2, <4>3, <4>4
    <3> QED
      BY <3>2, <3>3
  <2>6. Types'
    <3>1. n \in Entries /\ retired' = retired /\ grace' = grace
      BY <2>3, <2>4 DEF Entries, retired
    <3>2. n \notin retired
      BY <2>2, <2>3, FreshNode
    <3> QED
      BY <2>3, <2>4, <2>5, <3>1, <3>2 DEF RadixInv, Types
  <2>7. n # NULL /\ n \notin Items /\ NULL \notin live'
    BY <2>3, <2>4, Kinds DEF RadixInv, Types
  <2>8. WrExtend'
    <3> SUFFICES ASSUME wr'.pc = "extend" PROVE WrExtend'
      BY DEF WrExtend
    <3>1. s < wr.top
      BY <2>5
    <3>2. RootShift' = s + 1
      BY <2>3, <2>4 DEF RootShift, IsNode, TreeInv, Shaped
    <3>3. s + 1 <= wr.top
      BY <2>2, <3>1
    <3> QED
      BY <2>1, <2>3, <2>5, <2>7, <3>1, <3>2, <3>3 DEF WrExtend
  <2>9. ASSUME wr'.pc = "create"
        PROVE  i \div MAP_SIZE^(s + 1) = 0 /\ Offset(i, n[1]) # 0 /\ wr'.child = n
    <3>1. ~(s < wr.top) /\ s = wr.top
      BY <2>1, <2>2, <2>5, <2>9
    <3>2. Offset(i, s) # 0
      BY <2>1, <2>2, <3>1, NotLeftmost
    <3> QED
      BY <2>1, <2>4, <2>5, <3>1, <3>2
  <2>10. WrCreate'
    <3> SUFFICES ASSUME wr'.pc = "create" PROVE WrCreate'
      BY DEF WrCreate
    <3> QED
      BY <2>1, <2>3, <2>4, <2>5, <2>7, <2>9 DEF WrCreate
  <2>11. WrFind' /\ WrFound' /\ WrPurpose' /\ WrUnlink'
    <3>1. wr'.pc \in {"extend", "create"}
      BY <2>5
    <3> QED
      BY <3>1 DEF WrFind, WrFound, WrPurpose, WrUnlink
  <2>12. NonEmpty'
    <3>1. ~failed => \A m \in live : m[1] > 0 => node[m].count # 0
      BY <1>1 DEF RadixInv, HeightInv, NonEmpty
    <3> QED
      BY <2>3, <2>4, <3>1 DEF NonEmpty
  <2>13. Height'
    <3>1. wr'.pc = "extend" \/ wr'.pc = "create"
      BY <2>5
    <3> QED
      BY <2>3, <2>5, <2>9, <3>1 DEF Height
  <2> QED
    BY <2>4, <2>6, <2>8, <2>10, <2>11, <2>12, <2>13 DEF RadixInv, WriterInv, HeightInv
<1> QED
  BY <1>2, <1>3 DEF Extend

\* __radix_tree_create() makes the node that is missing.
LEMMA CreateChildStep ==
  ASSUME RadixInv, wr.pc = "create", wr.shift > 0, wr.child = NULL, CreateChild
  PROVE  RadixInv'
<1>0. PICK s, i, p : s = wr.shift - 1 /\ i = wr.index /\ p = wr.node
  OBVIOUS
<1>1. wr \in WriterRecs /\ wr.shift \in 1 .. TopShift + 1 /\ s \in 0 .. TopShift
        /\ i \in Keys /\ s + 1 = wr.shift /\ wr.item \in Items
  <2>1. wr \in WriterRecs /\ i \in Keys /\ wr.item \in Items
    BY <1>0 DEF RadixInv, Types, WriterInv, WrCreate
  <2>2. wr.shift \in 0 .. TopShift + 1 /\ TopShift \in Nat
    BY <2>1, RadixTreeAssumption DEF WriterRecs
  <2> QED
    BY <1>0, <2>1, <2>2
<1>2. PICK n \in Fresh(s, i) :
        /\ Store([node EXCEPT ![n] = [Blank EXCEPT
                    !.shift = s, !.parent = p,
                    !.offset = IF p = NULL THEN 0 ELSE Offset(i, node[p].shift)]],
                 p, i, n, 1)
        /\ live' = live \cup {n}
        /\ wr' = [wr EXCEPT !.node = n, !.child = NULL, !.shift = @ - 1]
        /\ UNCHANGED <<grace, rd, smashed, map, failed>>
  BY <1>0 DEF CreateChild
<1>3. n \in NodeIds /\ n \notin retired /\ n \in Entries /\ n # NULL
  <2>1. n \in NodeIds /\ n \notin retired
    BY <1>1, <1>2, FreshNode, Kinds
  <2> QED
    BY <2>1, Kinds DEF Entries
<1>4. /\ wr'.node = n /\ wr'.index = i /\ wr'.item = wr.item /\ wr'.shift = s
      /\ wr'.child = NULL /\ wr'.pc = "create" /\ wr' \in WriterRecs
  <2>1. PICK y : y = [wr EXCEPT !.node = n, !.child = NULL, !.shift = s]
    OBVIOUS
  <2>2. wr' = y
    BY <1>0, <1>1, <1>2, <2>1
  <2>3. y = [pc |-> "create", index |-> i, item |-> wr.item, node |-> n,
             child |-> NULL, shift |-> s, top |-> wr.top]
    BY <1>0, <1>1, <2>1 DEF WriterRecs
  <2>4. s \in 0 .. TopShift + 1 /\ NULL \in Entries
    BY <1>1, RadixTreeAssumption DEF Entries
  <2>5. y \in WriterRecs
    BY <1>0, <1>1, <1>3, <2>3, <2>4 DEF WriterRecs
  <2> QED
    BY <2>2, <2>3, <2>5
<1>5. /\ node' \in [NodeIds -> NodeRecs] /\ n[1] = s /\ rnode' \in Entries
      /\ TreeInv' /\ MapInv' /\ GraceInv' /\ ReaderInv' /\ HeightInv'
      /\ Under(n, i) /\ \A t \in Slots : node'[n].slots[t] = NULL
  <2>1. CASE p = NULL
    <3>1. rnode = NULL /\ i \div MAP_SIZE^(s + 1) = 0
            /\ (wr.shift > 1 => i \div MAP_SIZE^s # 0)
      BY <1>0, <1>1, <2>1 DEF RadixInv, WriterInv, WrCreate
    <3>2. rnode' = n /\ node' = [node EXCEPT ![n] = [Blank EXCEPT
                                   !.shift = s, !.parent = NULL, !.offset = 0]]
      BY <1>2, <2>1 DEF Store
    <3>3. /\ node' \in [NodeIds -> NodeRecs] /\ n[1] = s
          /\ TreeInv' /\ MapInv' /\ GraceInv' /\ ReaderInv'
          /\ Under(n, i) /\ live' = {n} /\ \A t \in Slots : node'[n].slots[t] = NULL
      <4> QED
        BY <1>1, <1>2, <3>1, <3>2, FirstNode
    <3>4. NonEmpty'
      BY <1>4, <3>3 DEF NonEmpty
    <3>5. Height'
      <4>1. n[1] > 0 => Offset(i, n[1]) # 0
        BY <1>1, <3>1, <3>3, NotLeftmost
      <4> QED
        BY <1>4, <3>2, <4>1 DEF Height
    <3> QED
      BY <1>3, <3>2, <3>3, <3>4, <3>5 DEF HeightInv
  <2>2. CASE p # NULL
    <3>1. p \in live /\ p[1] = wr.shift /\ Under(p, i) /\ Entry(p, i) = NULL
      BY <1>0, <2>2 DEF RadixInv, WriterInv, WrCreate
    <3>2. node[p].shift = p[1] /\ p[1] - 1 = s /\ p[1] > 0
      BY <1>0, <1>1, <3>1 DEF RadixInv, TreeInv, Shaped
    <3>3. PICK nodes :
            nodes = [node EXCEPT ![n] = [Blank EXCEPT !.shift = s, !.parent = p,
                                                      !.offset = Offset(i, p[1])]]
      OBVIOUS
    <3>a. Store(nodes, p, i, n, 1)
      BY <1>2, <2>2, <3>2, <3>3
    <3>b. /\ nodes \in [NodeIds -> NodeRecs] /\ \A m \in NodeIds \ {n} : nodes[m] = node[m]
          /\ nodes[n].shift = p[1] - 1 /\ nodes[n].parent = p
          /\ nodes[n].offset = Offset(i, p[1]) /\ nodes[n].count = 0
          /\ nodes[n].slots = Blank.slots
      <4>1. PICK y : y = [shift |-> s, offset |-> Offset(i, p[1]), count |-> 0,
                          parent |-> p, slots |-> Blank.slots]
        OBVIOUS
      <4>2. [Blank EXCEPT !.shift = s, !.parent = p, !.offset = Offset(i, p[1])] = y
        BY <4>1, BlankMade
      <4>3. p \in NodeIds /\ p[1] \in 0 .. TopShift /\ i \in Nat
        <5>1. p \in NodeIds
          BY <3>1 DEF RadixInv, Types
        <5> QED
          BY <1>1, <5>1, NodeNames, Kinds
      <4>4. Offset(i, p[1]) \in Slots
        BY <4>3, OffsetStep
      <4>5. y \in NodeRecs
        <5>1. Blank.slots \in [Slots -> Entries] /\ 0 \in 0 .. UINT - 1
          BY BlankNode DEF NodeRecs
        <5> QED
          BY <1>1, <4>1, <4>3, <4>4, <5>1 DEF NodeRecs
      <4>6. node \in [NodeIds -> NodeRecs] /\ nodes = [node EXCEPT ![n] = y]
        BY <3>3, <4>2 DEF RadixInv, Types
      <4>7. nodes \in [NodeIds -> NodeRecs] /\ nodes[n] = y
              /\ \A m \in NodeIds \ {n} : nodes[m] = node[m]
        BY <1>3, <4>5, <4>6
      <4> QED
        BY <3>2, <4>1, <4>7
    <3>4. /\ node' \in [NodeIds -> NodeRecs] /\ rnode' = rnode
          /\ n[1] = p[1] - 1 /\ n \notin live
          /\ TreeInv' /\ MapInv' /\ GraceInv' /\ ReaderInv'
          /\ Under(n, i) /\ \A t \in Slots : node'[n].slots[t] = NULL
          /\ \A m \in live \ {p} : node'[m] = node[m]
          /\ node'[p].count # 0 /\ node'[p].slots[Offset(i, p[1])] = n
          /\ \A t \in Slots \ {Offset(i, p[1])} : node'[p].slots[t] = node[p].slots[t]
      <4>1. n \in Fresh(p[1] - 1, i)
        BY <1>2, <3>2
      <4>2. live' = live \cup {n} /\ UNCHANGED <<grace, rd, map>> /\ i \in Keys
        BY <1>1, <1>2
      <4>3. p[1] > 0
        BY <3>2
      <4> QED
        BY <3>1, <3>a, <3>b, <4>1, <4>2, <4>3, ChildAdded
    <3>5. NonEmpty'
      <4>1. ~failed => \A m \in live : m[1] > 0 /\ m # p => node[m].count # 0
        BY <1>0 DEF RadixInv, HeightInv, NonEmpty
      <4> QED
        BY <1>2, <1>4, <3>4, <4>1 DEF NonEmpty
    <3>6. Height'
      <4> SUFFICES ASSUME ~failed, rnode \in NodeIds, rnode[1] > 0, Single'
                   PROVE  FALSE
        BY <1>2, <3>4 DEF Height
      <4>1. rnode \in live
        BY DEF RadixInv, TreeInv, RootOK
      <4>2. CASE p # rnode
        <5>1. Single
          BY <3>4, <4>1, <4>2 DEF Single
        <5> QED
          BY <1>0, <2>2, <4>2, <5>1 DEF RadixInv, HeightInv, Height
      <4>3. CASE p = rnode
        <5>1. Offset(i, p[1]) \in Slots
          <6>1. p[1] \in 0 .. TopShift /\ i \in Nat
            BY <1>1, <4>3, NodeNames, Kinds
          <6> QED
            BY <6>1, OffsetStep
        <5>2. Offset(i, p[1]) = 0
          BY <1>3, <3>4, <4>3, <5>1 DEF Single
        <5>3. Single
          BY <3>4, <4>3, <5>2 DEF Single
        <5> QED
          BY <1>0, <4>3, <5>2, <5>3 DEF RadixInv, HeightInv, Height
      <4> QED
        BY <4>2, <4>3
    <3>7. rnode' \in Entries
      BY <3>4 DEF RadixInv, Types
    <3> QED
      BY <3>2, <3>4, <3>5, <3>6, <3>7 DEF HeightInv
  <2> QED
    BY <2>1, <2>2
<1>6. Types'
  <2>1. /\ retired' = retired /\ grace' = grace /\ live' = live \cup {n}
        /\ UNCHANGED <<rd, smashed, map, failed>>
    BY <1>2 DEF retired
  <2>2. live \subseteq NodeIds /\ retired \subseteq NodeIds \ live
    BY DEF RadixInv, Types
  <2>3. live' \subseteq NodeIds /\ retired' \subseteq NodeIds \ live'
    BY <1>3, <2>1, <2>2
  <2>4. /\ grace' \in [retired' -> SUBSET Readers] /\ rd' \in [Readers -> ReaderRecs]
        /\ map' \in [Keys -> Items \cup {NULL}]
        /\ smashed' \in BOOLEAN /\ failed' \in BOOLEAN
    BY <2>1 DEF RadixInv, Types
  <2> QED
    BY <1>4, <1>5, <2>3, <2>4 DEF Types
<1>7. WrCreate'
  <2>1. Offset(i, n[1]) \in Slots
    <3>1. n[1] \in 0 .. TopShift /\ i \in Nat
      BY <1>1, <1>3, NodeNames, Kinds
    <3> QED
      BY <3>1, OffsetStep
  <2>2. node'[n].slots[Offset(i, n[1])] = NULL
    BY <1>5, <2>1
  <2> QED
    BY <1>1, <1>2, <1>3, <1>4, <1>5, <2>2 DEF WrCreate, Entry
<1>8. WrExtend' /\ WrFind' /\ WrFound' /\ WrPurpose' /\ WrUnlink'
  BY <1>4 DEF WrExtend, WrFind, WrFound, WrPurpose, WrUnlink
<1> QED
  BY <1>5, <1>6, <1>7, <1>8 DEF RadixInv, WriterInv

\* __radix_tree_create() goes on to the node that is there.
LEMMA FollowChildStep ==
  ASSUME RadixInv, wr.pc = "create", wr.shift > 0, wr.child # NULL, FollowChild
  PROVE  RadixInv'
<1>0. PICK i, p, c : i = wr.index /\ p = wr.node /\ c = wr.child
  OBVIOUS
<1>1. wr \in WriterRecs /\ wr.shift \in 1 .. TopShift + 1 /\ i \in Keys /\ wr.item \in Items
        /\ wr.shift - 1 \in 0 .. TopShift + 1
  <2>1. wr \in WriterRecs /\ i \in Keys /\ wr.item \in Items
    BY <1>0 DEF RadixInv, Types, WriterInv, WrCreate
  <2>2. wr.shift \in 0 .. TopShift + 1 /\ TopShift \in Nat
    BY <2>1, RadixTreeAssumption DEF WriterRecs
  <2> QED
    BY <2>1, <2>2
<1>2. /\ UNCHANGED <<rnode, node, live, grace, rd, smashed, map, failed>>
      /\ wr' = [wr EXCEPT !.node = c, !.child = Below(c, i), !.shift = @ - 1]
  BY <1>0 DEF FollowChild
<1>3. rnode \in NodeIds => rnode \in live /\ rnode[2] = 0 /\ rnode[1] \in 0 .. TopShift
  BY NodeNames DEF RadixInv, TreeInv, RootOK
<1>4. ASSUME p = NULL
      PROVE  rnode \in NodeIds /\ c = rnode /\ wr.shift = rnode[1] + 1 /\ Under(rnode, i)
  <2>1. /\ c = rnode /\ i \div MAP_SIZE^wr.shift = 0
        /\ rnode \in NodeIds => wr.shift = rnode[1] + 1
        /\ rnode \in Items => wr.shift = 0
    BY <1>0, <1>4 DEF RadixInv, WriterInv, WrCreate, IsNode
  <2>2. rnode \in NodeIds
    <3>1. rnode \in Entries /\ rnode # NULL
      BY <1>0, <2>1 DEF RadixInv, Types
    <3> QED
      BY <2>1, <3>1, Kinds
  <2> QED
    BY <1>3, <2>1, <2>2 DEF Under
<1>5. ASSUME p # NULL
      PROVE  /\ p \in live /\ p[1] = wr.shift /\ Under(p, i) /\ c = Entry(p, i)
             /\ c \in live /\ c[1] = p[1] - 1 /\ Under(c, i) /\ node[p].count # 0
  <2>1. p \in live /\ p[1] = wr.shift /\ Under(p, i) /\ c = Entry(p, i)
    BY <1>0, <1>5 DEF RadixInv, WriterInv, WrCreate
  <2>2. p[1] > 0 /\ c # NULL
    BY <1>0, <2>1
  <2> QED
    BY <1>1, <2>1, <2>2, Loaded
<1>6. c \in live /\ c[1] = wr.shift - 1 /\ Under(c, i)
  <2>1. CASE p = NULL
    <3>1. (rnode[1] + 1) - 1 = rnode[1]
      BY <1>3, <1>4, <2>1
    <3> QED
      BY <1>3, <1>4, <2>1, <3>1
  <2>2. CASE p # NULL
    BY <1>5, <2>2
  <2> QED
    BY <2>1, <2>2
<1>7. Below(c, i) = Entry(c, i) /\ Entry(c, i) \in Entries /\ c \in Entries /\ c # NULL
  <2>1. c \in NodeIds
    BY <1>6 DEF RadixInv, Types
  <2> QED
    BY <1>1, <1>6, <2>1, Loaded, Kinds DEF Entries
<1>8. /\ wr'.node = c /\ wr'.child = Entry(c, i) /\ wr'.shift = wr.shift - 1
      /\ wr'.pc = "create" /\ wr'.index = i /\ wr'.item = wr.item
      /\ wr' \in WriterRecs
  <2>1. PICK e, s : e = Below(c, i) /\ s = wr.shift - 1
    OBVIOUS
  <2>2. PICK y : y = [wr EXCEPT !.node = c, !.child = e, !.shift = s]
    OBVIOUS
  <2>3. wr' = y
    BY <1>2, <2>1, <2>2
  <2>4. y = [pc |-> "create", index |-> i, item |-> wr.item, node |-> c, child |-> e,
             shift |-> s, top |-> wr.top]
    BY <1>0, <1>1, <2>2 DEF WriterRecs
  <2>5. y \in WriterRecs
    BY <1>0, <1>1, <1>7, <2>1, <2>4 DEF WriterRecs
  <2> QED
    BY <1>7, <2>1, <2>3, <2>4, <2>5
<1>9. WriterInv'
  <2>1. WrCreate'
    BY <1>1, <1>2, <1>6, <1>7, <1>8 DEF WrCreate, Entry
  <2>2. WrExtend' /\ WrFind' /\ WrFound' /\ WrPurpose' /\ WrUnlink'
    BY <1>8 DEF WrExtend, WrFind, WrFound, WrPurpose, WrUnlink
  <2> QED
    BY <2>1, <2>2 DEF WriterInv
<1>10. NonEmpty'
  <2>1. ~failed => \A m \in live : m[1] > 0 /\ m # p => node[m].count # 0
    BY <1>0 DEF RadixInv, HeightInv, NonEmpty
  <2>2. NULL \notin live
    BY Kinds DEF RadixInv, Types
  <2>3. ~failed => \A m \in live : m[1] > 0 => node[m].count # 0
    BY <1>5, <2>1, <2>2
  <2> QED
    BY <1>2, <2>3 DEF NonEmpty
<1>11. Height'
  <2> SUFFICES ASSUME ~failed, rnode \in NodeIds, rnode[1] > 0, Single
               PROVE  Offset(i, rnode[1]) # 0 /\ c = rnode
    BY <1>2, <1>8 DEF Height, Single
  <2>1. Offset(i, rnode[1]) # 0 /\ p \in {NULL, rnode}
    BY <1>0 DEF RadixInv, HeightInv, Height
  <2>2. p # rnode
    <3> SUFFICES ASSUME p = rnode PROVE FALSE
      OBVIOUS
    <3>0. rnode[1] \in 0 .. TopShift /\ i \in Nat
      BY <1>0, <1>1, NodeNames, Kinds
    <3>1. Offset(i, rnode[1]) \in Slots
      BY <3>0, OffsetStep
    <3>2. Entry(p, i) = NULL
      BY <2>1, <3>1 DEF Single, Entry
    <3> QED
      BY <1>0, <1>5, <3>2, Kinds
  <2> QED
    BY <1>4, <2>1, <2>2
<1> QED
  BY <1>2, <1>8, <1>9, <1>10, <1>11, WriterMoved DEF RadixInv, Types, HeightInv

\* A store that ends in a leaf or in the root, and the end of its call.
LEMMA LeafStep ==
  ASSUME RadixInv, NEW n \in live, n[1] = 0, NEW i \in Keys, Under(n, i),
         NEW e \in Items \cup {NULL}, NEW k \in {-1, 0, 1},
         k = (IF e # NULL THEN 1 ELSE 0) - (IF Entry(n, i) # NULL THEN 1 ELSE 0),
         Store(node, n, i, e, k), Remember(i, e), UNCHANGED <<live, grace, failed>>,
         Settled, wr' \in WriterRecs, WriterInv'
  PROVE  RadixInv'
<1>1. /\ node' \in [NodeIds -> NodeRecs] /\ rnode' = rnode
      /\ TreeInv' /\ MapInv' /\ GraceInv' /\ ReaderInv'
      /\ \A m \in NodeIds \ {n} : node'[m] = node[m]
  BY LeafStored
<1>2. /\ map' \in [Keys -> Items \cup {NULL}] /\ smashed' \in BOOLEAN
      /\ rd' \in [Readers -> ReaderRecs]
  BY Remembered DEF RadixInv, ReaderInv
<1>3. retired' = retired /\ live' = live /\ grace' = grace /\ failed' = failed
  BY DEF retired
<1>4. Types'
  BY <1>1, <1>2, <1>3 DEF RadixInv, Types
<1>5. \A m \in live : m[1] > 0 => node'[m] = node[m]
  <2>1. live \subseteq NodeIds
    BY DEF RadixInv, Types
  <2>2. \A m \in live : m[1] > 0 => m # n
    OBVIOUS
  <2> QED
    BY <1>1, <2>1, <2>2
<1>6. HeightInv'
  BY <1>1, <1>3, <1>5, StaysSettled
<1> QED
  BY <1>1, <1>4, <1>6 DEF RadixInv

\* The same for index 0 when the item is the root.
LEMMA RootStep ==
  ASSUME RadixInv, rnode \notin NodeIds, 0 \in Keys, NEW e \in Items \cup {NULL},
         rnode' = e, node' = node, Remember(0, e), UNCHANGED <<live, grace, failed>>,
         Settled, wr' \in WriterRecs, WriterInv'
  PROVE  RadixInv'
<1>1. TreeInv' /\ MapInv' /\ GraceInv' /\ ReaderInv'
  BY RootStored
<1>2. /\ map' \in [Keys -> Items \cup {NULL}] /\ smashed' \in BOOLEAN
      /\ rd' \in [Readers -> ReaderRecs]
  BY Remembered DEF RadixInv, ReaderInv
<1>3. retired' = retired /\ live' = live /\ grace' = grace /\ failed' = failed
        /\ rnode' \in Entries /\ rnode' \notin NodeIds
  BY Kinds DEF retired, Entries
<1>4. Types'
  BY <1>2, <1>3 DEF RadixInv, Types
<1>5. HeightInv'
  BY <1>3, StaysSettled
<1> QED
  BY <1>1, <1>4, <1>5 DEF RadixInv

\* insert_entries() stores the item, or returns -EEXIST.
LEMMA InsertEntryStep ==
  ASSUME RadixInv, InsertEntry
  PROVE  RadixInv'
<1>0. PICK i, p, item : i = wr.index /\ p = wr.node /\ item = wr.item
  OBVIOUS
<1>1. wr.pc = "create" /\ wr.shift = 0 /\ wr' = WriterIdle /\ UNCHANGED <<live, grace, failed>>
  BY DEF InsertEntry, Return
<1>2. wr' \in WriterRecs /\ WriterInv' /\ Settled
  BY <1>1, Idle, SettledTree
<1>3. i \in Keys /\ item \in Items /\ i \in Nat /\ item # NULL
  <2>1. i \in Keys /\ item \in Items
    BY <1>0, <1>1 DEF RadixInv, WriterInv, WrCreate
  <2> QED
    BY <2>1, Kinds
<1>4. CASE wr.child # NULL
  BY <1>1, <1>2, <1>4, StoresNothing DEF InsertEntry
<1>5. CASE wr.child = NULL
  <2>1. Store(node, p, i, item, 1) /\ Remember(i, item)
    BY <1>0, <1>5 DEF InsertEntry
  <2>2. CASE p = NULL
    <3>1. rnode = NULL /\ i \div MAP_SIZE^0 = 0
      BY <1>0, <1>1, <1>5, <2>2 DEF RadixInv, WriterInv, WrCreate
    <3>2. i = 0
      BY <1>3, <3>1, PowerAssumption
    <3>3. rnode \notin NodeIds
      BY <3>1, Kinds
    <3>4. rnode' = item /\ node' = node
      BY <2>1, <2>2 DEF Store
    <3> QED
      BY <1>1, <1>2, <1>3, <2>1, <3>2, <3>3, <3>4, RootStep
  <2>3. CASE p # NULL
    <3>1. p \in live /\ p[1] = 0 /\ Under(p, i) /\ Entry(p, i) = NULL
      BY <1>0, <1>1, <1>5, <2>3 DEF RadixInv, WriterInv, WrCreate
    <3>2. 1 = (IF item # NULL THEN 1 ELSE 0) - (IF Entry(p, i) # NULL THEN 1 ELSE 0)
      BY <1>3, <3>1
    <3> QED
      BY <1>1, <1>2, <1>3, <2>1, <3>1, <3>2, LeafStep
  <2> QED
    BY <2>2, <2>3
<1> QED
  BY <1>4, <1>5

\* radix_tree_replace_slot() stores the item in the slot that was found.
LEMMA ReplaceSlotStep ==
  ASSUME RadixInv, ReplaceSlot
  PROVE  RadixInv'
<1>0. PICK i, p, item : i = wr.index /\ p = wr.node /\ item = wr.item
  OBVIOUS
<1>1. wr.pc = "replace" /\ wr' = WriterIdle /\ UNCHANGED <<live, grace, failed>>
  BY DEF ReplaceSlot, Return
<1>2. wr' \in WriterRecs /\ WriterInv' /\ Settled
  BY <1>1, Idle, SettledTree
<1>3. i \in Keys /\ item \in Items /\ item # NULL
  BY <1>0, <1>1, Kinds DEF RadixInv, WriterInv, WrFound, WrPurpose
<1>4. CASE wr.child = NULL
  BY <1>1, <1>2, <1>4, StoresNothing DEF ReplaceSlot
<1>5. CASE wr.child # NULL
  <2>1. Store(node, p, i, item, 0) /\ Remember(i, item)
    BY <1>0, <1>5 DEF ReplaceSlot
  <2>2. CASE p = NULL
    <3>1. rnode \notin NodeIds /\ i = 0
      BY <1>0, <1>1, <2>2 DEF RadixInv, WriterInv, WrFound
    <3>2. rnode' = item /\ node' = node
      BY <2>1, <2>2 DEF Store
    <3> QED
      BY <1>1, <1>2, <1>3, <2>1, <3>1, <3>2, RootStep
  <2>3. CASE p # NULL
    <3>1. p \in live /\ p[1] = 0 /\ Under(p, i) /\ Entry(p, i) # NULL
      BY <1>0, <1>1, <1>5, <2>3 DEF RadixInv, WriterInv, WrFound
    <3>2. 0 = (IF item # NULL THEN 1 ELSE 0) - (IF Entry(p, i) # NULL THEN 1 ELSE 0)
      BY <1>3, <3>1
    <3> QED
      BY <1>1, <1>2, <1>3, <2>1, <3>1, <3>2, LeafStep
  <2> QED
    BY <2>2, <2>3
<1> QED
  BY <1>4, <1>5

\* radix_tree_delete_item() empties the slot that was found.
LEMMA DeleteEntryStep ==
  ASSUME RadixInv, DeleteEntry
  PROVE  RadixInv'
<1>0. PICK i, p : i = wr.index /\ p = wr.node
  OBVIOUS
<1>1. wr.pc = "delete" /\ UNCHANGED <<live, grace, failed>> /\ Settled
  BY SettledTree DEF DeleteEntry
<1>2. i \in Keys /\ map[i] # NULL
  BY <1>0, <1>1 DEF RadixInv, WriterInv, WrFound, WrPurpose
<1>3. CASE wr.item # NULL /\ wr.child # wr.item
  <2>1. wr' = WriterIdle /\ UNCHANGED <<rnode, node, rd, smashed, map>>
    BY <1>3 DEF DeleteEntry, Return
  <2>2. wr' \in WriterRecs /\ WriterInv'
    BY <2>1, Idle
  <2> QED
    BY <1>1, <2>1, <2>2, StoresNothing
<1>4. CASE ~(wr.item # NULL /\ wr.child # wr.item)
  <2>1. /\ Store(node, p, i, NULL, -1) /\ Remember(i, NULL)
        /\ wr' = IF p = NULL THEN WriterIdle
                 ELSE [WriterIdle EXCEPT !.pc = "unlink", !.node = p]
    BY <1>0, <1>4 DEF DeleteEntry
  <2>2. CASE p = NULL
    <3>1. rnode \notin NodeIds /\ i = 0
      BY <1>0, <1>1, <2>2 DEF RadixInv, WriterInv, WrFound
    <3>2. rnode' = NULL /\ node' = node /\ wr' = WriterIdle
      BY <2>1, <2>2 DEF Store
    <3>3. wr' \in WriterRecs /\ WriterInv'
      BY <3>2, Idle
    <3> QED
      BY <1>1, <1>2, <2>1, <3>1, <3>2, <3>3, RootStep
  <2>3. CASE p # NULL
    <3>1. p \in live /\ Under(p, i) /\ wr.child = Entry(p, i)
            /\ (p[1] = 0 \/ wr.child = NULL)
      BY <1>0, <1>1, <2>3 DEF RadixInv, WriterInv, WrFound
    <3>2. Entry(p, i) # NULL /\ p[1] = 0
      BY <1>2, <3>1 DEF RadixInv, MapInv, Absent
    <3>3. -1 = (IF NULL # NULL THEN 1 ELSE 0) - (IF Entry(p, i) # NULL THEN 1 ELSE 0)
      BY <3>2
    <3>4. wr'.pc = "unlink" /\ wr'.node = p /\ wr'.child = NULL /\ wr' \in WriterRecs
      <4>1. PICK y : y = [WriterIdle EXCEPT !.pc = "unlink", !.node = p]
        OBVIOUS
      <4>2. wr' = y
        BY <2>1, <2>3, <4>1
      <4>3. y = [pc |-> "unlink", index |-> 0, item |-> NULL, node |-> p,
                 child |-> NULL, shift |-> 0, top |-> 0]
        BY <4>1 DEF WriterIdle
      <4>4. p \in Entries /\ NULL \in Entries /\ 0 \in 0 .. ULONG - 1
              /\ 0 \in 0 .. TopShift /\ 0 \in 0 .. TopShift + 1
        BY <3>1, Kinds, RadixTreeAssumption DEF RadixInv, Types, Entries
      <4>5. y \in WriterRecs
        BY <4>3, <4>4 DEF WriterRecs
      <4> QED
        BY <4>2, <4>3, <4>5
    <3>5. WriterInv'
      BY <1>1, <3>1, <3>4
         DEF WriterInv, WrExtend, WrCreate, WrFind, WrFound, WrPurpose, WrUnlink
    <3> QED
      BY <1>1, <1>2, <2>1, <3>1, <3>2, <3>3, <3>4, <3>5, LeafStep
  <2> QED
    BY <2>2, <2>3
<1> QED
  BY <1>3, <1>4

\* Pruning and shrinking leave the writer's locals in its two loops.
LEMMA DeleteDone ==
  ASSUME RadixInv, TreeInv', MapInv', GraceInv', ReaderInv', HeapTypes',
         rnode' \in Entries, rd' = rd, smashed' = smashed, map' = map,
         failed' \in BOOLEAN, HeightInv', wr' \in WriterRecs,
         wr'.pc \in {"idle", "unlink", "shrink"}, WrUnlink'
  PROVE  RadixInv'
<1>1. Types'
  BY DEF HeapTypes, Types, RadixInv
<1>2. WriterInv'
  BY DEF WriterInv, WrExtend, WrCreate, WrFind, WrFound, WrPurpose
<1> QED
  BY <1>1, <1>2 DEF RadixInv

\* The writer is about to shrink the tree.
LEMMA ShrinkNext ==
  ASSUME wr' = [WriterIdle EXCEPT !.pc = "shrink"]
  PROVE  /\ wr'.pc = "shrink" /\ wr'.node = NULL /\ wr'.child = NULL
         /\ wr' \in WriterRecs
<1>1. PICK y : y = [WriterIdle EXCEPT !.pc = "shrink"]
  OBVIOUS
<1>2. y = [pc |-> "shrink", index |-> 0, item |-> NULL, node |-> NULL,
           child |-> NULL, shift |-> 0, top |-> 0]
  BY <1>1 DEF WriterIdle
<1>3. NULL \in Entries /\ 0 \in 0 .. ULONG - 1 /\ 0 \in 0 .. TopShift
        /\ 0 \in 0 .. TopShift + 1
  BY Kinds, RadixTreeAssumption DEF Entries
<1>4. y \in WriterRecs
  BY <1>2, <1>3 DEF WriterRecs
<1> QED
  BY <1>1, <1>2, <1>4

\* delete_node() frees a node that got empty and climbs to its parent, frees
\* the last node of the tree, or stops at a node that is still in use.
LEMMA UnlinkStep ==
  ASSUME RadixInv, Unlink
  PROVE  RadixInv'
<1>0. PICK n, p : n = wr.node /\ p = node[n].parent
  OBVIOUS
<1>1. /\ wr.pc = "unlink" /\ n \in live /\ wr.child = NULL /\ n \in NodeIds
      /\ wr \in WriterRecs /\ UNCHANGED <<rd, smashed, map>> /\ failed \in BOOLEAN
      /\ rnode \in Entries
  BY <1>0 DEF Unlink, RadixInv, Types, WriterInv, WrUnlink
<1>2. \A m \in live : ~failed /\ m[1] > 0 /\ m # n => node[m].count # 0
  BY <1>0, <1>1 DEF RadixInv, HeightInv, NonEmpty
<1>3. ~failed /\ rnode \in NodeIds /\ rnode[1] > 0 /\ Single => n = rnode
  BY <1>0, <1>1 DEF RadixInv, HeightInv, Height
<1>4. CASE node[n].count # 0
  <2>1. wr' = AfterUnlink(n) /\ UNCHANGED <<rnode, node, live, grace, failed>>
    BY <1>0, <1>4 DEF Unlink
  <2>2. /\ wr' \in WriterRecs /\ WrUnlink' /\ wr'.pc \in {"idle", "shrink"}
        /\ n = rnode => wr'.pc = "shrink"
    <3>1. CASE n = rnode
      BY <2>1, <3>1, ShrinkNext DEF AfterUnlink, WrUnlink
    <3>2. CASE n # rnode
      BY <2>1, <3>2, Idle DEF AfterUnlink, WrUnlink
    <3> QED
      BY <3>1, <3>2
  <2>3. NonEmpty'
    BY <1>2, <1>4, <2>1 DEF NonEmpty
  <2>4. Height'
    BY <1>3, <2>1, <2>2 DEF Height, Single
  <2>5. failed' \in BOOLEAN
    BY <1>1, <2>1
  <2>6. Types' /\ TreeInv' /\ MapInv' /\ GraceInv' /\ ReaderInv'
    BY <1>1, <2>1, <2>2, <2>5, WriterMoved
  <2>7. WriterInv'
    BY <2>2 DEF WriterInv, WrExtend, WrCreate, WrFind, WrFound, WrPurpose
  <2> QED
    BY <2>3, <2>4, <2>6, <2>7 DEF RadixInv, HeightInv
<1>5. CASE node[n].count = 0 /\ p = NULL
  <2>1. rnode' = NULL /\ Retire(node, n) /\ failed' = FALSE /\ wr' = WriterIdle
    BY <1>0, <1>5 DEF Unlink
  <2>2. TreeInv' /\ MapInv' /\ GraceInv' /\ ReaderInv' /\ HeapTypes' /\ live' = {}
    BY <1>0, <1>1, <1>5, <2>1, UnlinkedRoot
  <2>3. wr' \in WriterRecs /\ wr'.pc = "idle"
    BY <2>1, Idle
  <2>4. WrUnlink'
    BY <2>3 DEF WrUnlink
  <2>5. NonEmpty'
    BY <2>2 DEF NonEmpty
  <2>6. rnode' \in Entries /\ rnode' \notin NodeIds
    BY <2>1, Kinds DEF Entries
  <2>7. Height'
    BY <2>6 DEF Height
  <2> QED
    BY <1>1, <2>1, <2>2, <2>3, <2>4, <2>5, <2>6, <2>7, DeleteDone DEF HeightInv
<1>6. CASE node[n].count = 0 /\ p # NULL
  <2>1. /\ Retire([node EXCEPT ![p].slots[node[n].offset] = NULL,
                               ![p].count = (@ - 1) % UINT], n)
        /\ rnode' = rnode /\ failed' = failed /\ wr' = [wr EXCEPT !.node = p]
    BY <1>0, <1>6 DEF Unlink
  <2>2. /\ TreeInv' /\ MapInv' /\ GraceInv' /\ ReaderInv' /\ HeapTypes'
        /\ live' = live \ {n} /\ p \in live'
        /\ \A m \in live' : m # p => node'[m] = node[m]
    BY <1>0, <1>1, <1>6, <2>1, UnlinkedChild
  <2>3. /\ wr' \in WriterRecs /\ wr'.pc = "unlink" /\ wr'.node = p
        /\ wr'.child = NULL
    <3>1. PICK y : y = [wr EXCEPT !.node = p]
      OBVIOUS
    <3>2. y = [pc |-> "unlink", index |-> wr.index, item |-> wr.item, node |-> p,
               child |-> NULL, shift |-> wr.shift, top |-> wr.top]
      BY <1>1, <3>1 DEF WriterRecs
    <3>3. p \in Entries /\ NULL \in Entries
      BY <2>2 DEF RadixInv, Types, Entries
    <3>4. y \in WriterRecs
      BY <1>1, <3>2, <3>3 DEF WriterRecs
    <3> QED
      BY <2>1, <3>1, <3>2, <3>4
  <2>4. WrUnlink'
    BY <2>2, <2>3 DEF WrUnlink
  <2>5. NonEmpty'
    <3>1. \A m \in live' : ~failed /\ m[1] > 0 /\ m # p => node'[m].count # 0
      BY <1>2, <2>2
    <3> QED
      BY <2>1, <2>3, <3>1 DEF NonEmpty
  <2>6. Height'
    <3>1. n # rnode
      BY <1>0, <1>1, <1>6 DEF RadixInv, TreeInv, RootOK
    <3>2. rnode \in NodeIds => rnode \in live'
      BY <2>2, <3>1 DEF RadixInv, TreeInv, RootOK
    <3>3. ASSUME rnode \in NodeIds, p # rnode
          PROVE  node'[rnode] = node[rnode]
      BY <2>2, <3>2, <3>3
    <3> SUFFICES ASSUME ~failed, rnode \in NodeIds, rnode[1] > 0, Single'
                 PROVE  p = rnode
      BY <2>1, <2>3 DEF Height
    <3> QED
      BY <1>3, <2>1, <3>1, <3>3 DEF Single
  <2> QED
    BY <1>1, <2>1, <2>2, <2>3, <2>4, <2>5, <2>6, DeleteDone DEF HeightInv
<1> QED
  BY <1>4, <1>5, <1>6

\* radix_tree_shrink() lowers the tree by one level, or stops.
LEMMA ShrinkStep ==
  ASSUME RadixInv, Shrink
  PROVE  RadixInv'
<1>1. /\ wr.pc = "shrink" /\ wr \in WriterRecs /\ failed \in BOOLEAN
      /\ UNCHANGED <<rd, smashed, map, failed>>
      /\ wr.node = NULL /\ wr.child = NULL
  BY DEF Shrink, RadixInv, Types, WriterInv, WrUnlink
<1>2. \A m \in live : ~failed /\ m[1] > 0 => node[m].count # 0
  BY <1>1 DEF RadixInv, HeightInv, NonEmpty
<1>3. CASE CanShrink
  <2>1. /\ rnode' = node[rnode].slots[0]
        /\ Retire(Discarded(Orphaned(node[rnode].slots[0]), rnode), rnode)
        /\ wr' = wr
    BY <1>3 DEF Shrink
  <2>2. /\ TreeInv' /\ MapInv' /\ GraceInv' /\ ReaderInv' /\ HeapTypes'
        /\ rnode' \in live' /\ live' \subseteq live
        /\ \A m \in live' : node'[m].count = node[m].count
    BY <1>1, <1>3, <2>1, Shrunk
  <2>3. WrUnlink' /\ wr' \in WriterRecs /\ wr'.pc \in {"idle", "unlink", "shrink"}
    BY <1>1, <2>1 DEF WrUnlink
  <2>4. HeightInv'
    BY <1>1, <1>2, <2>1, <2>2 DEF HeightInv, NonEmpty, Height
  <2>5. rnode' \in Entries
    BY <2>2 DEF HeapTypes, Entries
  <2>6. failed' \in BOOLEAN
    BY <1>1
  <2> QED
    BY <1>1, <2>2, <2>3, <2>4, <2>5, <2>6, DeleteDone
<1>4. CASE ~CanShrink
  <2>1. wr' = WriterIdle /\ UNCHANGED <<rnode, node, live, grace>>
    BY <1>4 DEF Shrink, Return
  <2>2. wr' \in WriterRecs /\ WriterInv'
    BY <2>1, Idle
  <2>3. ASSUME ~failed, rnode \in NodeIds, rnode[1] > 0, Single
        PROVE  FALSE
    <3>1. rnode \in live /\ node[rnode].shift = rnode[1] /\ node[rnode] \in NodeRecs
      BY <2>3 DEF RadixInv, Types, TreeInv, RootOK, Shaped
    <3>2. /\ node[rnode].count = Cardinality(Used(node[rnode].slots))
          /\ node[rnode].slots \in [Slots -> Entries]
      BY <3>1, CountUsed DEF RadixInv, TreeInv, NodeRecs
    <3>3. node[rnode].count # 0
      BY <1>2, <2>3, <3>1
    <3>4. node[rnode].slots[0] # NULL
      <4> SUFFICES ASSUME node[rnode].slots[0] = NULL PROVE FALSE
        OBVIOUS
      <4>1. \A s \in Slots : node[rnode].slots[s] = NULL
        BY <2>3 DEF Single
      <4> QED
        BY <3>2, <3>3, <4>1, CountSmall
    <3>5. node[rnode].count = 1
      BY <2>3, <3>2, <3>4, CountSmall, Kinds DEF Single
    <3>6. node[rnode].shift # 0
      BY <2>3, <3>1, NodeNames
    <3> QED
      BY <1>4, <2>3, <3>4, <3>5, <3>6 DEF CanShrink, IsNode
  <2>4. Settled
    BY <1>2, <2>3 DEF Settled
  <2> QED
    BY <1>1, <2>1, <2>2, <2>4, StoresNothing
<1> QED
  BY <1>3, <1>4
----------------------------------------------------------------------------
(* The invariant.                                                          *)

\* radix_tree_root_alloc() makes a tree of one empty leaf.
LEMMA InitInv == Init => RadixInv
<1> SUFFICES ASSUME Init PROVE RadixInv
  OBVIOUS
<1> DEFINE n == <<0, 0, 1>>
<1>1. n \in NodeIds
  <2>1. 0 \in 0 .. TopShift /\ 1 \in 1 .. Copies
    BY RadixTreeAssumption
  <2>2. MAP_SIZE^(0 + 1) \in Nat \ {0} /\ ULONG - 1 \in Nat
    BY RadixTreeAssumption, Powers, Kinds
  <2>3. (ULONG - 1) \div MAP_SIZE^(0 + 1) \in Nat
    BY <2>2, DivMod
  <2>4. 0 \in 0 .. (ULONG - 1) \div MAP_SIZE^(0 + 1)
    BY <2>3
  <2>5. n \in {0} \X (0 .. (ULONG - 1) \div MAP_SIZE^(0 + 1)) \X (1 .. Copies)
    BY <2>1, <2>4
  <2> QED
    BY <2>1, <2>5 DEF NodeIds
<1>2. n[1] = 0 /\ n[2] = 0
  OBVIOUS
<1> HIDE DEF n
<1>3. /\ rnode = n /\ live = {n} /\ node = [m \in NodeIds |-> Blank]
      /\ wr = WriterIdle /\ smashed = FALSE /\ failed = FALSE
      /\ map = [i \in Keys |-> NULL] /\ rd = [r \in Readers |-> ReaderIdle]
      /\ grace = [m \in {} |-> {}]
  BY DEF Init, n
<1>4. retired = {}
  BY <1>3 DEF retired
<1>5. /\ node[n] = Blank /\ Blank.parent = NULL /\ Blank.offset = 0 /\ Blank.shift = 0
      /\ \A s \in Slots : node[n].slots[s] = NULL
  BY <1>1, <1>3, BlankNode DEF Blank
<1>6. ReaderIdle \in ReaderRecs /\ ReaderIdle.pc = "idle"
  <2>1. 0 \in 0 .. ULONG - 1 /\ NULL \in Entries
    BY Kinds DEF Entries
  <2> QED
    BY <2>1 DEF ReaderIdle, ReaderRecs
<1>7. \A r \in Readers : rd[r].pc = "idle"
  BY <1>3, <1>6
<1>8. Types
  <2>1. rnode \in Entries /\ live \subseteq NodeIds /\ retired \subseteq NodeIds \ live
    BY <1>1, <1>3, <1>4 DEF Entries
  <2>2. node \in [NodeIds -> NodeRecs] /\ wr \in WriterRecs
    BY <1>3, BlankNode, Idle
  <2>3. grace \in [retired -> SUBSET Readers]
    BY <1>3, <1>4
  <2>4. rd \in [Readers -> ReaderRecs] /\ map \in [Keys -> Items \cup {NULL}]
    BY <1>3, <1>6
  <2> QED
    BY <1>3, <2>1, <2>2, <2>3, <2>4 DEF Types
<1>9. TreeInv
  <2>1. SlotsOK
    BY <1>3, <1>5 DEF SlotsOK, SlotOK
  <2>2. RootOK
    BY <1>1, <1>2, <1>3, <1>5 DEF RootOK
  <2>3. Shaped
    BY <1>2, <1>3, <1>4, <1>5 DEF Shaped
  <2>4. Unique /\ Linked
    BY <1>3, <1>5 DEF Unique, Linked
  <2>5. CountExact
    BY <1>3, <1>5, BlankNode, CountUsed
  <2> QED
    BY <2>1, <2>2, <2>3, <2>4, <2>5 DEF TreeInv
<1>10. MapInv
  <2>1. \A i \in Keys : map[i] = NULL
    BY <1>3
  <2>2. ASSUME NEW i \in Keys PROVE Entry(n, i) = NULL
    <3>1. 0 \in 0 .. TopShift /\ i \in Nat
      BY RadixTreeAssumption, Kinds
    <3>2. Offset(i, n[1]) \in Slots
      BY <1>2, <3>1, OffsetStep
    <3> QED
      BY <1>5, <3>2 DEF Entry
  <2> QED
    BY <1>1, <1>3, <2>1, <2>2 DEF MapInv, LeafExact, Absent, RootExact
<1>11. GraceInv /\ ReaderInv
  BY <1>4, <1>7 DEF GraceInv, RetiredOK, HeldByReadersOnly, ReaderInv, MissedOK,
     SeenOK, DescendOK, LookupLinearizable
<1>12. wr.pc = "idle"
  BY <1>3, Idle
<1>13. WriterInv
  BY <1>12 DEF WriterInv, WrExtend, WrCreate, WrFind, WrFound, WrPurpose, WrUnlink
<1>14. HeightInv
  BY <1>2, <1>3 DEF HeightInv, NonEmpty, Height
<1> QED
  BY <1>8, <1>9, <1>10, <1>11, <1>13, <1>14 DEF RadixInv

\* Every step of the writer and of the readers preserves the invariant, if
\* only present indices are deleted.
LEMMA NextInv ==
  ASSUME RadixInv, DeleteAbsent = FALSE, [Next]_vars
  PROVE  RadixInv'
<1>1. ASSUME NEW i \in Keys, NEW item \in Items, Insert(i, item)
      PROVE  RadixInv'
  BY <1>1, InsertStep
<1>2. ASSUME NEW i \in Keys, NEW item \in Items, LookupSlot(i, item)
      PROVE  RadixInv'
  BY <1>2, LookupSlotStep
<1>3. ASSUME NEW i \in Keys, NEW item \in Items \cup {NULL}, Delete(i, item)
      PROVE  RadixInv'
  BY <1>3, DeleteStep
<1>4. ASSUME NEW i \in Keys, NEW r \in Readers, ReaderLookup(r, i)
      PROVE  RadixInv'
  BY <1>4, LookupStep
<1>5. CASE Extend
  BY <1>5, ExtendStep
<1>6. CASE Create
  <2>1. wr.pc = "create" /\ wr.shift > 0
    BY <1>6 DEF Create
  <2>2. CASE wr.child = NULL /\ CreateChild
    BY <2>1, <2>2, CreateChildStep
  <2>3. CASE NoMemory
    BY <2>3, NoMemoryStep
  <2>4. CASE wr.child # NULL /\ FollowChild
    BY <2>1, <2>4, FollowChildStep
  <2> QED
    BY <1>6, <2>2, <2>3, <2>4 DEF Create
<1>7. CASE InsertEntry
  BY <1>7, InsertEntryStep
<1>8. CASE WriterDescend
  BY <1>8, WriterDescendStep
<1>9. CASE ReplaceSlot
  BY <1>9, ReplaceSlotStep
<1>10. CASE DeleteEntry
  BY <1>10, DeleteEntryStep
<1>11. CASE Unlink
  BY <1>11, UnlinkStep
<1>12. CASE Shrink
  BY <1>12, ShrinkStep
<1>13. ASSUME NEW r \in Readers, ReaderDescend(r)
       PROVE  RadixInv'
  BY <1>13, DescendStep
<1>14. ASSUME NEW r \in Readers, ReaderReturn(r)
       PROVE  RadixInv'
  BY <1>14, ReturnStep
<1>15. CASE UNCHANGED vars
  <2>1. /\ UNCHANGED <<rnode, node, live, grace, rd, smashed, map, failed, wr>>
        /\ retired' = retired /\ \A m \in live \cup retired' : node'[m] = node[m]
    BY <1>15 DEF vars, retired
  <2>2. wr' \in WriterRecs /\ failed' \in BOOLEAN
    BY <2>1 DEF RadixInv, Types
  <2>3. Types' /\ TreeInv' /\ MapInv' /\ GraceInv' /\ ReaderInv'
    BY <2>1, <2>2, WriterMoved
  <2>4. WriterInv' /\ HeightInv'
    BY <2>1, TreeKept
  <2> QED
    BY <2>3, <2>4 DEF RadixInv
<1> QED
  BY <1>1, <1>2, <1>3, <1>4, <1>5, <1>6, <1>7, <1>8, <1>9, <1>10, <1>11, <1>12,
     <1>13, <1>14, <1>15 DEF Next, WriterStep, ReaderStep

\* radix-tree.c keeps the tree, the map, the unlinked nodes, the readers and
\* the writer in step with each other, whatever the readers do between any
\* two stores of the writer, if the callers delete present indices only.
THEOREM RadixInvTheorem ==
  ASSUME DeleteAbsent = FALSE
  PROVE  Spec => []RadixInv
<1>1. Init => RadixInv
  BY InitInv
<1>2. RadixInv /\ [Next]_vars => RadixInv'
  BY NextInv
<1> QED
  BY <1>1, <1>2, PTL DEF Spec
----------------------------------------------------------------------------
(* What the invariant says about the calls.                                *)

\* What a turn of the loop of __radix_tree_lookup() makes of entry e.
Turn(e, i) == IF IsNode(e) THEN Below(e, i) ELSE e

\* The first k turns of an undisturbed lookup of index i.
Walks(f, k, i) ==
  f = [d \in 0 .. k |-> IF d = 0 THEN rnode ELSE Turn(f[d - 1], i)]

\* A lookup of any length can be followed.
LEMMA WalkExists ==
  ASSUME NEW k \in Nat, NEW i
  PROVE  \E f : Walks(f, k, i)
<1> DEFINE T == {j \in Nat : ~ \E f : Walks(f, j, i)}
<1> SUFFICES ASSUME T # {} PROVE FALSE
  OBVIOUS
<1>1. PICK j \in T : \A y \in T : j <= y
  BY Smallest
<1>2. CASE j = 0
  <2> DEFINE f == [d \in 0 .. 0 |-> rnode]
  <2>1. f = [d \in 0 .. 0 |-> IF d = 0 THEN rnode ELSE Turn(f[d - 1], i)]
    OBVIOUS
  <2> HIDE DEF f
  <2>2. Walks(f, j, i)
    BY <1>2, <2>1 DEF Walks
  <2> QED
    BY <1>1, <2>2
<1>3. CASE j # 0
  <2>1. j - 1 \in Nat /\ j - 1 \notin T
    BY <1>1, <1>3
  <2>2. PICK f : Walks(f, j - 1, i)
    BY <2>1
  <2> DEFINE g == [d \in 0 .. j |-> IF d = j THEN Turn(f[j - 1], i) ELSE f[d]]
  <2>3. ASSUME NEW d \in 0 .. j
        PROVE  g[d] = IF d = 0 THEN rnode ELSE Turn(g[d - 1], i)
    <3>1. CASE d = j
      <4>1. j - 1 \in 0 .. j /\ j - 1 # j
        BY <2>1
      <4>2. g[d] = Turn(f[j - 1], i) /\ g[d - 1] = f[j - 1]
        BY <3>1, <4>1
      <4> QED
        BY <1>3, <3>1, <4>2
    <3>2. CASE d # j
      <4>1. d \in 0 .. j - 1
        BY <1>1, <3>2
      <4>2. f[d] = IF d = 0 THEN rnode ELSE Turn(f[d - 1], i)
        BY <2>2, <4>1 DEF Walks
      <4>3. d # 0 => d - 1 \in 0 .. j /\ d - 1 # j
        BY <1>1, <4>1
      <4> QED
        BY <3>2, <4>2, <4>3
    <3> QED
      BY <3>1, <3>2
  <2>4. g = [d \in 0 .. j |-> g[d]]
    OBVIOUS
  <2> HIDE DEF g
  <2>5. Walks(g, j, i)
    BY <2>3, <2>4 DEF Walks
  <2> QED
    BY <1>1, <2>5
<1> QED
  BY <1>2, <1>3

\* Where an undisturbed lookup is after d turns: in the node for its index d
\* levels below the root, or at what the map says.
At(e, d, i) ==
  \/ e \in live /\ Under(e, i) /\ e[1] + d = rnode[1]
  \/ e \notin NodeIds /\ e = map[i]

\* One turn takes it one level down.
LEMMA TurnDown ==
  ASSUME RadixInv, NEW i \in Keys, NEW e, NEW d \in Nat, At(e, d, i)
  PROVE  At(Turn(e, i), d + 1, i)
<1>1. CASE e \notin NodeIds /\ e = map[i]
  BY <1>1 DEF Turn, IsNode, At
<1>2. CASE e \in live /\ Under(e, i) /\ e[1] + d = rnode[1]
  <2>1. e \in NodeIds /\ e[1] \in 0 .. TopShift
    BY <1>2, NodeNames DEF RadixInv, Types
  <2>2. PICK c : c = Entry(e, i)
    OBVIOUS
  <2>3. Turn(e, i) = c
    BY <1>2, <2>1, <2>2, Loaded DEF Turn, IsNode
  <2>4. CASE e[1] = 0
    <3>1. c = map[i] /\ c \notin NodeIds
      BY <1>2, <2>2, <2>4, Loaded DEF RadixInv, MapInv, LeafExact
    <3> QED
      BY <2>3, <3>1 DEF At
  <2>5. CASE e[1] > 0 /\ c # NULL
    <3>1. c \in live /\ c[1] = e[1] - 1 /\ Under(c, i)
      BY <1>2, <2>2, <2>5, Loaded
    <3>2. c[1] + (d + 1) = e[1] + d
      BY <2>1, <3>1
    <3> QED
      BY <1>2, <2>3, <3>1, <3>2 DEF At
  <2>6. CASE c = NULL
    <3>1. map[i] = NULL
      BY <1>2, <2>2, <2>6 DEF RadixInv, MapInv, Absent
    <3> QED
      BY <2>3, <2>6, <3>1, Kinds DEF At
  <2> QED
    BY <2>1, <2>4, <2>5, <2>6
<1> QED
  BY <1>1, <1>2 DEF At

\* It ends at what the map says.
LEMMA WalkEnds ==
  ASSUME RadixInv, NEW i \in Keys, i <= RootMax, NEW f, Walks(f, TopShift + 1, i)
  PROVE  f[TopShift + 1] = map[i]
<1>0. TopShift \in Nat /\ TopShift + 1 \in Nat
  BY RadixTreeAssumption
<1>1. f[0] = rnode /\ \A d \in 0 .. TopShift + 1 : d # 0 => f[d] = Turn(f[d - 1], i)
  BY <1>0 DEF Walks
<1>2. At(rnode, 0, i)
  <2>1. CASE rnode \in NodeIds
    <3>1. rnode \in live /\ Under(rnode, i) /\ rnode[1] \in Nat
      BY <2>1, RoomInRoot, NodeNames DEF RadixInv, TreeInv, RootOK, IsNode
    <3> QED
      BY <3>1 DEF At
  <2>2. CASE rnode \notin NodeIds
    <3>1. map[i] = rnode
      BY <2>2, RoomInRoot DEF RadixInv, MapInv, RootExact, IsNode
    <3> QED
      BY <2>2, <3>1 DEF At
  <2> QED
    BY <2>1, <2>2
<1>3. \A d \in 0 .. TopShift + 1 : At(f[d], d, i)
  <2> DEFINE T == {d \in 0 .. TopShift + 1 : ~ At(f[d], d, i)}
  <2> SUFFICES ASSUME T # {} PROVE FALSE
    OBVIOUS
  <2>1. T \subseteq Nat
    BY <1>0
  <2>2. PICK d \in T : \A y \in T : d <= y
    BY <2>1, Smallest
  <2>3. d # 0
    BY <1>1, <1>2, <2>2
  <2>4. d - 1 \in 0 .. TopShift + 1 /\ d - 1 \in Nat /\ d - 1 \notin T /\ (d - 1) + 1 = d
    BY <1>0, <2>1, <2>2, <2>3
  <2>5. At(f[d - 1], d - 1, i) /\ f[d] = Turn(f[d - 1], i)
    BY <1>1, <2>2, <2>3, <2>4
  <2>6. At(Turn(f[d - 1], i), (d - 1) + 1, i)
    BY <2>4, <2>5, TurnDown
  <2> QED
    BY <2>2, <2>4, <2>5, <2>6
<1>4. TopShift + 1 \in 0 .. TopShift + 1
  BY <1>0
<1>5. PICK e : e = f[TopShift + 1]
  OBVIOUS
<1>6. At(e, TopShift + 1, i)
  BY <1>3, <1>4, <1>5
<1>7. CASE e \in live /\ Under(e, i) /\ e[1] + (TopShift + 1) = rnode[1]
  <2>1. rnode \in NodeIds
    BY <1>7 DEF RadixInv, TreeInv, RootOK
  <2>2. e[1] \in 0 .. TopShift /\ rnode[1] \in 0 .. TopShift
    BY <1>7, <2>1, NodeNames DEF RadixInv, Types
  <2> QED
    BY <1>0, <1>7, <2>2
<1> QED
  BY <1>5, <1>6, <1>7 DEF At

\* The tree holds the map.
LEMMA InvMapExact ==
  ASSUME RadixInv
  PROVE  MapExact
<1> SUFFICES ASSUME NEW i \in Keys PROVE Find(i) = map[i]
  BY DEF MapExact
<1>1. i > RootMax <=> ~(i <= RootMax)
  BY AboveRoot
<1>2. CASE i > RootMax
  <2>1. map[i] = NULL
    BY <1>1, <1>2, RoomInRoot
  <2> QED
    BY <1>2, <2>1 DEF Find
<1>3. CASE ~(i > RootMax)
  <2> DEFINE walk == CHOOSE f : f = [d \in 0 .. TopShift + 1 |->
                       IF d = 0 THEN rnode
                       ELSE IF IsNode(f[d - 1]) THEN Below(f[d - 1], i)
                       ELSE f[d - 1]]
  <2>1. TopShift + 1 \in Nat
    BY RadixTreeAssumption
  <2>2. PICK f : Walks(f, TopShift + 1, i)
    BY <2>1, WalkExists
  <2>3. f = [d \in 0 .. TopShift + 1 |->
                       IF d = 0 THEN rnode
                       ELSE IF IsNode(f[d - 1]) THEN Below(f[d - 1], i)
                       ELSE f[d - 1]]
    BY <2>2 DEF Walks, Turn
  <2>4. walk = [d \in 0 .. TopShift + 1 |->
                       IF d = 0 THEN rnode
                       ELSE IF IsNode(walk[d - 1]) THEN Below(walk[d - 1], i)
                       ELSE walk[d - 1]]
    BY <2>3
  <2>5. Find(i) = walk[TopShift + 1]
    BY <1>3 DEF Find
  <2> HIDE DEF walk
  <2>6. Walks(walk, TopShift + 1, i)
    BY <2>4 DEF Walks, Turn
  <2>7. i <= RootMax
    BY <1>1, <1>3
  <2> QED
    BY <2>5, <2>6, <2>7, WalkEnds
<1> QED
  BY <1>2, <1>3

\* Readers and the writer are in nodes that are not free.
LEMMA InvNoUseAfterFree ==
  ASSUME RadixInv
  PROVE  NoUseAfterFree
<1>1. \A r \in Readers : rd[r].pc = "descend" => rd[r].child \notin free
  BY DEF RadixInv, ReaderInv, DescendOK, Held, free
<1>2. ASSUME NEW n \in live, NEW i \in Keys, Under(n, i)
      PROVE  Entry(n, i) \notin free
  <2>1. PICK e : e = Entry(n, i)
    OBVIOUS
  <2>2. n[1] \in Nat
    BY NodeNames DEF RadixInv, Types
  <2>3. e = NULL \/ e \in live \/ e \notin NodeIds
    BY <1>2, <2>1, <2>2, Loaded
  <2> QED
    BY <2>1, <2>3, Kinds DEF free
<1>3. NULL \notin free /\ (\A e \in Items : e \notin free) /\ \A n \in live : n \notin free
  BY Kinds DEF free
<1>4. rnode \notin free
  BY DEF RadixInv, TreeInv, RootOK, free
<1>5. ASSUME wr.pc # "idle"
      PROVE  wr.node \notin free /\ wr.child \notin free
  <2>1. wr.pc \in {"extend", "create", "delete_find", "delete", "replace_find",
                   "replace", "unlink", "shrink"}
    BY <1>5 DEF RadixInv, Types, WriterRecs
  <2>2. CASE wr.pc = "extend"
    BY <1>3, <2>2 DEF RadixInv, WriterInv, WrExtend
  <2>3. CASE wr.pc = "create"
    <3>1. CASE wr.node = NULL
      BY <1>3, <1>4, <2>3, <3>1 DEF RadixInv, WriterInv, WrCreate
    <3>2. CASE wr.node # NULL
      BY <1>2, <1>3, <2>3, <3>2 DEF RadixInv, WriterInv, WrCreate
    <3> QED
      BY <3>1, <3>2
  <2>4. CASE wr.pc \in {"delete_find", "replace_find"}
    BY <1>3, <2>4 DEF RadixInv, WriterInv, WrFind
  <2>5. CASE wr.pc \in {"delete", "replace"}
    <3>1. CASE wr.node = NULL
      BY <1>3, <1>4, <2>5, <3>1 DEF RadixInv, WriterInv, WrFound
    <3>2. CASE wr.node # NULL
      BY <1>2, <1>3, <2>5, <3>2 DEF RadixInv, WriterInv, WrFound
    <3> QED
      BY <3>1, <3>2
  <2>6. CASE wr.pc \in {"unlink", "shrink"}
    BY <1>3, <2>6 DEF RadixInv, WriterInv, WrUnlink
  <2> QED
    BY <2>1, <2>2, <2>3, <2>4, <2>5, <2>6
<1> QED
  BY <1>1, <1>5 DEF NoUseAfterFree

\* Readers only look up; the iterators are added in RadixIter.
LookupsOnly == \A r \in Readers : rd[r].pc # "iterate"

\* No step of RadixTree makes an iterator of a reader.
LEMMA LookupsOnlyNext ==
  ASSUME RadixInv, LookupsOnly, [Next]_vars
  PROVE  LookupsOnly'
<1>1. rd \in [Readers -> ReaderRecs]
  BY DEF RadixInv, Types
<1>2. CASE rd' = rd
  BY <1>2 DEF LookupsOnly
<1>3. ASSUME NEW i, NEW e, Remember(i, e)
      PROVE  LookupsOnly'
  <2> SUFFICES ASSUME NEW r \in Readers
               PROVE  rd'[r].pc # "iterate"
    BY DEF LookupsOnly
  <2>1. rd[r] \in ReaderRecs /\ rd[r].pc # "iterate"
    BY <1>1 DEF LookupsOnly
  <2>2. rd'[r].pc = rd[r].pc
    BY <1>3, <2>1 DEF Remember, ReaderRecs
  <2> QED
    BY <2>1, <2>2
<1>4. ASSUME NEW i \in Keys, NEW r \in Readers, ReaderLookup(r, i)
      PROVE  LookupsOnly'
  BY <1>1, <1>4 DEF ReaderLookup, LookupsOnly
<1>5. ASSUME NEW r \in Readers, ReaderDescend(r)
      PROVE  LookupsOnly'
  <2>1. rd[r] \in ReaderRecs /\ rd[r].pc = "descend"
    BY <1>1, <1>5 DEF ReaderDescend
  <2>2. PICK e : rd' = [rd EXCEPT ![r] = Deeper(rd[r], e)]
    BY <1>1, <1>5 DEF ReaderDescend
  <2>3. Deeper(rd[r], e).pc \in {"done", "descend"}
    BY <2>1 DEF Deeper, ReaderRecs
  <2> QED
    BY <1>1, <2>2, <2>3 DEF LookupsOnly
<1>6. ASSUME NEW r \in Readers, ReaderReturn(r)
      PROVE  LookupsOnly'
  BY <1>1, <1>6 DEF ReaderReturn, ReaderIdle, LookupsOnly
<1>7. ASSUME NEW i \in Keys, NEW item \in Items \cup {NULL},
             Insert(i, item) \/ LookupSlot(i, item) \/ Delete(i, item)
      PROVE  LookupsOnly'
  BY <1>2, <1>7 DEF Insert, LookupSlot, Delete
<1>8. CASE Extend \/ Create \/ WriterDescend \/ Unlink \/ Shrink
  BY <1>2, <1>8 DEF Extend, ExtendNode, NoMemory, Create, CreateChild, FollowChild,
     WriterDescend, Unlink, Shrink
<1>9. CASE InsertEntry
  BY <1>2, <1>3, <1>9 DEF InsertEntry
<1>10. CASE ReplaceSlot
  BY <1>2, <1>3, <1>10 DEF ReplaceSlot
<1>11. CASE DeleteEntry
  BY <1>2, <1>3, <1>11 DEF DeleteEntry
<1>12. CASE UNCHANGED vars
  BY <1>2, <1>12 DEF vars
<1> QED
  BY <1>4, <1>5, <1>6, <1>7, <1>8, <1>9, <1>10, <1>11, <1>12 DEF Next, WriterStep, ReaderStep

\* The tree is well formed.
LEMMA InvTreeWellFormed ==
  ASSUME RadixInv, LookupsOnly
  PROVE  TreeWellFormed
<1>1. TypeOK
  <2>1. \A n \in retired : grace[n] \subseteq Readers
    BY DEF RadixInv, Types
  <2>2. ASSUME NEW n \in NodeIds
        PROVE  /\ node[n].shift \in 0 .. TopShift /\ node[n].offset \in Slots
               /\ node[n].count \in 0 .. UINT - 1
               /\ node[n].parent \in NodeIds \cup {NULL}
               /\ node[n].slots \in [Slots -> Entries]
    <3>1. node[n] \in NodeRecs
      BY DEF RadixInv, Types
    <3> QED
      BY <3>1 DEF NodeRecs
  <2>3. /\ wr.index \in 0 .. ULONG - 1 /\ wr.item \in Items \cup {NULL}
        /\ wr.shift \in 0 .. TopShift + 1 /\ wr.top \in 0 .. TopShift
        /\ {wr.node, wr.child} \subseteq Entries
        /\ wr.pc \in {"idle", "extend", "create", "delete_find", "delete",
                      "replace_find", "replace", "unlink", "shrink"}
    BY DEF RadixInv, Types, WriterRecs
  <2>4. ASSUME NEW r \in Readers
        PROVE  /\ rd[r].pc \in {"idle", "descend", "done"}
               /\ {rd[r].node, rd[r].child} \subseteq Entries
               /\ rd[r].seen \subseteq Items \cup {NULL}
    <3>1. rd[r] \in ReaderRecs
      BY DEF RadixInv, Types
    <3> QED
      BY <3>1 DEF ReaderRecs, LookupsOnly
  <2> QED
    BY <2>1, <2>2, <2>3, <2>4 DEF TypeOK, RadixInv, Types
<1>2. CountExact /\ Linked /\ HeldByReadersOnly
  BY DEF RadixInv, TreeInv, GraceInv
<1>3. MinHeight
  <2> SUFFICES ASSUME ~failed, wr.pc = "idle", IsNode(rnode), node[rnode].shift > 0
               PROVE  \E s \in Slots \ {0} : node[rnode].slots[s] # NULL
    BY DEF MinHeight
  <2>1. rnode \in NodeIds /\ rnode[1] > 0
    BY DEF IsNode, RadixInv, TreeInv, RootOK, Shaped
  <2>2. ~Single
    BY <2>1 DEF RadixInv, HeightInv, Height
  <2> QED
    BY <2>2 DEF Single
<1>4. LookupsGoDown
  <2> SUFFICES ASSUME NEW r \in Readers, rd[r].pc = "descend", rd[r].node # NULL
               PROVE  node[rd[r].child].shift = node[rd[r].node].shift - 1
    BY DEF LookupsGoDown
  <2>1. PICK c, n : c = rd[r].child /\ n = rd[r].node
    OBVIOUS
  <2>2. c \in live \cup retired /\ n \in live \cup retired /\ n[1] = c[1] + 1
    BY <2>1 DEF RadixInv, ReaderInv, DescendOK, Held
  <2>3. node[c].shift = c[1] /\ node[n].shift = n[1]
    BY <2>2 DEF RadixInv, TreeInv, Shaped
  <2>4. c \in NodeIds
    BY <2>2 DEF RadixInv, Types
  <2>5. c[1] \in Nat
    BY <2>4, NodeNames
  <2>6. c[1] = n[1] - 1
    BY <2>2, <2>5
  <2> QED
    BY <2>1, <2>3, <2>6
<1> QED
  BY <1>1, <1>2, <1>3, <1>4 DEF TreeWellFormed

\* Counts, parents and offsets are exact between any two stores of an
\* insert, a delete or a replace, the tree is of minimum height when no call
\* runs, lookups only go down and unlinked nodes wait for readers alone.
THEOREM WellFormedTheorem ==
  ASSUME DeleteAbsent = FALSE
  PROVE  Spec => []TreeWellFormed
<1>1. Spec => []RadixInv
  BY RadixInvTheorem
<1>2. Init => LookupsOnly
  BY DEF Init, ReaderIdle, LookupsOnly
<1>3. RadixInv /\ LookupsOnly /\ [Next]_vars => LookupsOnly'
  BY LookupsOnlyNext
<1>4. RadixInv /\ LookupsOnly => TreeWellFormed
  BY InvTreeWellFormed
<1> QED
  BY <1>1, <1>2, <1>3, <1>4, PTL DEF Spec

\* __radix_tree_lookup() of any index, undisturbed, returns what the finished
\* stores put there, also while radix_tree_extend(), delete_node() or
\* radix_tree_shrink() is half way.
THEOREM MapTheorem ==
  ASSUME DeleteAbsent = FALSE
  PROVE  Spec => []MapExact
<1>1. Spec => []RadixInv
  BY RadixInvTheorem
<1>2. RadixInv => MapExact
  BY InvMapExact
<1> QED
  BY <1>1, <1>2, PTL

\* Neither a lookup nor the writer loads from a node that
\* radix_tree_node_rcu_free() gave back.
THEOREM UseAfterFreeTheorem ==
  ASSUME DeleteAbsent = FALSE
  PROVE  Spec => []NoUseAfterFree
<1>1. Spec => []RadixInv
  BY RadixInvTheorem
<1>2. RadixInv => NoUseAfterFree
  BY InvNoUseAfterFree
<1> QED
  BY <1>1, <1>2, PTL

\* radix_tree_lookup() returns an item its index had during the call,
\* whatever the writer stores meanwhile.
THEOREM LookupTheorem ==
  ASSUME DeleteAbsent = FALSE
  PROVE  Spec => []LookupLinearizable
<1>1. Spec => []RadixInv
  BY RadixInvTheorem
<1>2. RadixInv => LookupLinearizable
  BY DEF RadixInv, ReaderInv
<1> QED
  BY <1>1, <1>2, PTL
=============================================================================
