-------------------------- MODULE RadixIterProofs --------------------------
(***************************************************************************)
(* Proofs about RadixIter, for nodes of any size, trees of any height and  *)
(* any number of iterators: an iteration skips nothing that is there all   *)
(* the time, visits what it visits in ascending order and once, and never  *)
(* loads from a node that was given back, whatever the writer does.        *)
(*                                                                         *)
(* An iterator is in nodes that are allocated, or were when it last loaded *)
(* rnode and have waited for it ever since; what it owes is in the part of *)
(* the tree it has not passed.                                             *)
(***************************************************************************)
EXTENDS RadixIter, RadixTreeProofs

----------------------------------------------------------------------------
(* The inductive invariant.                                                *)

\* The loops that have the tree to themselves.
Alone == {"delete", "kill"}

IterRecs ==
  [pc : {"idle", "chunk", "restart", "descend", "hole", "reload", "body",
         "next", "deleting", "done"},
   job : {"each", "lookup", "delete", "kill"},
   index : 0 .. ULONG - 1, next : 0 .. ULONG - 1,
   node : NodeIds \cup {NULL}, child : NodeIds \cup {NULL},
   offset : Slots, i : 0 .. ULONG - 1, last : Int,
   owed : SUBSET Keys, nodes : SUBSET NodeIds]

IterTypes == it \in [Readers -> IterRecs] /\ aborted \in BOOLEAN

\* What is stored in the tree is stored under an index of the clients.
KeysOnly ==
  /\ \A n \in live : \A s \in Slots :
       n[1] = 0 /\ node[n].slots[s] # NULL => n[2] * MAP_SIZE + s \in Keys
  /\ rnode \in Items => 0 \in Keys

\* What item_kill_tree keeps of the invariant of the tree.
StructInv ==
  /\ Types /\ SlotsOK /\ RootOK /\ Shaped /\ Unique /\ MapInv /\ GraceInv
  /\ KeysOnly

Killing == \E r \in Readers : it[r].job = "kill"

TreeOK == StructInv /\ (~Killing /\ ~aborted => RadixInv)

\* Who may run with whom.
JobOK(r) ==
  /\ rd[r].pc \in {"idle", "iterate"}
  /\ it[r].pc = "idle" => it[r].job = "each" /\ it[r].owed = {}
  /\ rd[r].pc = "iterate" <=> it[r].pc # "idle" /\ it[r].job \notin Alone
  /\ it[r].job \in Alone =>
       /\ \A q \in Readers :
            rd[q].pc = "idle" /\ (q # r => it[q].job \notin Alone)
       /\ it[r].pc # "deleting" => wr.pc = "idle"
  /\ it[r].pc = "deleting" => it[r].job = "delete"

\* All that iterator p owes is from index j on.
Ahead(p, j) == \A k \in p.owed : k >= j

\* Index j comes after the last visit.  It need not when
\* radix_tree_iter_delete() emptied the last leaf and nothing is left to visit.
Rising(p, j) == ~(p.job = "delete" /\ p.owed = {}) => j > p.last

\* radix_tree_next_chunk() may go on at next_index, or has seen it overflow.
Resumes(p) ==
  IF p.next = 0 /\ p.index # 0 THEN p.owed = {}
  ELSE Ahead(p, p.next) /\ Rising(p, p.next)

\* The iterator is at a slot of leaf p.node.
Leaf(p) ==
  /\ p.node \in NodeIds /\ p.node[1] = 0
  /\ p.index = p.node[2] * MAP_SIZE + p.offset
  /\ p.next = ((p.node[2] + 1) * MAP_SIZE) % ULONG

\* The loop's body is at a slot of a leaf, or at rnode.
Visiting(p) ==
  /\ p.index \in Keys /\ p.last = p.index /\ \A k \in p.owed : k > p.index
  /\ IF p.node = NULL THEN p.index = 0 /\ p.next = 1 ELSE Leaf(p)

\* radix_tree_next_chunk() looks for an index from i on.
Searching(p) == Ahead(p, p.i) /\ Rising(p, p.i)

\* Where iterator p is in its loop, and what it has not passed; N is the set
\* of nodes it may be in.
PosOK(p, N) ==
  /\ p.pc = "chunk" => Resumes(p)
  /\ p.pc = "restart" => Searching(p)
  /\ p.pc = "descend" => p.child \in N /\ Under(p.child, p.i) /\ Searching(p)
  /\ p.pc = "hole" =>
       /\ p.node \in N /\ Under(p.node, p.i) /\ Searching(p)
       /\ Offset(p.i, p.node[1]) <= p.offset
       /\ \A k \in p.owed : Under(p.node, k) => Offset(k, p.node[1]) > p.offset
  /\ p.pc = "reload" =>
       /\ p.node \in N /\ Under(p.node, p.i) /\ Searching(p)
       /\ Offset(p.i, p.node[1]) = p.offset
  /\ p.pc = "body" => Visiting(p) /\ (p.node # NULL => p.node \in N)
  /\ p.pc = "next" =>
       IF radix_tree_chunk_size(p) > 1
       THEN /\ Leaf(p) /\ p.node \in N /\ p.last <= p.index
            /\ \A k \in p.owed : k > p.index
       ELSE Resumes(p)
  /\ p.pc = "deleting" => Visiting(p)
  /\ p.pc = "done" => p.owed = {}
  /\ p.job = "lookup" =>
       /\ p.pc \in {"idle", "chunk", "descend", "body", "done"}
       /\ p.pc = "chunk" => p.next = p.last + 1
       /\ p.pc = "descend" => p.i = p.last + 1
       /\ p.pc \in {"chunk", "descend"} => \A k \in p.owed : k = p.last + 1

\* Unlinked nodes S wait for reader r and lead it nowhere else.
Stays(r, S) ==
  \A n \in S :
    /\ n \in retired /\ r \in grace[n]
    /\ \A s \in Slots : node[n].slots[s] \in live \cup S \cup {NULL}

\* What iterator p owes can still be found from the unlinked nodes S.
Still(p, S) ==
  \A n \in S : \A k \in p.owed : Under(n, k) => Entry(n, k) # NULL

\* What iterator r owes is there, and it is on its way.
PositionOK(r) ==
  /\ \A k \in it[r].owed : map[k] # NULL
  /\ \E S \in SUBSET retired :
       Stays(r, S) /\ Still(it[r], S) /\ PosOK(it[r], live \cup S)

\* A leaf that radix_tree_iter_delete emptied.
Gone(p) ==
  /\ p.node \in NodeIds /\ p.node \notin live
  /\ \A k \in p.owed : ~Under(p.node, k)

\* What the loops that have the tree to themselves rely on.
AloneOK(r) ==
  LET p == it[r] IN
  /\ p.job = "delete" => \A k \in Keys :
       map[k] # NULL => \/ k \in p.owed
                        \/ k = p.index /\ p.pc = "body"
                        \/ k = p.index /\ p.pc = "deleting" /\ wr.pc = "delete"
  /\ p.pc = "body" /\ p.job \in Alone =>
       map[p.index] # NULL /\ (p.node = NULL => rnode \notin NodeIds)
  /\ p.pc = "deleting" =>
       /\ p.node # NULL => p.node \in p.nodes
       /\ wr.pc \in {"idle", "delete", "unlink", "shrink"}
       /\ wr.pc = "delete" => /\ live = p.nodes /\ wr.node = p.node
                              /\ wr.index = p.index /\ wr.item = NULL
       /\ wr.pc = "unlink" => Gone(p) \/ (live = p.nodes /\ wr.node = p.node)
       /\ wr.pc = "shrink" => Gone(p) \/ (live = p.nodes /\ rnode = p.node)
       /\ wr.pc = "idle" => Gone(p) \/ live = p.nodes

IterInv ==
  /\ IterTypes /\ TreeOK
  /\ \A r \in Readers : JobOK(r) /\ PositionOK(r) /\ AloneOK(r)
----------------------------------------------------------------------------
(* The indices of a slot.                                                  *)

\* The first index of slot o of node n.
First(n, o) == (n[2] * MAP_SIZE + o) * MAP_SIZE^n[1]

\* Products grow with their factors.
LEMMA Grows ==
  ASSUME NEW a \in Nat, NEW b \in Nat, NEW d \in Nat, a <= b
  PROVE  a * d <= b * d /\ a * d \in Nat /\ b * d \in Nat
<1>1. b - a \in Nat /\ b = a + (b - a)
  OBVIOUS
<1>2. PICK c \in Nat : b = a + c
  BY <1>1
<1>3. (a + c) * d = a * d + c * d /\ a * d \in Nat /\ c * d \in Nat
  OBVIOUS
<1> QED
  BY <1>2, <1>3

\* A quotient reaches q exactly when the dividend reaches q times the divisor.
LEMMA DivBound ==
  ASSUME NEW i \in Nat, NEW q \in Nat, NEW d \in Nat \ {0}
  PROVE  i \div d >= q <=> i >= q * d
<1>1. i = d * (i \div d) + (i % d) /\ i \div d \in Nat /\ i % d \in 0 .. d - 1
  BY DivMod
<1>2. PICK a \in Nat, b \in Nat : a = i \div d /\ b = i % d
  BY <1>1
<1>3. i = a * d + b /\ b < d
  <2>1. d * a = a * d
    OBVIOUS
  <2> QED
    BY <1>1, <1>2, <2>1
<1>4. CASE a >= q
  <2>1. q * d <= a * d /\ q * d \in Nat /\ a * d \in Nat
    BY <1>4, Grows
  <2> QED
    BY <1>2, <1>3, <1>4, <2>1
<1>5. CASE a < q
  <2>1. a + 1 <= q /\ a + 1 \in Nat
    BY <1>5
  <2>2. (a + 1) * d <= q * d /\ (a + 1) * d \in Nat /\ q * d \in Nat
    BY <2>1, Grows
  <2>3. (a + 1) * d = a * d + d /\ a * d \in Nat
    OBVIOUS
  <2> QED
    BY <1>2, <1>3, <1>5, <2>2, <2>3
<1> QED
  BY <1>4, <1>5

\* A quotient of a multiple.
LEMMA DivExact ==
  ASSUME NEW q \in Nat, NEW d \in Nat \ {0}
  PROVE  (q * d) \div d = q
OBVIOUS

\* Larger numbers have larger quotients.
LEMMA DivMonotone ==
  ASSUME NEW i \in Nat, NEW k \in Nat, NEW d \in Nat \ {0}, i <= k
  PROVE  i \div d <= k \div d
<1>1. PICK q \in Nat : q = i \div d
  OBVIOUS
<1>2. i >= q * d /\ q * d \in Nat
  BY <1>1, DivBound
<1>3. k >= q * d
  BY <1>2
<1>4. k \div d >= q
  BY <1>3, DivBound
<1> QED
  BY <1>1, <1>4

\* The parts of a first index.
LEMMA FirstTypes ==
  ASSUME NEW n \in NodeIds, NEW o \in 0 .. MAP_SIZE
  PROVE  /\ n[1] \in 0 .. TopShift /\ n[2] \in Nat /\ MAP_SIZE \in Nat \ {0}
         /\ n[2] * MAP_SIZE \in Nat /\ n[2] * MAP_SIZE + o \in Nat
         /\ MAP_SIZE^n[1] \in Nat \ {0} /\ First(n, o) \in Nat
<1>1. n[1] \in 0 .. TopShift /\ n[2] \in Nat /\ MAP_SIZE \in Nat \ {0}
  BY NodeNames, RadixTreeAssumption
<1>2. MAP_SIZE^n[1] \in Nat \ {0}
  <2>1. n[1] \in 0 .. TopShift + 1
    BY <1>1, RadixTreeAssumption
  <2> QED
    BY <2>1, Powers
<1>3. \A a, b \in Nat : a * b \in Nat
  OBVIOUS
<1>4. n[2] * MAP_SIZE \in Nat
  BY <1>1, <1>3
<1>5. n[2] * MAP_SIZE + o \in Nat
  BY <1>1, <1>4
<1> QED
  BY <1>1, <1>2, <1>3, <1>4, <1>5 DEF First

\* An index from i on that belongs under node n, if at all, in slot o or
\* after it, is not below the first index of the slot.
LEMMA Beyond ==
  ASSUME NEW n \in NodeIds, NEW i \in Nat, NEW k \in Nat, NEW o \in 0 .. MAP_SIZE,
         Under(n, i), k >= i, Under(n, k) => Offset(k, n[1]) >= o
  PROVE  k >= First(n, o)
<1>1. /\ n[1] \in 0 .. TopShift /\ n[2] \in Nat /\ MAP_SIZE \in Nat \ {0}
      /\ n[2] * MAP_SIZE \in Nat /\ n[2] * MAP_SIZE + o \in Nat
      /\ MAP_SIZE^n[1] \in Nat \ {0} /\ First(n, o) \in Nat
  BY FirstTypes
<1>2. PICK a, b, c : a = k \div MAP_SIZE^n[1] /\ b = k \div MAP_SIZE^(n[1] + 1)
                     /\ c = Offset(k, n[1])
  OBVIOUS
<1>3. c \in 0 .. MAP_SIZE - 1 /\ a \in Nat /\ b \in Nat /\ a = b * MAP_SIZE + c
  BY <1>1, <1>2, OffsetStep DEF Slots
<1>4. n[1] + 1 \in 0 .. TopShift + 1
  BY <1>1, RadixTreeAssumption
<1>5. MAP_SIZE^(n[1] + 1) \in Nat \ {0}
  BY <1>4, Powers
<1>6. b >= n[2]
  BY <1>1, <1>2, <1>3, <1>5, DivMonotone DEF Under
<1>7. a >= n[2] * MAP_SIZE + o
  <2>1. CASE b = n[2]
    <3>1. c >= o
      BY <1>2, <2>1 DEF Under
    <3> QED
      BY <1>1, <1>3, <2>1, <3>1
  <2>2. CASE b # n[2]
    <3>1. n[2] + 1 <= b /\ n[2] + 1 \in Nat
      BY <1>1, <1>3, <1>6, <2>2
    <3>2. (n[2] + 1) * MAP_SIZE <= b * MAP_SIZE /\ b * MAP_SIZE \in Nat
      BY <1>1, <1>3, <3>1, Grows
    <3>3. (n[2] + 1) * MAP_SIZE = n[2] * MAP_SIZE + MAP_SIZE
      BY <1>1
    <3> QED
      BY <1>1, <1>3, <3>2, <3>3
  <2> QED
    BY <2>1, <2>2
<1> QED
  BY <1>1, <1>2, <1>7, DivBound DEF First

\* The first index of a slot belongs in the slot.
LEMMA FirstThere ==
  ASSUME NEW n \in NodeIds, NEW o \in Slots
  PROVE  Under(n, First(n, o)) /\ Offset(First(n, o), n[1]) = o
<1>0. o \in 0 .. MAP_SIZE
  BY RadixTreeAssumption DEF Slots
<1>1. /\ n[1] \in 0 .. TopShift /\ n[2] \in Nat /\ MAP_SIZE \in Nat \ {0}
      /\ n[2] * MAP_SIZE + o \in Nat
      /\ MAP_SIZE^n[1] \in Nat \ {0} /\ First(n, o) \in Nat
  BY <1>0, FirstTypes
<1>2. First(n, o) \div MAP_SIZE^n[1] = n[2] * MAP_SIZE + o
  BY <1>1, DivExact DEF First
<1>3. PICK v \in Nat : v = First(n, o)
  BY <1>1
<1>4. /\ Offset(v, n[1]) \in Slots /\ v \div MAP_SIZE^(n[1] + 1) \in Nat
      /\ v \div MAP_SIZE^n[1] = (v \div MAP_SIZE^(n[1] + 1)) * MAP_SIZE + Offset(v, n[1])
  BY <1>1, OffsetStep
<1>5. PICK a, c : a = v \div MAP_SIZE^(n[1] + 1) /\ c = Offset(v, n[1])
  OBVIOUS
<1>6. a \in Nat /\ c \in Slots /\ a * MAP_SIZE + c = n[2] * MAP_SIZE + o
  BY <1>2, <1>3, <1>4, <1>5
<1>7. PICK b \in Nat : b = n[2]
  BY <1>1
<1>8. a * MAP_SIZE + c = b * MAP_SIZE + o
  BY <1>6, <1>7
<1>9. a = b /\ c = o
  BY <1>6, <1>8, SameQuotient
<1> QED
  BY <1>3, <1>5, <1>7, <1>9 DEF Under

\* An index is below the first index of a later slot.
LEMMA FirstAbove ==
  ASSUME NEW n \in NodeIds, NEW i \in Nat, NEW o \in 0 .. MAP_SIZE,
         Under(n, i), Offset(i, n[1]) < o
  PROVE  i < First(n, o)
<1>1. /\ n[1] \in 0 .. TopShift /\ n[2] \in Nat /\ MAP_SIZE \in Nat \ {0}
      /\ n[2] * MAP_SIZE \in Nat /\ n[2] * MAP_SIZE + o \in Nat
      /\ MAP_SIZE^n[1] \in Nat \ {0} /\ First(n, o) \in Nat
  BY FirstTypes
<1>2. PICK a, c : a = i \div MAP_SIZE^n[1] /\ c = Offset(i, n[1])
  OBVIOUS
<1>3. c \in 0 .. MAP_SIZE - 1 /\ a \in Nat /\ a = n[2] * MAP_SIZE + c
  BY <1>1, <1>2, OffsetStep DEF Slots, Under
<1>4. ~(a >= n[2] * MAP_SIZE + o)
  BY <1>1, <1>2, <1>3
<1>5. ~(i >= First(n, o))
  BY <1>1, <1>2, <1>4, DivBound DEF First
<1> QED
  BY <1>1, <1>5

\* The names of nodes do not go beyond the largest index.
LEMMA NameBound ==
  ASSUME NEW n \in NodeIds
  PROVE  n[2] * MAP_SIZE^(n[1] + 1) <= ULONG - 1
<1>0. ULONG \in Nat \ {0}
  BY Kinds
<1>1. PICK s \in 0 .. TopShift :
        n \in {s} \X (0 .. (ULONG - 1) \div MAP_SIZE^(s + 1)) \X (1 .. Copies)
  BY DEF NodeIds
<1>2. n[1] = s /\ n[2] \in 0 .. (ULONG - 1) \div MAP_SIZE^(s + 1)
  BY <1>1
<1>3. MAP_SIZE^(s + 1) \in Nat \ {0}
  <2>1. s + 1 \in 0 .. TopShift + 1
    BY RadixTreeAssumption
  <2> QED
    BY <2>1, Powers
<1>4. ULONG - 1 \in Nat
  BY <1>0
<1>5. PICK q \in Nat : q = (ULONG - 1) \div MAP_SIZE^(s + 1)
  BY <1>3, <1>4, DivMod
<1>6. n[2] \in Nat /\ q >= n[2]
  BY <1>2, <1>5
<1>7. ULONG - 1 >= n[2] * MAP_SIZE^(s + 1)
  BY <1>3, <1>4, <1>5, <1>6, DivBound
<1> QED
  BY <1>0, <1>2, <1>3, <1>6, <1>7

\* A multiple of d below a multiple of d is a whole d below it.
LEMMA WholeSteps ==
  ASSUME NEW a \in Nat, NEW u \in Nat, NEW d \in Nat \ {0}, u % d = 0, a * d < u
  PROVE  (a + 1) * d <= u
<1>1. u = d * (u \div d) + (u % d) /\ u \div d \in Nat
  BY DivMod
<1>2. PICK b \in Nat : b = u \div d
  BY <1>1
<1>3. u = b * d
  <2>1. d * b = b * d
    OBVIOUS
  <2> QED
    BY <1>1, <1>2, <2>1
<1>4. CASE a >= b
  <2>1. b * d <= a * d /\ b * d \in Nat /\ a * d \in Nat
    BY <1>4, Grows
  <2> QED
    BY <1>3, <2>1
<1>5. CASE a < b
  <2>1. a + 1 \in Nat /\ a + 1 <= b
    BY <1>5
  <2> QED
    BY <1>3, <2>1, Grows
<1> QED
  BY <1>4, <1>5

\* Below the highest level the indices of a node end where those of the next
\* one begin, at the latest with the largest index; a node of the highest
\* level has them all.
LEMMA Room ==
  ASSUME NEW n \in NodeIds
  PROVE  /\ n[1] # TopShift => First(n, MAP_SIZE) <= ULONG
         /\ n[1] = TopShift => n[2] = 0 /\ First(n, MAP_SIZE) % ULONG = 0
         /\ First(n, MAP_SIZE) = (n[2] + 1) * MAP_SIZE^(n[1] + 1)
<1>0. MAP_SIZE \in 0 .. MAP_SIZE /\ ULONG \in Nat \ {0}
  BY RadixTreeAssumption, Kinds
<1>1. /\ n[1] \in 0 .. TopShift /\ n[2] \in Nat /\ MAP_SIZE \in Nat \ {0}
      /\ MAP_SIZE^n[1] \in Nat \ {0} /\ First(n, MAP_SIZE) \in Nat
  BY <1>0, FirstTypes
<1>2. MAP_SIZE^(n[1] + 1) = MAP_SIZE * MAP_SIZE^n[1]
  BY <1>1, PowerAssumption
<1>3. PICK d \in Nat \ {0}, k \in Nat \ {0}, a \in Nat :
        d = MAP_SIZE^n[1] /\ k = MAP_SIZE^(n[1] + 1) /\ a = n[2] /\ k = MAP_SIZE * d
  <2>1. \A j \in Nat \ {0} : MAP_SIZE * j \in Nat \ {0}
    BY <1>1
  <2> QED
    BY <1>1, <1>2, <2>1
<1>4. First(n, MAP_SIZE) = (a + 1) * k
  <2>1. (a * MAP_SIZE + MAP_SIZE) = (a + 1) * MAP_SIZE
    BY <1>1
  <2>2. ((a + 1) * MAP_SIZE) * d = (a + 1) * (MAP_SIZE * d)
    BY <1>1
  <2> QED
    BY <1>3, <2>1, <2>2 DEF First
<1>5. a * k <= ULONG - 1 /\ a * k \in Nat
  BY <1>3, NameBound
<1>6. a * k < ULONG
  BY <1>0, <1>5
<1>7. ASSUME n[1] # TopShift
      PROVE  First(n, MAP_SIZE) <= ULONG
  <2>1. n[1] + 1 \in 0 .. TopShift
    BY <1>1, <1>7, RadixTreeAssumption
  <2>2. ULONG % k = 0
    BY <1>3, <2>1, WidthAssumption
  <2>3. (a + 1) * k <= ULONG
    BY <1>0, <1>6, <2>2, WholeSteps
  <2> QED
    BY <1>4, <2>3
<1>8. ASSUME n[1] = TopShift
      PROVE  n[2] = 0 /\ First(n, MAP_SIZE) % ULONG = 0
  <2>1. k % ULONG = 0
    BY <1>3, <1>8, RadixTreeAssumption
  <2>2. k >= ULONG
    BY <1>0, <1>3, <2>1
  <2>3. a = 0
    <3>1. a # 0 => 1 * k <= a * k
      BY <1>3, Grows
    <3> QED
      BY <1>0, <1>3, <1>5, <1>6, <2>2, <3>1
  <2>4. (a + 1) * k = k
    BY <1>3, <2>3
  <2> QED
    BY <1>3, <1>4, <2>1, <2>3, <2>4
<1> QED
  BY <1>3, <1>4, <1>7, <1>8

\* The first index after a node wraps to 0 or not at all.
LEMMA Hop ==
  ASSUME NEW n \in NodeIds
  PROVE  LET v == First(n, MAP_SIZE) IN
         /\ v \in Nat /\ v % ULONG \in 0 .. ULONG - 1
         /\ \/ v % ULONG = 0 /\ v >= ULONG
            \/ v % ULONG = v /\ v < ULONG
<1>0. MAP_SIZE \in 0 .. MAP_SIZE /\ ULONG \in Nat \ {0}
  BY RadixTreeAssumption, Kinds
<1>1. PICK v \in Nat : v = First(n, MAP_SIZE)
  BY <1>0, FirstTypes
<1>2. v # 0
  <2>1. /\ n[2] \in Nat /\ n[2] + 1 \in Nat /\ n[1] + 1 \in 0 .. TopShift + 1
    BY NodeNames, RadixTreeAssumption
  <2>2. MAP_SIZE^(n[1] + 1) \in Nat \ {0}
    BY <2>1, Powers
  <2>3. \A a \in Nat, k \in Nat \ {0} : (a + 1) * k # 0
    <3> SUFFICES ASSUME NEW a \in Nat, NEW k \in Nat \ {0}
                 PROVE  (a + 1) * k # 0
      OBVIOUS
    <3>1. 1 <= a + 1 /\ a + 1 \in Nat /\ k \in Nat
      OBVIOUS
    <3>2. 1 * k <= (a + 1) * k
      BY <3>1, Grows
    <3> QED
      BY <3>2
  <2> QED
    BY <1>1, <2>1, <2>2, <2>3, Room
<1>3. CASE v < ULONG
  BY <1>0, <1>1, <1>3
<1>4. CASE v = ULONG
  BY <1>0, <1>1, <1>4
<1>5. CASE v > ULONG
  <2>1. v % ULONG = 0
    BY <1>0, <1>1, <1>5, Room
  <2> QED
    BY <1>0, <1>1, <1>5, <2>1
<1> QED
  BY <1>0, <1>1, <1>3, <1>4, <1>5

\* What index &~ node_maxindex(node) and the offset added to it make of an
\* index under the node.
LEMMA Base ==
  ASSUME NEW n \in NodeIds, node[n].shift = n[1], NEW i \in 0 .. ULONG - 1,
         Under(n, i), NEW o \in 0 .. MAP_SIZE
  PROVE  ChunkBase(n, i) + o * MAP_SIZE^node[n].shift = First(n, o)
<1>0. ULONG \in Nat \ {0} /\ i \in Nat /\ o \in Nat
  BY Kinds, RadixTreeAssumption
<1>1. /\ n[1] \in 0 .. TopShift /\ n[2] \in Nat /\ MAP_SIZE \in Nat \ {0}
      /\ MAP_SIZE^n[1] \in Nat \ {0}
  BY FirstTypes
<1>2. MAP_SIZE^(n[1] + 1) = MAP_SIZE * MAP_SIZE^n[1]
  BY <1>1, PowerAssumption
<1>3. PICK d \in Nat \ {0}, k \in Nat \ {0}, a \in Nat :
        d = MAP_SIZE^n[1] /\ k = MAP_SIZE^(n[1] + 1) /\ a = n[2] /\ k = MAP_SIZE * d
  <2>1. \A j \in Nat \ {0} : MAP_SIZE * j \in Nat \ {0}
    BY <1>1
  <2> QED
    BY <1>1, <1>2, <2>1
<1>4. a = i \div k
  BY <1>3 DEF Under
<1>5. ChunkBase(n, i) = k * a
  <2>1. i = k * (i \div k) + (i % k) /\ i % k \in 0 .. k - 1
    BY <1>0, <1>3, DivMod
  <2>2. CASE n[1] # TopShift
    <3>1. n[1] + 1 \in 0 .. TopShift
      BY <1>1, <2>2, RadixTreeAssumption
    <3>2. k < ULONG
      BY <1>3, <3>1, PowerAssumption
    <3>3. (((k % ULONG) - 1) % ULONG) + 1 = k
      BY <1>0, <1>3, <3>2
    <3>4. node_maxindex(n) + 1 = k
      BY <1>3, <3>3 DEF node_maxindex, shift_maxindex
    <3>5. ChunkBase(n, i) = i - (i % k)
      BY <3>4 DEF ChunkBase
    <3>6. k * a \in Nat
      BY <1>3
    <3> QED
      BY <1>0, <1>4, <2>1, <3>5, <3>6
  <2>3. CASE n[1] = TopShift
    <3>1. k % ULONG = 0
      BY <1>3, <2>3, RadixTreeAssumption
    <3>2. ((0 - 1) % ULONG) + 1 = ULONG
      BY <1>0
    <3>3. node_maxindex(n) + 1 = ULONG
      BY <1>3, <3>1, <3>2 DEF node_maxindex, shift_maxindex
    <3>4. i % ULONG = i
      BY <1>0
    <3>5. ChunkBase(n, i) = 0
      BY <1>0, <3>3, <3>4 DEF ChunkBase
    <3>6. a = 0
      BY <1>3, <2>3, Room
    <3> QED
      BY <1>3, <3>5, <3>6
  <2> QED
    BY <2>2, <2>3
<1>6. k * a + o * d = (a * MAP_SIZE + o) * d
  <2>1. (MAP_SIZE * d) * a = (a * MAP_SIZE) * d
    BY <1>1, <1>3
  <2>2. \A b \in Nat : (b + o) * d = b * d + o * d
    BY <1>0, <1>3
  <2>3. a * MAP_SIZE \in Nat
    BY <1>1
  <2> QED
    BY <1>3, <2>1, <2>2, <2>3
<1> QED
  BY <1>3, <1>5, <1>6 DEF First

\* The slots of a leaf.
LEMMA LeafFirst ==
  ASSUME NEW n \in NodeIds, n[1] = 0, NEW o \in 0 .. MAP_SIZE
  PROVE  First(n, o) = n[2] * MAP_SIZE + o
<1>1. n[2] * MAP_SIZE + o \in Nat /\ MAP_SIZE^0 = 1
  BY FirstTypes, PowerAssumption
<1>2. \A b \in Nat : b * 1 = b
  OBVIOUS
<1> QED
  BY <1>1, <1>2 DEF First

\* An index under a leaf.
LEMMA LeafSlot ==
  ASSUME NEW n \in NodeIds, n[1] = 0, NEW i \in Nat, Under(n, i)
  PROVE  i = n[2] * MAP_SIZE + Offset(i, 0)
<1>1. 0 \in 0 .. TopShift
  BY RadixTreeAssumption
<1>2. i \div MAP_SIZE^0 = (i \div MAP_SIZE^(0 + 1)) * MAP_SIZE + Offset(i, 0)
  BY <1>1, OffsetStep
<1>3. i \div MAP_SIZE^0 = i
  BY PowerAssumption
<1> QED
  BY <1>2, <1>3 DEF Under

\* What "Update the iterator state" makes of an index under a leaf.
LEMMA LeafVisit ==
  ASSUME NEW n \in NodeIds, n[1] = 0, node[n].shift = 0, NEW i \in 0 .. ULONG - 1,
         Under(n, i)
  PROVE  /\ ChunkBase(n, i) + Offset(i, 0) = i
         /\ (ChunkBase(n, i) + node_maxindex(n) + 1) % ULONG
              = ((n[2] + 1) * MAP_SIZE) % ULONG
<1>0. ULONG \in Nat \ {0} /\ i \in Nat /\ MAP_SIZE \in Nat \ {0, 1}
      /\ MAP_SIZE^0 = 1 /\ 0 \in 0 .. TopShift /\ n[2] \in Nat
  BY Kinds, RadixTreeAssumption, PowerAssumption, NodeNames
<1>1. MAP_SIZE^(0 + 1) = MAP_SIZE
  BY <1>0, PowerAssumption
<1>2. ChunkBase(n, i) = n[2] * MAP_SIZE
  <2>1. 0 \in 0 .. MAP_SIZE /\ 0 * MAP_SIZE^0 = 0
    BY <1>0
  <2>2. ChunkBase(n, i) + 0 * MAP_SIZE^node[n].shift = First(n, 0)
    BY <2>1, Base
  <2>3. ChunkBase(n, i) + 0 = n[2] * MAP_SIZE + 0
    BY <2>1, <2>2, LeafFirst
  <2>4. ChunkBase(n, i) \in Int
    <3>1. node_maxindex(n) + 1 \in Nat \ {0}
      BY <1>0 DEF node_maxindex, shift_maxindex
    <3> QED
      BY <1>0, <3>1 DEF ChunkBase
  <2>5. n[2] * MAP_SIZE \in Nat
    BY <1>0
  <2> QED
    BY <2>3, <2>4, <2>5
<1>3. node_maxindex(n) + 1 = MAP_SIZE
  <2>1. 0 + 1 \in 0 .. TopShift
    BY RadixTreeAssumption, WidthAssumption
  <2>2. MAP_SIZE < ULONG
    BY <1>1, <2>1, PowerAssumption
  <2>3. MAP_SIZE * 1 = MAP_SIZE /\ MAP_SIZE % ULONG = MAP_SIZE
    BY <1>0, <2>2
  <2>4. (MAP_SIZE - 1) % ULONG = MAP_SIZE - 1 /\ MAP_SIZE - 1 \in Nat
    BY <1>0, <2>2
  <2>5. ((((MAP_SIZE * 1) % ULONG) - 1) % ULONG) + 1 = MAP_SIZE
    BY <1>0, <2>3, <2>4
  <2> QED
    BY <1>0, <2>5 DEF node_maxindex, shift_maxindex
<1>4. i = n[2] * MAP_SIZE + Offset(i, 0)
  BY <1>0, LeafSlot
<1>5. n[2] * MAP_SIZE + node_maxindex(n) + 1 = (n[2] + 1) * MAP_SIZE
  <2>1. (n[2] + 1) * MAP_SIZE = n[2] * MAP_SIZE + MAP_SIZE /\ n[2] * MAP_SIZE \in Nat
    BY <1>0
  <2>2. PICK x \in Int : x = node_maxindex(n)
    BY <1>0 DEF node_maxindex, shift_maxindex
  <2> QED
    BY <1>0, <1>3, <2>1, <2>2
<1> QED
  BY <1>2, <1>4, <1>5

\* radix_tree_chunk_size() counts the slots of the leaf from the iterator on,
\* also in the last leaf, where next_index wraps.
LEMMA ChunkSize ==
  ASSUME NEW p, Leaf(p), p.offset \in Slots
  PROVE  /\ radix_tree_chunk_size(p) = MAP_SIZE - p.offset
         /\ p.index \in Nat /\ p.index + 1 \in Nat
<1>0. ULONG \in Nat \ {0} /\ MAP_SIZE \in Nat \ {0, 1} /\ 0 \in 0 .. TopShift
  BY Kinds, RadixTreeAssumption
<1>1. MAP_SIZE < ULONG
  <2>1. 0 + 1 \in 0 .. TopShift
    BY RadixTreeAssumption, WidthAssumption
  <2>2. MAP_SIZE^(0 + 1) = MAP_SIZE * MAP_SIZE^0 /\ MAP_SIZE^0 = 1
    BY <1>0, PowerAssumption
  <2>3. MAP_SIZE^(0 + 1) = MAP_SIZE
    BY <1>0, <2>2
  <2> QED
    BY <2>1, <2>3, PowerAssumption
<1>2. PICK n \in NodeIds : n = p.node
  BY DEF Leaf
<1>3. n[1] = 0 /\ n[2] \in Nat /\ n[1] # TopShift /\ MAP_SIZE \in 0 .. MAP_SIZE
  BY <1>0, <1>2, NodeNames, WidthAssumption DEF Leaf
<1>4. PICK b \in Nat : b = n[2] * MAP_SIZE
  BY <1>0, <1>3
<1>5. PICK o \in 0 .. MAP_SIZE - 1 : o = p.offset
  BY DEF Slots
<1>6. First(n, MAP_SIZE) = b + MAP_SIZE
  BY <1>3, <1>4, LeafFirst
<1>7. (n[2] + 1) * MAP_SIZE = b + MAP_SIZE
  BY <1>0, <1>3, <1>4
<1>8. p.index = b + o /\ p.next = (b + MAP_SIZE) % ULONG
  BY <1>2, <1>4, <1>5, <1>7 DEF Leaf
<1>9. b + MAP_SIZE <= ULONG
  BY <1>3, <1>6, Room
<1>10. CASE b + MAP_SIZE < ULONG
  <2>1. p.next = b + MAP_SIZE
    BY <1>0, <1>8, <1>10
  <2>2. p.next - p.index = MAP_SIZE - o /\ MAP_SIZE - o \in 0 .. ULONG - 1
    BY <1>0, <1>1, <1>8, <2>1
  <2>3. (MAP_SIZE - o) % ULONG = MAP_SIZE - o
    BY <1>0, <2>2
  <2> QED
    BY <1>5, <1>8, <2>2, <2>3 DEF radix_tree_chunk_size
<1>11. CASE b + MAP_SIZE = ULONG
  <2>1. p.next = 0
    BY <1>0, <1>8, <1>11
  <2>2. p.next - p.index = (MAP_SIZE - o) - ULONG /\ MAP_SIZE - o \in 0 .. ULONG - 1
    BY <1>0, <1>1, <1>8, <1>11, <2>1
  <2>3. ((MAP_SIZE - o) - ULONG) % ULONG = MAP_SIZE - o
    BY <1>0, <2>2
  <2> QED
    BY <1>5, <1>8, <2>2, <2>3 DEF radix_tree_chunk_size
<1> QED
  BY <1>0, <1>9, <1>10, <1>11

\* When nothing is owed in the rest of a leaf, the iterator resumes after it.
LEMMA LeafLeft ==
  ASSUME NEW p, Leaf(p), p.offset \in Slots, NEW T, T \subseteq 0 .. ULONG - 1,
         \A k \in T : k >= First(p.node, MAP_SIZE)
  PROVE  /\ p.next = 0 => T = {} /\ p.index # 0
         /\ p.next # 0 => p.next > p.index /\ \A k \in T : k >= p.next
<1>0. ULONG \in Nat \ {0} /\ MAP_SIZE \in Nat \ {0, 1}
  BY Kinds, RadixTreeAssumption
<1>2. PICK n \in NodeIds : n = p.node
  BY DEF Leaf
<1>3. n[1] = 0 /\ n[2] \in Nat /\ MAP_SIZE \in 0 .. MAP_SIZE
  BY <1>0, <1>2, NodeNames DEF Leaf
<1>4. PICK b \in Nat : b = n[2] * MAP_SIZE
  BY <1>0, <1>3
<1>5. PICK o \in 0 .. MAP_SIZE - 1 : o = p.offset
  BY DEF Slots
<1>6. PICK v \in Nat : v = First(n, MAP_SIZE)
  BY Hop
<1>7. v = b + MAP_SIZE
  BY <1>3, <1>4, <1>6, LeafFirst
<1>8. (n[2] + 1) * MAP_SIZE = b + MAP_SIZE
  BY <1>0, <1>3, <1>4
<1>9. p.index = b + o /\ p.next = v % ULONG
  BY <1>2, <1>4, <1>5, <1>7, <1>8 DEF Leaf
<1>10. radix_tree_chunk_size(p) = MAP_SIZE - o
  BY <1>5, ChunkSize
<1>11. CASE v % ULONG = 0 /\ v >= ULONG
  <2>1. p.next = 0
    BY <1>9, <1>11
  <2>2. T = {}
    BY <1>0, <1>2, <1>6, <1>11
  <2>3. p.index # 0
    <3>1. p.index = 0 => radix_tree_chunk_size(p) = 0
      BY <1>0, <2>1 DEF radix_tree_chunk_size
    <3> QED
      BY <1>0, <1>10, <3>1
  <2> QED
    BY <2>1, <2>2, <2>3
<1>12. CASE v % ULONG = v /\ v < ULONG
  BY <1>0, <1>2, <1>6, <1>7, <1>9, <1>12
<1> QED
  BY <1>6, <1>11, <1>12, Hop
----------------------------------------------------------------------------
(* radix_tree_next_chunk() and radix_tree_next_slot().                     *)

\* What slot s of node n may hold for an iterator in the nodes N.
GroundSlot(n, s, N) ==
  LET e == node[n].slots[s] IN
  \/ e = NULL
  \/ /\ n[1] = 0 /\ e \in Items /\ n[2] * MAP_SIZE + s \in Keys
     /\ map[n[2] * MAP_SIZE + s] # NULL
  \/ n[1] > 0 /\ e \in N /\ Hangs(e, n, s)

\* What an iterator in the nodes N that owes T relies on.
GroundNodes(N) ==
  \A n \in N : /\ n \in NodeIds /\ node[n].shift = n[1]
               /\ \A s \in Slots : GroundSlot(n, s, N)

GroundOwed(N, T) ==
  \A k \in T : /\ k \in Keys
               /\ \A n \in N : Under(n, k) => Entry(n, k) # NULL

GroundRoot(N, T) ==
  /\ rnode \in NodeIds => /\ rnode \in N /\ rnode[2] = 0
                          /\ \A k \in T : Under(rnode, k)
  /\ rnode \notin NodeIds => \A k \in T : k = 0
  /\ rnode = NULL => T = {}
  /\ rnode \notin NodeIds /\ rnode # NULL => 0 \in Keys /\ map[0] # NULL

Ground(N, T) == GroundNodes(N) /\ GroundOwed(N, T) /\ GroundRoot(N, T)

SearchPcs == {"chunk", "restart", "descend", "hole", "reload", "next"}

\* One step of the search has taken the iterator from p to q.
Stepped(p, q, N) ==
  /\ q \in IterRecs /\ q.job = p.job /\ q.nodes = p.nodes /\ PosOK(q, N)
  /\ q.pc \in SearchPcs \cup {"body", "done"}
  /\ q.pc # "body" => q.owed = p.owed /\ q.last = p.last
  /\ q.pc = "body" =>
       /\ q.owed = p.owed \ {q.index} /\ Rising(p, q.index)
       /\ map[q.index] # NULL
       /\ p.job = "lookup" => q.index = p.last + 1
       /\ q.node = NULL => rnode \notin NodeIds

\* The search ends.
LEMMA SearchOver ==
  ASSUME NEW p \in IterRecs, NEW N, p.owed = {}
  PROVE  Stepped(p, Over(p), N)
<1>1. PICK q : q = Over(p)
  OBVIOUS
<1>2. /\ q.pc = "done" /\ q.job = p.job /\ q.nodes = p.nodes /\ q.owed = p.owed
      /\ q.last = p.last /\ q \in IterRecs
  <2>1. 0 \in 0 .. ULONG - 1 /\ 0 \in Slots
    BY Kinds
  <2> QED
    BY <1>1, <2>1 DEF Over, IterRecs
<1>3. PosOK(q, N)
  BY <1>2 DEF PosOK
<1> QED
  BY <1>1, <1>2, <1>3 DEF Stepped

\* The search starts again at the root.
LEMMA SearchRestarts ==
  ASSUME NEW p \in IterRecs, NEW N, Searching(p), p.job # "lookup"
  PROVE  Stepped(p, Restart(p), N)
<1>1. PICK q : q = Restart(p)
  OBVIOUS
<1>2. /\ q.pc = "restart" /\ q.job = p.job /\ q.nodes = p.nodes /\ q.owed = p.owed
      /\ q.last = p.last /\ q \in IterRecs /\ q.i = p.i
  BY <1>1, Kinds DEF Restart, IterRecs
<1>3. PosOK(q, N)
  BY <1>2 DEF PosOK, Searching, Ahead, Rising
<1> QED
  BY <1>1, <1>2, <1>3 DEF Stepped, SearchPcs

\* The slot of index p.i of leaf p.node is visited.
LEMMA SearchVisits ==
  ASSUME NEW p \in IterRecs, NEW N, GroundNodes(N), p.node \in N, p.node[1] = 0,
         Under(p.node, p.i), p.offset = Offset(p.i, 0), Searching(p),
         node[p.node].slots[p.offset] # NULL, p.job = "lookup" => p.i = p.last + 1
  PROVE  Stepped(p, Visit(p), N)
<1>1. PICK q : q = Visit(p)
  OBVIOUS
<1>2. PICK n \in NodeIds : n = p.node
  BY DEF GroundNodes
<1>3. PICK i \in 0 .. ULONG - 1 : i = p.i
  BY DEF IterRecs
<1>4. node[n].shift = 0
  BY <1>2 DEF GroundNodes
<1>5. /\ ChunkBase(n, i) + Offset(i, 0) = i
      /\ (ChunkBase(n, i) + node_maxindex(n) + 1) % ULONG
           = ((n[2] + 1) * MAP_SIZE) % ULONG
  BY <1>2, <1>3, <1>4, LeafVisit
<1>6. PICK next \in 0 .. ULONG - 1 : next = ((n[2] + 1) * MAP_SIZE) % ULONG
  <2>1. ULONG \in Nat \ {0} /\ (n[2] + 1) * MAP_SIZE \in Nat
    BY Kinds, NodeNames, RadixTreeAssumption
  <2> QED
    BY <2>1
<1>7. q = [p EXCEPT !.pc = "body", !.index = i, !.next = next, !.child = NULL,
                    !.i = 0, !.last = i, !.owed = p.owed \ {i}]
  BY <1>1, <1>2, <1>3, <1>5, <1>6 DEF Visit
<1>8. /\ q.pc = "body" /\ q.job = p.job /\ q.nodes = p.nodes /\ q.index = i
      /\ q.next = next /\ q.last = i /\ q.owed = p.owed \ {i} /\ q.node = n
      /\ q.offset = p.offset /\ q \in IterRecs
  <2>1. 0 \in 0 .. ULONG - 1 /\ i \in Int
    BY Kinds
  <2> QED
    BY <1>2, <1>7, <2>1 DEF IterRecs
<1>9. i = n[2] * MAP_SIZE + p.offset /\ n[1] = 0
  <2>1. i \in Nat
    BY RadixTreeAssumption
  <2> QED
    BY <1>2, <1>3, <2>1, LeafSlot
<1>10. i \in Keys /\ map[i] # NULL
  <2>1. p.offset \in Slots
    BY DEF IterRecs
  <2>2. GroundSlot(n, p.offset, N)
    BY <1>2, <2>1 DEF GroundNodes
  <2>3. node[n].slots[p.offset] # NULL
    BY <1>2
  <2>4. n[1] = 0 /\ ~(n[1] > 0)
    BY <1>9
  <2> QED
    BY <1>9, <2>2, <2>3, <2>4 DEF GroundSlot
<1>11. \A k \in q.owed : k > q.index
  <2>1. \A k \in p.owed : k >= i /\ k \in Int
    BY <1>3, Kinds DEF Searching, Ahead, IterRecs
  <2> QED
    BY <1>8, <2>1
<1>12. Leaf(q)
  BY <1>6, <1>8, <1>9 DEF Leaf
<1>13. Visiting(q) /\ q.node # NULL
  BY <1>8, <1>10, <1>11, <1>12, Kinds DEF Visiting
<1>14. PosOK(q, N)
  BY <1>2, <1>8, <1>13 DEF PosOK
<1>15. Rising(p, i)
  BY <1>3 DEF Searching
<1> QED
  BY <1>1, <1>3, <1>8, <1>10, <1>13, <1>14, <1>15 DEF Stepped

\* The iterator stands before slot p.offset of node p.node, that of p.i.
Standing(p, N) ==
  /\ p.node \in N /\ Under(p.node, p.i) /\ Searching(p)
  /\ p.offset = Offset(p.i, p.node[1])
  /\ p.job = "lookup" => p.i = p.last + 1 /\ \A k \in p.owed : k = p.last + 1

\* The end of a turn of the loop, when the slot is not empty or the search
\* may start again.
LEMMA SearchDescended ==
  ASSUME NEW p \in IterRecs, NEW N, GroundNodes(N), Standing(p, N),
         NEW child, child = node[p.node].slots[p.offset],
         child = NULL => p.job # "lookup"
  PROVE  Stepped(p, Descended(p, child), N)
<1>1. PICK n \in NodeIds : n = p.node /\ n \in N
  BY DEF GroundNodes, Standing
<1>2. p.offset \in Slots /\ p.i \in Nat
  BY RadixTreeAssumption DEF IterRecs
<1>3. node[n].shift = n[1] /\ GroundSlot(n, p.offset, N)
  BY <1>1, <1>2 DEF GroundNodes
<1>4. n[1] \in Nat
  BY NodeNames
<1>5. CASE child = NULL
  <2>1. Descended(p, child) = Restart(p)
    BY <1>5 DEF Descended
  <2> QED
    BY <1>5, <2>1, SearchRestarts DEF Standing
<1>6. CASE child # NULL /\ n[1] > 0
  <2>1. child \in N /\ Hangs(child, n, p.offset)
    BY <1>1, <1>3, <1>4, <1>6 DEF GroundSlot
  <2>2. child \in NodeIds
    BY <2>1 DEF GroundNodes
  <2>3. PICK q : q = [p EXCEPT !.pc = "descend", !.child = child]
    OBVIOUS
  <2>4. Descended(p, child) = q
    BY <1>1, <1>3, <1>4, <1>6, <2>2, <2>3 DEF Descended, IsNode
  <2>5. /\ q.pc = "descend" /\ q.job = p.job /\ q.nodes = p.nodes /\ q.owed = p.owed
        /\ q.last = p.last /\ q.i = p.i /\ q.child = child /\ q \in IterRecs
    BY <2>2, <2>3 DEF IterRecs
  <2>6. Under(child, p.i)
    BY <1>1, <1>2, <2>1, <2>2, UnderChild DEF Standing
  <2>7. Searching(q)
    BY <2>5 DEF Standing, Searching, Ahead, Rising
  <2>8. PosOK(q, N)
    BY <2>1, <2>5, <2>6, <2>7 DEF PosOK, Standing
  <2> QED
    BY <2>4, <2>5, <2>8 DEF Stepped, SearchPcs
<1>7. CASE child # NULL /\ ~(n[1] > 0)
  <2>1. n[1] = 0
    BY <1>4, <1>7
  <2>2. Descended(p, child) = Visit(p)
    BY <1>1, <1>3, <1>7, <2>1 DEF Descended
  <2>3. /\ p.node \in N /\ p.node[1] = 0 /\ Under(p.node, p.i)
        /\ p.offset = Offset(p.i, 0) /\ Searching(p)
        /\ node[p.node].slots[p.offset] # NULL
        /\ p.job = "lookup" => p.i = p.last + 1
    BY <1>1, <1>7, <2>1 DEF Standing
  <2>4. Stepped(p, Visit(p), N)
    BY <2>3, SearchVisits
  <2> QED
    BY <2>2, <2>4
<1> QED
  BY <1>5, <1>6, <1>7

\* Stepped() only looks at these fields of its first argument.
LEMMA SteppedFrom ==
  ASSUME NEW p, NEW q, NEW x, NEW N, Stepped(q, x, N), q.job = p.job,
         q.nodes = p.nodes, q.owed = p.owed, q.last = p.last
  PROVE  Stepped(p, x, N)
<1>1. \A j : Rising(q, j) = Rising(p, j)
  BY DEF Rising
<1> QED
  BY <1>1 DEF Stepped

\* One turn of the loop up to the test for a hole.
LEMMA SearchDescends ==
  ASSUME NEW p \in IterRecs, NEW N, Ground(N, p.owed), PosOK(p, N), p.pc = "descend"
  PROVE  Stepped(p, Descend(p), N)
<1>1. PICK n \in NodeIds : n = p.child /\ n \in N
  BY DEF Ground, GroundNodes, PosOK
<1>2. PICK i \in Nat : i = p.i
  BY RadixTreeAssumption DEF IterRecs
<1>3. node[n].shift = n[1] /\ n[1] \in 0 .. TopShift
  BY <1>1, NodeNames DEF Ground, GroundNodes
<1>4. PICK o \in Slots : o = Offset(i, n[1])
  BY <1>3, OffsetStep
<1>5. PICK q : q = [p EXCEPT !.node = n, !.offset = o]
  OBVIOUS
<1>6. /\ q.pc = p.pc /\ q.job = p.job /\ q.nodes = p.nodes /\ q.owed = p.owed
      /\ q.last = p.last /\ q.i = i /\ q.node = n /\ q.offset = o /\ q \in IterRecs
  BY <1>2, <1>5 DEF IterRecs
<1>7. PICK child : child = node[n].slots[o]
  OBVIOUS
<1>8. Under(n, i) /\ Searching(p)
  BY <1>1, <1>2 DEF PosOK
<1>9. Searching(q)
  BY <1>2, <1>6, <1>8 DEF Searching, Ahead, Rising
<1>10. Standing(q, N)
  BY <1>1, <1>2, <1>4, <1>6, <1>8, <1>9 DEF PosOK, Standing
<1>11. Descend(p) = IF child # NULL THEN Descended(q, child)
                    ELSE IF p.job = "lookup" THEN Over(q)
                    ELSE [q EXCEPT !.pc = "hole", !.child = NULL]
  BY <1>1, <1>2, <1>3, <1>4, <1>5, <1>6, <1>7 DEF Descend
<1>12. CASE child # NULL
  <2>1. Stepped(q, Descended(q, child), N)
    BY <1>6, <1>7, <1>10, <1>12, SearchDescended DEF Ground
  <2> QED
    BY <1>6, <1>11, <1>12, <2>1, SteppedFrom
<1>13. ASSUME child = NULL, NEW k \in p.owed
       PROVE  k \in Nat /\ (Under(n, k) => Offset(k, n[1]) # o)
  <2>1. k \in Nat
    BY Kinds DEF IterRecs
  <2>2. Under(n, k) => node[n].slots[Offset(k, n[1])] # NULL
    BY <1>1 DEF Ground, GroundOwed, Entry
  <2> QED
    BY <1>7, <1>13, <2>1, <2>2
<1>14. CASE child = NULL /\ p.job = "lookup"
  <2>1. p.owed = {}
    <3> SUFFICES ASSUME NEW k \in p.owed PROVE FALSE
      OBVIOUS
    <3>1. k = i
      BY <1>2, <1>14 DEF PosOK
    <3> QED
      BY <1>4, <1>8, <1>13, <1>14, <3>1
  <2>2. Stepped(q, Over(q), N)
    BY <1>6, <2>1, SearchOver
  <2> QED
    BY <1>6, <1>11, <1>14, <2>2, SteppedFrom
<1>15. CASE child = NULL /\ p.job # "lookup"
  <2>1. PICK x : x = [q EXCEPT !.pc = "hole", !.child = NULL]
    OBVIOUS
  <2>2. /\ x.pc = "hole" /\ x.job = p.job /\ x.nodes = p.nodes /\ x.owed = p.owed
        /\ x.last = p.last /\ x.i = i /\ x.node = n /\ x.offset = o /\ x \in IterRecs
    BY <1>6, <2>1 DEF IterRecs
  <2>3. Searching(x)
    BY <1>2, <1>8, <2>2 DEF Searching, Ahead, Rising
  <2>4. ASSUME NEW k \in p.owed, Under(n, k)
        PROVE  Offset(k, n[1]) > o
    <3>1. k \in Nat /\ Offset(k, n[1]) # o /\ k >= i
      BY <1>2, <1>8, <1>13, <1>15, <2>4 DEF Searching, Ahead
    <3>2. Offset(k, n[1]) \in Slots
      BY <1>3, <3>1, OffsetStep
    <3>3. o \in 0 .. MAP_SIZE /\ o \in Int /\ Offset(k, n[1]) \in Int
      BY <3>2, RadixTreeAssumption DEF Slots
    <3>4. i >= i /\ Offset(i, n[1]) >= o
      BY <1>4, <3>3
    <3>5. i >= First(n, o) /\ First(n, o) \in Nat
      BY <1>8, <3>3, <3>4, Beyond, FirstTypes
    <3>6. Offset(k, n[1]) < o => k < First(n, o)
      BY <2>4, <3>1, <3>3, FirstAbove
    <3> QED
      BY <3>1, <3>3, <3>5, <3>6
  <2>5. Offset(i, n[1]) <= o
    BY <1>4 DEF Slots
  <2>6. PosOK(x, N)
    BY <1>1, <1>8, <1>15, <2>2, <2>3, <2>4, <2>5 DEF PosOK
  <2> QED
    BY <1>11, <1>15, <2>1, <2>2, <2>6 DEF Stepped, SearchPcs
<1> QED
  BY <1>12, <1>14, <1>15

\* One turn of the search for a slot in use after a hole.
LEMMA SearchHole ==
  ASSUME NEW p \in IterRecs, NEW N, Ground(N, p.owed), PosOK(p, N), p.pc = "hole"
  PROVE  Stepped(p, Hole(p), N)
<1>0. ULONG \in Nat \ {0} /\ MAP_SIZE \in Nat \ {0, 1}
  BY Kinds, RadixTreeAssumption
<1>1. PICK n \in NodeIds : n = p.node /\ n \in N
  BY DEF Ground, GroundNodes, PosOK
<1>2. PICK i \in 0 .. ULONG - 1 : i = p.i
  BY DEF IterRecs
<1>3. node[n].shift = n[1] /\ n[1] \in 0 .. TopShift
  BY <1>1, NodeNames DEF Ground, GroundNodes
<1>4. PICK o \in 1 .. MAP_SIZE : o = p.offset + 1
  BY <1>0 DEF IterRecs, Slots
<1>5. /\ Under(n, i) /\ Searching(p) /\ Offset(i, n[1]) <= p.offset /\ p.job # "lookup"
      /\ \A k \in p.owed : Under(n, k) => Offset(k, n[1]) > p.offset
  BY <1>1, <1>2 DEF PosOK
<1>6. p.offset \in Int /\ Offset(i, n[1]) \in Slots /\ i \in Nat
  BY <1>0, <1>2, <1>3, OffsetStep DEF IterRecs, Slots
<1>7. ASSUME NEW k \in p.owed
      PROVE  /\ k \in Nat /\ k >= i /\ k < ULONG
             /\ Under(n, k) => Offset(k, n[1]) >= o /\ Offset(k, n[1]) \in Int
  <2>1. k \in Nat /\ k < ULONG /\ k >= i
    BY <1>0, <1>2, <1>5, Kinds DEF IterRecs, Searching, Ahead
  <2>2. Offset(k, n[1]) \in Int
    BY <1>3, <2>1, OffsetStep DEF Slots
  <2> QED
    BY <1>4, <1>5, <1>6, <2>1, <2>2
<1>8. PICK v \in Nat : v = First(n, o)
  BY <1>0, FirstTypes
<1>9. Advanced(n, i, o) = v % ULONG
  <2>1. o \in 0 .. MAP_SIZE
    BY <1>0
  <2>2. ChunkBase(n, i) + o * MAP_SIZE^node[n].shift = First(n, o)
    BY <1>3, <1>5, <2>1, Base
  <2> QED
    BY <1>8, <2>2 DEF Advanced
<1>10. ASSUME NEW k \in p.owed
       PROVE  k >= v
  <2>1. o \in 0 .. MAP_SIZE
    BY <1>0
  <2> QED
    BY <1>5, <1>6, <1>7, <1>8, <2>1, Beyond
<1>11. v > i
  <2>1. o \in 0 .. MAP_SIZE /\ Offset(i, n[1]) < o
    BY <1>0, <1>4, <1>5, <1>6 DEF Slots
  <2> QED
    BY <1>5, <1>6, <1>8, <2>1, FirstAbove
<1>12. PICK w \in 0 .. ULONG - 1 : w = v % ULONG
  BY <1>0
<1>13. CASE o < MAP_SIZE /\ node[n].slots[o] = NULL
  <2>1. PICK x : x = [p EXCEPT !.offset = o]
    OBVIOUS
  <2>2. Hole(p) = x
    BY <1>1, <1>4, <1>13, <2>1 DEF Hole
  <2>3. /\ x.pc = "hole" /\ x.job = p.job /\ x.nodes = p.nodes /\ x.owed = p.owed
        /\ x.last = p.last /\ x.i = i /\ x.node = n /\ x.offset = o /\ x \in IterRecs
    <3>1. o \in Slots
      BY <1>0, <1>13 DEF Slots
    <3> QED
      BY <1>1, <1>2, <2>1, <3>1 DEF IterRecs
  <2>4. Searching(x)
    BY <1>2, <1>5, <2>3 DEF Searching, Ahead, Rising
  <2>5. ASSUME NEW k \in p.owed, Under(n, k)
        PROVE  Offset(k, n[1]) > o
    <3>1. node[n].slots[Offset(k, n[1])] # NULL
      BY <1>1, <2>5 DEF Ground, GroundOwed, Entry
    <3> QED
      BY <1>7, <1>13, <2>5, <3>1
  <2>6. Offset(i, n[1]) <= o
    BY <1>4, <1>5, <1>6 DEF Slots
  <2>7. PosOK(x, N)
    BY <1>1, <1>5, <2>3, <2>4, <2>5, <2>6 DEF PosOK
  <2> QED
    BY <2>2, <2>3, <2>7 DEF Stepped, SearchPcs
<1>14. CASE ~(o < MAP_SIZE /\ node[n].slots[o] = NULL)
  <2>1. PICK q : q = [p EXCEPT !.offset = o, !.i = w]
    OBVIOUS
  <2>2. Hole(p) = IF w = 0 THEN Over(q)
                  ELSE IF o = MAP_SIZE THEN Restart(q) ELSE [q EXCEPT !.pc = "reload"]
    <3>1. [p EXCEPT !.offset = p.offset + 1,
                    !.i = Advanced(p.node, p.i, p.offset + 1)] = q
      BY <1>1, <1>2, <1>4, <1>9, <1>12, <2>1
    <3>2. q.i = w
      BY <2>1 DEF IterRecs
    <3> QED
      BY <1>1, <1>4, <1>14, <3>1, <3>2 DEF Hole
  <2>3. /\ q.pc = p.pc /\ q.job = p.job /\ q.nodes = p.nodes /\ q.owed = p.owed
        /\ q.last = p.last /\ q.i = w /\ q.node = n /\ q.offset = o
    BY <1>1, <2>1 DEF IterRecs
  <2>4. \/ w = 0 /\ p.owed = {}
        \/ w = v
    <3>1. CASE o = MAP_SIZE
      <4>1. (w = 0 /\ v >= ULONG) \/ w = v
        BY <1>8, <1>12, <3>1, Hop
      <4>2. v >= ULONG => p.owed = {}
        BY <1>0, <1>7, <1>10
      <4> QED
        BY <4>1, <4>2
    <3>2. CASE o # MAP_SIZE
      <4>1. o \in Slots /\ node[n].slots[o] # NULL /\ o \in 0 .. MAP_SIZE
        BY <1>0, <1>14, <3>2 DEF Slots
      <4>2. GroundSlot(n, o, N)
        BY <1>1, <4>1 DEF Ground, GroundNodes
      <4>3. v < ULONG
        <5>1. CASE n[1] = 0
          <6>1. n[2] * MAP_SIZE + o \in Keys
            BY <1>3, <4>1, <4>2, <5>1 DEF GroundSlot
          <6>2. v = n[2] * MAP_SIZE + o
            BY <1>8, <4>1, <5>1, LeafFirst
          <6> QED
            BY <1>0, <6>1, <6>2, Kinds
        <5>2. CASE n[1] # 0
          <6>1. PICK e \in NodeIds : Hangs(e, n, o)
            BY <4>1, <4>2, <5>2 DEF GroundSlot, Ground, GroundNodes
          <6>2. e[1] + 1 = n[1] /\ e[2] = n[2] * MAP_SIZE + o
            BY <6>1 DEF Hangs
          <6>3. e[2] * MAP_SIZE^(e[1] + 1) <= ULONG - 1
            BY NameBound
          <6>4. v = e[2] * MAP_SIZE^(e[1] + 1)
            BY <1>8, <6>2 DEF First
          <6> QED
            BY <1>0, <6>3, <6>4
        <5> QED
          BY <5>1, <5>2
      <4> QED
        BY <1>0, <1>12, <4>3
    <3> QED
      BY <3>1, <3>2
  <2>5. CASE w = 0
    <3>1. p.owed = {}
      BY <1>6, <1>11, <2>4, <2>5
    <3>2. PICK x : x = Over(q)
      OBVIOUS
    <3>3. /\ x.pc = "done" /\ x.job = p.job /\ x.nodes = p.nodes /\ x.owed = p.owed
          /\ x.last = p.last /\ x \in IterRecs
      <4>1. x = [p EXCEPT !.pc = "done", !.child = NULL, !.node = NULL, !.index = 0,
                          !.next = 0, !.i = 0, !.offset = 0]
        BY <2>1, <3>2 DEF Over
      <4>2. 0 \in 0 .. ULONG - 1 /\ 0 \in Slots
        BY Kinds
      <4> QED
        BY <4>1, <4>2 DEF IterRecs
    <3>4. PosOK(x, N)
      BY <3>1, <3>3 DEF PosOK
    <3> QED
      BY <2>2, <2>5, <3>2, <3>3, <3>4 DEF Stepped
  <2>6. ASSUME w # 0
        PROVE  w = v /\ \A x : x.i = w /\ x.owed = p.owed /\ x.last = p.last /\ x.job = p.job
                                 => Searching(x)
    <3>1. w = v
      BY <2>4, <2>6
    <3>2. \A k \in p.owed : k >= w
      BY <1>10, <3>1
    <3>3. Rising(p, w)
      <4>1. Rising(p, i)
        BY <1>2, <1>5 DEF Searching
      <4>2. p.last \in Int
        BY DEF IterRecs
      <4> QED
        BY <1>6, <1>11, <3>1, <4>1, <4>2 DEF Rising
    <3> QED
      BY <3>1, <3>2, <3>3 DEF Searching, Ahead, Rising
  <2>7. CASE w # 0 /\ o = MAP_SIZE
    <3>1. PICK x : x = Restart(q)
      OBVIOUS
    <3>2. /\ x.pc = "restart" /\ x.job = p.job /\ x.nodes = p.nodes /\ x.owed = p.owed
          /\ x.last = p.last /\ x.i = w /\ x \in IterRecs
      <4>1. x = [p EXCEPT !.pc = "restart", !.node = NULL, !.child = NULL,
                          !.offset = 0, !.i = w]
        BY <2>1, <3>1 DEF Restart
      <4>2. 0 \in Slots
        BY Kinds
      <4> QED
        BY <4>1, <4>2 DEF IterRecs
    <3>3. PosOK(x, N)
      BY <1>5, <2>6, <2>7, <3>2 DEF PosOK
    <3> QED
      BY <2>2, <2>7, <3>1, <3>2, <3>3 DEF Stepped, SearchPcs
  <2>8. CASE w # 0 /\ o # MAP_SIZE
    <3>1. PICK x : x = [q EXCEPT !.pc = "reload"]
      OBVIOUS
    <3>2. o \in Slots
      BY <1>0, <2>8 DEF Slots
    <3>3. /\ x.pc = "reload" /\ x.job = p.job /\ x.nodes = p.nodes /\ x.owed = p.owed
          /\ x.last = p.last /\ x.i = w /\ x.node = n /\ x.offset = o /\ x \in IterRecs
      <4>1. x = [p EXCEPT !.pc = "reload", !.offset = o, !.i = w]
        BY <2>1, <3>1
      <4> QED
        BY <1>1, <3>2, <4>1 DEF IterRecs
    <3>4. Under(n, w) /\ Offset(w, n[1]) = o
      BY <1>8, <2>6, <2>8, <3>2, FirstThere
    <3>5. PosOK(x, N)
      BY <1>1, <1>5, <2>6, <2>8, <3>3, <3>4 DEF PosOK
    <3> QED
      BY <2>2, <2>8, <3>1, <3>3, <3>5 DEF Stepped, SearchPcs
  <2> QED
    BY <2>5, <2>7, <2>8
<1> QED
  BY <1>13, <1>14

\* The slot found in use is loaded again.
LEMMA SearchReload ==
  ASSUME NEW p \in IterRecs, NEW N, Ground(N, p.owed), PosOK(p, N), p.pc = "reload"
  PROVE  Stepped(p, Reload(p), N)
<1>1. Standing(p, N) /\ p.job # "lookup"
  BY DEF PosOK, Standing
<1> QED
  BY <1>1, SearchDescended DEF Ground, Reload

\* radix_tree_load_root() and the single-slot tree, from index i on.
LEMMA SearchRoot ==
  ASSUME NEW p \in IterRecs, NEW N, Ground(N, p.owed), p.pc \in {"chunk", "restart"},
         NEW i \in 0 .. ULONG - 1, i = IF p.pc = "chunk" THEN p.next ELSE p.i,
         Overflown(p) => p.owed = {}, ~Overflown(p) => Ahead(p, i) /\ Rising(p, i),
         p.job = "lookup" => i = p.last + 1 /\ \A k \in p.owed : k = p.last + 1
  PROVE  Stepped(p, LoadRoot(p), N)
<1>0. ULONG \in Nat \ {0} /\ 1 < ULONG
  <2>1. 0 \in 0 .. TopShift
    BY RadixTreeAssumption
  <2> QED
    BY <2>1, Kinds, PowerAssumption
<1>1. ASSUME NEW k \in p.owed
      PROVE  k \in 0 .. ULONG - 1
  BY Kinds DEF IterRecs
<1>2. CASE Overflown(p)
  BY <1>2, SearchOver DEF LoadRoot
<1>3. CASE rnode = NULL
  <2>1. p.owed = {}
    BY <1>3 DEF Ground, GroundRoot
  <2> QED
    BY <1>3, <2>1, SearchOver DEF LoadRoot
<1>4. CASE ~Overflown(p) /\ rnode \in NodeIds
  <2>1. rnode \in N /\ rnode[2] = 0 /\ node[rnode].shift = rnode[1]
    BY <1>4 DEF Ground, GroundRoot, GroundNodes
  <2>2. rnode[1] \in 0 .. TopShift
    BY <1>4, NodeNames
  <2>3. PICK top \in 0 .. ULONG - 1 : top = RootMax
    <3>1. MAP_SIZE^rnode[1] \in Nat /\ MAP_SIZE \in Nat
      BY <2>2, PowerAssumption, RadixTreeAssumption
    <3>2. PICK x \in Nat : x = MAP_SIZE * MAP_SIZE^rnode[1]
      BY <3>1
    <3>3. ((x % ULONG) - 1) % ULONG \in 0 .. ULONG - 1
      BY <1>0
    <3> QED
      BY <1>4, <2>1, <3>2, <3>3 DEF RootMax, IsNode, shift_maxindex
  <2>4. \A j \in 0 .. ULONG - 1 : j <= top <=> Under(rnode, j)
    BY <1>4, <2>1, <2>2, <2>3, RoomFor DEF RootMax, IsNode, Under
  <2>5. CASE i > top
    <3>1. p.owed = {}
      <4> SUFFICES ASSUME NEW k \in p.owed PROVE FALSE
        OBVIOUS
      <4>1. k \in 0 .. ULONG - 1 /\ k >= i /\ Under(rnode, k)
        BY <1>1, <1>4 DEF Ground, GroundRoot, Ahead
      <4>2. k <= top
        BY <2>4, <4>1
      <4> QED
        BY <1>0, <2>3, <2>5, <4>1, <4>2
    <3> QED
      BY <2>3, <2>5, <3>1, SearchOver DEF LoadRoot
  <2>6. CASE ~(i > top)
    <3>1. Under(rnode, i)
      BY <1>0, <2>3, <2>4, <2>6
    <3>2. PICK x : x = [p EXCEPT !.pc = "descend", !.i = i, !.child = rnode,
                                 !.node = NULL, !.offset = 0]
      OBVIOUS
    <3>3. LoadRoot(p) = x
      BY <1>4, <2>3, <2>6, <3>2, Kinds DEF LoadRoot, IsNode
    <3>4. /\ x.pc = "descend" /\ x.job = p.job /\ x.nodes = p.nodes /\ x.owed = p.owed
          /\ x.last = p.last /\ x.i = i /\ x.child = rnode /\ x \in IterRecs
      BY <1>4, <3>2, Kinds DEF IterRecs
    <3>5. Searching(x)
      BY <1>4, <3>4 DEF Searching, Ahead, Rising
    <3>6. PosOK(x, N)
      BY <2>1, <3>1, <3>4, <3>5 DEF PosOK
    <3> QED
      BY <3>3, <3>4, <3>6 DEF Stepped, SearchPcs
  <2> QED
    BY <2>5, <2>6
<1>5. CASE ~Overflown(p) /\ rnode \notin NodeIds /\ rnode # NULL
  <2>1. RootMax = 0
    BY <1>5 DEF RootMax, IsNode
  <2>2. 0 \in Keys /\ map[0] # NULL /\ \A k \in p.owed : k = 0
    BY <1>5 DEF Ground, GroundRoot
  <2>3. CASE i > 0
    <3>1. p.owed = {}
      BY <1>0, <1>5, <2>2, <2>3 DEF Ahead
    <3> QED
      BY <2>1, <2>3, <3>1, SearchOver DEF LoadRoot
  <2>4. CASE ~(i > 0)
    <3>1. i = 0 /\ 1 % ULONG = 1 /\ 1 \in 0 .. ULONG - 1
      BY <1>0, <2>4
    <3>2. PICK x : x = [p EXCEPT !.pc = "body", !.index = 0, !.next = 1,
                     !.node = NULL, !.offset = 0, !.i = 0, !.last = 0,
                     !.owed = p.owed \ {0}]
      OBVIOUS
    <3>3. LoadRoot(p) = x
      BY <1>5, <2>1, <2>4, <3>1, <3>2 DEF LoadRoot, IsNode
    <3>4. /\ x.pc = "body" /\ x.job = p.job /\ x.nodes = p.nodes
          /\ x.owed = p.owed \ {0} /\ x.last = 0 /\ x.index = 0 /\ x.next = 1
          /\ x.node = NULL /\ x \in IterRecs
      <4>1. 0 \in 0 .. ULONG - 1 /\ 0 \in Slots /\ 0 \in Int
        BY Kinds
      <4>2. p.owed \ {0} \in SUBSET Keys
        BY DEF IterRecs
      <4> QED
        BY <3>1, <3>2, <4>1, <4>2 DEF IterRecs
    <3>5. x.owed = {}
      BY <2>2, <3>4
    <3>6. PosOK(x, N)
      BY <2>2, <3>4, <3>5 DEF PosOK, Visiting
    <3>7. Rising(p, 0)
      BY <1>5, <3>1
    <3> QED
      BY <1>5, <2>2, <3>1, <3>3, <3>4, <3>6, <3>7 DEF Stepped
  <2> QED
    BY <2>3, <2>4
<1> QED
  BY <1>2, <1>3, <1>4, <1>5

\* The iterator at a slot of a leaf, with nothing owed up to there.
LEMMA LeafNext ==
  ASSUME NEW q \in IterRecs, NEW N, q.pc = "next", q.job # "lookup", Leaf(q),
         q.node \in N, q.last <= q.index, \A k \in q.owed : k > q.index
  PROVE  PosOK(q, N)
<1>0. ULONG \in Nat \ {0} /\ MAP_SIZE \in Nat \ {0, 1} /\ MAP_SIZE \in 0 .. MAP_SIZE
  BY Kinds, RadixTreeAssumption
<1>1. q.offset \in Slots /\ q.owed \subseteq 0 .. ULONG - 1 /\ q.last \in Int
      /\ q.next \in 0 .. ULONG - 1
  BY Kinds DEF IterRecs
<1>2. radix_tree_chunk_size(q) = MAP_SIZE - q.offset /\ q.index \in Nat
  BY <1>1, ChunkSize
<1>3. CASE radix_tree_chunk_size(q) > 1
  BY <1>3 DEF PosOK
<1>4. CASE ~(radix_tree_chunk_size(q) > 1)
  <2>1. q.offset = MAP_SIZE - 1
    BY <1>0, <1>1, <1>2, <1>4 DEF Slots
  <2>2. PICK n \in NodeIds : n = q.node /\ n[1] = 0 /\ n[2] \in Nat
    BY NodeNames DEF Leaf
  <2>3. PICK b \in Nat : b = n[2] * MAP_SIZE
    BY <1>0, <2>2
  <2>4. First(n, MAP_SIZE) = b + MAP_SIZE
    BY <1>0, <2>2, <2>3, LeafFirst
  <2>5. q.index = b + (MAP_SIZE - 1)
    BY <2>1, <2>2, <2>3 DEF Leaf
  <2>6. \A k \in q.owed : k >= First(q.node, MAP_SIZE)
    BY <1>0, <1>1, <2>2, <2>4, <2>5
  <2>7. /\ q.next = 0 => q.owed = {} /\ q.index # 0
        /\ q.next # 0 => q.next > q.index /\ \A k \in q.owed : k >= q.next
    BY <1>1, <2>6, LeafLeft
  <2>8. Resumes(q)
    <3>1. CASE q.next = 0
      BY <2>7, <3>1 DEF Resumes
    <3>2. CASE q.next # 0
      <4>1. q.next > q.last
        BY <1>0, <1>1, <1>2, <2>7, <3>2
      <4> QED
        BY <2>7, <3>2, <4>1 DEF Resumes, Ahead, Rising
    <3> QED
      BY <3>1, <3>2
  <2> QED
    BY <1>4, <2>8 DEF PosOK
<1> QED
  BY <1>3, <1>4

\* One turn of the loop of radix_tree_next_slot().
LEMMA SearchSlot ==
  ASSUME NEW p \in IterRecs, NEW N, Ground(N, p.owed), PosOK(p, N), p.pc = "next",
         radix_tree_chunk_size(p) > 1
  PROVE  Stepped(p, NextSlot(p), N)
<1>0. ULONG \in Nat \ {0} /\ MAP_SIZE \in Nat \ {0, 1}
  BY Kinds, RadixTreeAssumption
<1>1. /\ Leaf(p) /\ p.node \in N /\ p.last <= p.index /\ p.job # "lookup"
      /\ \A k \in p.owed : k > p.index
  BY DEF PosOK
<1>2. p.offset \in Slots
  BY DEF IterRecs
<1>3. radix_tree_chunk_size(p) = MAP_SIZE - p.offset /\ p.index \in Nat
  BY <1>1, <1>2, ChunkSize
<1>4. PICK o \in Slots : o = p.offset + 1
  BY <1>0, <1>2, <1>3 DEF Slots
<1>5. PICK n \in NodeIds : n = p.node /\ n[1] = 0 /\ n \in N /\ n[2] \in Nat
  BY <1>1, NodeNames DEF Leaf
<1>6. PICK j \in Nat : j = p.index + 1
  BY <1>3
<1>7. j = n[2] * MAP_SIZE + o
  <2>1. n[2] * MAP_SIZE \in Nat /\ p.offset \in Nat
    BY <1>0, <1>2, <1>5 DEF Slots
  <2>2. p.index = n[2] * MAP_SIZE + p.offset
    BY <1>1, <1>5 DEF Leaf
  <2> QED
    BY <1>4, <1>6, <2>1, <2>2
<1>8. First(n, o) = j
  <2>1. o \in 0 .. MAP_SIZE
    BY <1>0 DEF Slots
  <2> QED
    BY <1>5, <1>7, <2>1, LeafFirst
<1>9. Under(n, j) /\ Offset(j, 0) = o
  BY <1>5, <1>8, FirstThere
<1>10. j < ULONG
  <2>1. n[1] # TopShift
    BY <1>5, WidthAssumption
  <2>2. First(n, MAP_SIZE) = n[2] * MAP_SIZE + MAP_SIZE
    BY <1>0, <1>5, LeafFirst
  <2>3. n[2] * MAP_SIZE + MAP_SIZE <= ULONG
    BY <2>1, <2>2, Room
  <2>4. PICK b \in Nat : b = n[2] * MAP_SIZE
    BY <1>0, <1>5
  <2> QED
    BY <1>0, <1>7, <2>3, <2>4 DEF Slots
<1>11. PICK q : q = [p EXCEPT !.offset = o, !.index = j]
  OBVIOUS
<1>12. NextSlot(p) = IF node[n].slots[o] = NULL THEN q
                     ELSE [q EXCEPT !.pc = "body", !.last = j, !.owed = p.owed \ {j}]
  <2> DEFINE u == [p EXCEPT !.offset = @ + 1, !.index = @ + 1]
  <2>1. NextSlot(p) = IF node[u.node].slots[u.offset] = NULL THEN u
                      ELSE [u EXCEPT !.pc = "body", !.last = u.index,
                                     !.owed = @ \ {u.index}]
    BY DEF NextSlot
  <2>2. u = q
    BY <1>4, <1>6, <1>11 DEF IterRecs
  <2> HIDE DEF u
  <2>3. q.node = n /\ q.offset = o /\ q.index = j /\ q.owed = p.owed
    BY <1>5, <1>11 DEF IterRecs
  <2> QED
    BY <2>1, <2>2, <2>3
<1>13. \A k \in p.owed : k \in Nat /\ k >= j
  <2>1. \A k \in p.owed : k \in Nat
    BY Kinds DEF IterRecs
  <2> QED
    BY <1>1, <1>3, <1>6, <2>1
<1>14. Rising(p, j)
  <2>1. p.last \in Int
    BY DEF IterRecs
  <2> QED
    BY <1>1, <1>3, <1>6, <2>1 DEF Rising
<1>16. j \in 0 .. ULONG - 1 /\ j \in Int
  BY <1>0, <1>10
<1>15. CASE node[n].slots[o] = NULL
  <2>1. /\ q.pc = "next" /\ q.job = p.job /\ q.nodes = p.nodes /\ q.owed = p.owed
        /\ q.last = p.last /\ q.index = j /\ q.node = n /\ q.offset = o
        /\ q.next = p.next /\ q \in IterRecs
    BY <1>5, <1>11, <1>16 DEF IterRecs
  <2>2. \A k \in p.owed : k > j
    <3> SUFFICES ASSUME NEW k \in p.owed, k = j PROVE FALSE
      BY <1>13
    <3> QED
      BY <1>5, <1>9, <1>15 DEF Ground, GroundOwed, Entry
  <2>3. Leaf(q)
    BY <1>1, <1>5, <1>7, <2>1 DEF Leaf
  <2>4. q.last <= q.index
    <3>1. p.last \in Int
      BY DEF IterRecs
    <3> QED
      BY <1>1, <1>3, <1>6, <2>1, <3>1
  <2>5. PosOK(q, N)
    BY <1>1, <1>5, <2>1, <2>2, <2>3, <2>4, LeafNext
  <2> QED
    BY <1>12, <1>15, <2>1, <2>5 DEF Stepped, SearchPcs
<1>17. CASE node[n].slots[o] # NULL
  <2>1. PICK x : x = [p EXCEPT !.offset = o, !.index = j, !.pc = "body", !.last = j,
                               !.owed = p.owed \ {j}]
    OBVIOUS
  <2>2. NextSlot(p) = x
    BY <1>11, <1>12, <1>17, <2>1
  <2>3. /\ x.pc = "body" /\ x.job = p.job /\ x.nodes = p.nodes
        /\ x.owed = p.owed \ {j} /\ x.last = j /\ x.index = j /\ x.node = n
        /\ x.offset = o /\ x.next = p.next /\ x \in IterRecs
    <3>1. p.owed \ {j} \in SUBSET Keys
      BY DEF IterRecs
    <3> QED
      BY <1>5, <1>16, <2>1, <3>1 DEF IterRecs
  <2>4. j \in Keys /\ map[j] # NULL
    <3>1. GroundSlot(n, o, N)
      BY <1>5 DEF Ground, GroundNodes
    <3>2. ~(n[1] > 0)
      BY <1>5
    <3> QED
      BY <1>7, <1>17, <3>1, <3>2 DEF GroundSlot
  <2>5. Leaf(x)
    BY <1>1, <1>5, <1>7, <2>3 DEF Leaf
  <2>6. \A k \in x.owed : k > j
    BY <1>13, <2>3
  <2>7. Visiting(x) /\ x.node # NULL
    BY <2>3, <2>4, <2>5, <2>6, Kinds DEF Visiting
  <2>8. PosOK(x, N)
    BY <1>1, <1>5, <2>3, <2>7 DEF PosOK
  <2> QED
    BY <1>1, <1>14, <2>2, <2>3, <2>4, <2>7, <2>8 DEF Stepped
<1> QED
  BY <1>15, <1>17

\* Every step of the search keeps the iterator in nodes it may be in, before
\* what it owes and behind what it visited.
LEMMA SearchStep ==
  ASSUME NEW p \in IterRecs, NEW N, Ground(N, p.owed), PosOK(p, N), p.pc \in SearchPcs
  PROVE  Stepped(p, Searched(p), N)
<1>1. CASE p.pc = "descend"
  <2>1. Searched(p) = Descend(p)
    BY <1>1 DEF Searched
  <2> QED
    BY <1>1, <2>1, SearchDescends
<1>2. CASE p.pc = "hole"
  <2>1. Searched(p) = Hole(p)
    BY <1>2 DEF Searched
  <2> QED
    BY <1>2, <2>1, SearchHole
<1>3. CASE p.pc = "reload"
  <2>1. Searched(p) = Reload(p)
    BY <1>3 DEF Searched
  <2> QED
    BY <1>3, <2>1, SearchReload
<1>4. CASE p.pc = "chunk"
  <2>1. Searched(p) = LoadRoot(p)
    BY <1>4 DEF Searched
  <2>2. PICK i \in 0 .. ULONG - 1 : i = p.next
    BY DEF IterRecs
  <2>3. /\ Overflown(p) => p.owed = {}
        /\ ~Overflown(p) => Ahead(p, i) /\ Rising(p, i)
    BY <1>4, <2>2 DEF PosOK, Resumes, Overflown
  <2>4. p.job = "lookup" => i = p.last + 1 /\ \A k \in p.owed : k = p.last + 1
    BY <1>4, <2>2 DEF PosOK
  <2>5. i = IF p.pc = "chunk" THEN p.next ELSE p.i
    BY <1>4, <2>2
  <2> QED
    BY <1>4, <2>1, <2>3, <2>4, <2>5, SearchRoot
<1>5. CASE p.pc = "restart"
  <2>1. Searched(p) = LoadRoot(p)
    BY <1>5 DEF Searched
  <2>2. PICK i \in 0 .. ULONG - 1 : i = p.i
    BY DEF IterRecs
  <2>3. ~Overflown(p) /\ Ahead(p, i) /\ Rising(p, i) /\ p.job # "lookup"
    BY <1>5, <2>2 DEF PosOK, Searching, Overflown
  <2>5. i = IF p.pc = "chunk" THEN p.next ELSE p.i
    BY <1>5, <2>2
  <2> QED
    BY <1>5, <2>1, <2>3, <2>5, SearchRoot
<1>6. CASE p.pc = "next" /\ radix_tree_chunk_size(p) > 1
  <2>1. Searched(p) = NextSlot(p)
    BY <1>6 DEF Searched
  <2> QED
    BY <1>6, <2>1, SearchSlot
<1>7. CASE p.pc = "next" /\ ~(radix_tree_chunk_size(p) > 1)
  <2>1. PICK q : q = [p EXCEPT !.pc = "chunk"]
    OBVIOUS
  <2>2. Searched(p) = LoadRoot(q)
    BY <1>7, <2>1 DEF Searched
  <2>3. /\ q.pc = "chunk" /\ q.job = p.job /\ q.nodes = p.nodes /\ q.owed = p.owed
        /\ q.last = p.last /\ q.index = p.index /\ q.next = p.next /\ q \in IterRecs
    BY <2>1 DEF IterRecs
  <2>4. PICK i \in 0 .. ULONG - 1 : i = q.next
    BY <2>3 DEF IterRecs
  <2>5. Resumes(p) /\ p.job # "lookup"
    BY <1>7 DEF PosOK
  <2>6. /\ Overflown(q) => q.owed = {}
        /\ ~Overflown(q) => Ahead(q, i) /\ Rising(q, i)
    BY <2>3, <2>4, <2>5 DEF Resumes, Overflown, Ahead, Rising
  <2>7. i = IF q.pc = "chunk" THEN q.next ELSE q.i
    BY <2>3, <2>4
  <2>8. Stepped(q, LoadRoot(q), N)
    BY <2>3, <2>5, <2>6, <2>7, SearchRoot
  <2> QED
    BY <2>2, <2>3, <2>8, SteppedFrom
<1> QED
  BY <1>1, <1>2, <1>3, <1>4, <1>5, <1>6, <1>7 DEF SearchPcs
----------------------------------------------------------------------------
(* The tree an iterator is in.                                             *)

\* What the leaves hold is in the map.
LEMMA LeafHolds ==
  ASSUME StructInv, NEW n \in live, n[1] = 0, NEW s \in Slots, node[n].slots[s] # NULL
  PROVE  /\ n[2] * MAP_SIZE + s \in Keys
         /\ map[n[2] * MAP_SIZE + s] = node[n].slots[s]
<1>1. n \in NodeIds /\ s \in 0 .. MAP_SIZE
  BY RadixTreeAssumption DEF StructInv, Types, Slots
<1>2. PICK j : j = n[2] * MAP_SIZE + s
  OBVIOUS
<1>3. j \in Keys
  BY <1>2 DEF StructInv, KeysOnly
<1>4. First(n, s) = j
  BY <1>1, <1>2, LeafFirst
<1>5. Under(n, j) /\ Offset(j, n[1]) = s
  BY <1>1, <1>4, FirstThere
<1>6. Entry(n, j) = map[j]
  BY <1>3, <1>5 DEF StructInv, MapInv, LeafExact
<1> QED
  BY <1>2, <1>3, <1>5, <1>6 DEF Entry

\* An iterator can rely on the nodes that are allocated and those that were
\* unlinked under it.
LEMMA GroundHolds ==
  ASSUME StructInv, NEW r, NEW S \in SUBSET retired, NEW p \in IterRecs,
         Stays(r, S), Still(p, S), \A k \in p.owed : map[k] # NULL
  PROVE  Ground(live \cup S, p.owed)
<1> DEFINE N == live \cup S
<1>1. N \subseteq NodeIds /\ live \subseteq NodeIds
  BY DEF StructInv, Types
<1>2. ASSUME NEW n \in N, NEW s \in Slots
      PROVE  GroundSlot(n, s, N)
  <2>1. CASE n \in live
    <3>1. SlotOK(n, s)
      BY <2>1 DEF StructInv, SlotsOK
    <3>2. PICK e : e = node[n].slots[s]
      OBVIOUS
    <3>3. CASE e = NULL
      BY <3>2, <3>3 DEF GroundSlot
    <3>4. CASE e # NULL /\ n[1] = 0 /\ e \in Items
      BY <2>1, <3>2, <3>4, LeafHolds DEF GroundSlot
    <3>5. CASE n[1] > 0 /\ e \in live /\ Hangs(e, n, s)
      BY <3>2, <3>5 DEF GroundSlot
    <3> QED
      BY <3>1, <3>2, <3>3, <3>4, <3>5 DEF SlotOK
  <2>2. CASE n \in S
    <3>1. KeptSlot(n, s)
      BY <2>2 DEF StructInv, GraceInv, RetiredOK
    <3>2. node[n].slots[s] \in live \cup S \cup {NULL}
      BY <2>2 DEF Stays
    <3> QED
      BY <3>1, <3>2 DEF KeptSlot, GroundSlot
  <2> QED
    BY <2>1, <2>2
<1>3. ASSUME NEW n \in N
      PROVE  node[n].shift = n[1]
  BY DEF StructInv, Shaped
<1>4. GroundNodes(N)
  BY <1>1, <1>2, <1>3 DEF GroundNodes
<1>5. p.owed \subseteq Keys
  BY DEF IterRecs
<1>6. GroundOwed(N, p.owed)
  <2> SUFFICES ASSUME NEW k \in p.owed, NEW n \in N, Under(n, k)
               PROVE  Entry(n, k) # NULL
    BY <1>5 DEF GroundOwed
  <2>1. CASE n \in live
    BY <1>5, <2>1 DEF StructInv, MapInv, Absent
  <2>2. CASE n \in S
    BY <2>2 DEF Still
  <2> QED
    BY <2>1, <2>2
<1>7. GroundRoot(N, p.owed)
  <2>1. CASE rnode \in NodeIds
    BY <1>5, <2>1, Kinds DEF StructInv, RootOK, MapInv, RootExact, GroundRoot
  <2>2. CASE rnode \notin NodeIds
    <3>1. \A k \in Keys : map[k] = IF k = 0 THEN rnode ELSE NULL
      BY <2>2 DEF StructInv, MapInv, RootExact
    <3>2. \A k \in p.owed : k = 0 /\ rnode # NULL
      BY <1>5, <3>1
    <3>3. rnode # NULL => 0 \in Keys
      BY <2>2, Kinds DEF StructInv, Types, KeysOnly
    <3> QED
      BY <2>2, <3>1, <3>2, <3>3 DEF GroundRoot
  <2> QED
    BY <2>1, <2>2
<1> QED
  BY <1>4, <1>6, <1>7 DEF Ground

\* The whole invariant of the tree contains the part item_kill_tree() keeps.
LEMMA WholeTree ==
  ASSUME RadixInv, KeysOnly
  PROVE  StructInv
BY DEF RadixInv, TreeInv, StructInv
----------------------------------------------------------------------------
(* The steps of the writer.                                                *)

\* What a step of the writer leaves to the iterators: a node it unlinks
\* keeps its slots and waits for them, and the map does not change then.
WriterFrame ==
  /\ \A n \in live : n \in live' \/ n \in retired' \/ Awaited = {}
  /\ \A n \in retired : /\ n \in retired' /\ grace'[n] = grace[n]
                        /\ node'[n].slots = node[n].slots
  /\ \A n \in retired' : n \notin retired =>
       /\ n \in live /\ grace'[n] = Awaited /\ node'[n].slots = node[n].slots
       /\ map' = map
  /\ \A r \in Readers : rd'[r].pc = rd[r].pc
  /\ KeysOnly'

\* It stores nothing.
LEMMA FrameNothing ==
  ASSUME KeysOnly, UNCHANGED <<rnode, node, live, grace, rd>>
  PROVE  WriterFrame
<1>1. retired' = retired
  BY DEF retired
<1>2. KeysOnly'
  BY DEF KeysOnly
<1> QED
  BY <1>1, <1>2 DEF WriterFrame

\* It stores in allocated nodes, items in their places only, or adds nodes.
LEMMA FrameStore ==
  ASSUME KeysOnly, live \subseteq live', grace' = grace,
         \A m \in retired : node'[m].slots = node[m].slots,
         \A m \in live' : \A t \in Slots : m[1] = 0 =>
           \/ node'[m].slots[t] = NULL
           \/ m \in live /\ node'[m].slots[t] = node[m].slots[t]
           \/ m[2] * MAP_SIZE + t \in Keys,
         rnode' \in Items => 0 \in Keys,
         \A r \in Readers : rd'[r].pc = rd[r].pc
  PROVE  WriterFrame
<1>1. retired' = retired
  BY DEF retired
<1>2. KeysOnly'
  BY DEF KeysOnly
<1> QED
  BY <1>1, <1>2 DEF WriterFrame

\* It unlinks node n.
LEMMA FrameRetire ==
  ASSUME Types, HeldByReadersOnly, KeysOnly, NEW n \in live,
         NEW nodes \in [NodeIds -> NodeRecs], Retire(nodes, n),
         nodes[n].slots = node[n].slots,
         \A m \in retired : nodes[m].slots = node[m].slots,
         \A m \in live : \A t \in Slots :
           nodes[m].slots[t] = node[m].slots[t] \/ nodes[m].slots[t] = NULL,
         rnode' \notin Items, rd' = rd, map' = map
  PROVE  WriterFrame
<1>1. /\ live' = live \ {n}
      /\ \A m \in NodeIds : m # n => node'[m] = nodes[m]
      /\ retired' \subseteq retired \cup {n}
      /\ \A m \in retired : m \in retired' /\ grace'[m] = grace[m]
      /\ n \in retired' => node'[n] = nodes[n] /\ grace'[n] = Awaited
      /\ n \notin retired' => Awaited = {}
  BY RetireHeap
<1>2. live \subseteq NodeIds /\ retired \subseteq NodeIds \ live
  BY DEF Types
<1>3. \A m \in retired : node'[m].slots = node[m].slots
  BY <1>1, <1>2
<1>4. KeysOnly'
  <2>1. ASSUME NEW m \in live', NEW t \in Slots, m[1] = 0, node'[m].slots[t] # NULL
        PROVE  m[2] * MAP_SIZE + t \in Keys
    <3>1. m \in live /\ node'[m] = nodes[m]
      BY <1>1, <1>2, <2>1
    <3> QED
      BY <2>1, <3>1 DEF KeysOnly
  <2> QED
    BY <2>1 DEF KeysOnly
<1> QED
  BY <1>1, <1>3, <1>4 DEF WriterFrame

\* What Store() changes.
LEMMA StoreShape ==
  ASSUME NEW nodes, nodes = [m \in NodeIds |-> nodes[m]], NEW n \in NodeIds,
         nodes[n] \in NodeRecs, NEW i \in Nat, NEW e, NEW k, Store(nodes, n, i, e, k)
  PROVE  LET s == Offset(i, nodes[n].shift) IN
         /\ rnode' = rnode /\ s \in Slots
         /\ \A m \in NodeIds : m # n => node'[m] = nodes[m]
         /\ node'[n].slots[s] = e
         /\ \A t \in Slots : t # s => node'[n].slots[t] = nodes[n].slots[t]
<1>1. n # NULL
  BY Kinds
<1>2. nodes[n] \in NodeRecs
  OBVIOUS
<1>3. nodes[n].shift \in 0 .. TopShift /\ nodes[n].slots \in [Slots -> Entries]
  BY <1>2 DEF NodeRecs
<1>4. PICK s \in Slots : s = Offset(i, nodes[n].shift)
  BY <1>3, OffsetStep
<1>5. /\ rnode' = rnode
      /\ node' = [nodes EXCEPT ![n].slots[s] = e, ![n].count = (@ + k) % UINT]
  BY <1>1, <1>4 DEF Store
<1>6. PICK x : x = [nodes[n] EXCEPT !.slots[s] = e]
  OBVIOUS
<1>7. x.slots = [nodes[n].slots EXCEPT ![s] = e]
  BY <1>2, <1>6 DEF NodeRecs
<1>8. node'[n].slots = x.slots
  BY <1>2, <1>5, <1>6 DEF NodeRecs
<1>9. \A m \in NodeIds : m # n => node'[m] = nodes[m]
  BY <1>5
<1> QED
  BY <1>3, <1>4, <1>5, <1>7, <1>8, <1>9

\* radix_tree_extend() puts a node above the root.
LEMMA FrameExtend ==
  ASSUME RadixInv, KeysOnly, Extend
  PROVE  WriterFrame
<1>1. CASE NoMemory
  BY <1>1, FrameNothing DEF NoMemory
<1>2. CASE ExtendNode
  <2>1. wr.pc = "extend" /\ wr.shift \in 0 .. TopShift
    <3>1. wr.shift \in 0 .. TopShift + 1 /\ wr.top \in 0 .. TopShift /\ wr.pc = "extend"
      BY DEF RadixInv, Types, WriterRecs, Extend
    <3>2. wr.shift <= wr.top
      BY <3>1 DEF RadixInv, WriterInv, WrExtend
    <3> QED
      BY <3>1, <3>2, RadixTreeAssumption
  <2>2. PICK n \in Fresh(wr.shift, 0) :
          /\ rnode' = n /\ live' = live \cup {n}
          /\ node' = [m \in NodeIds |->
                        IF m = n THEN NewRoot(wr.shift, rnode)
                        ELSE IF m = rnode THEN [node[m] EXCEPT !.parent = n]
                        ELSE node[m]]
          /\ UNCHANGED <<grace, rd, map, failed>>
    BY <1>2 DEF ExtendNode
  <2>3. /\ n \in NodeIds /\ n \notin live /\ n \notin retired
        /\ n[1] = wr.shift /\ n[2] = 0 \div MAP_SIZE^(wr.shift + 1)
    BY <2>1, <2>2, FreshNode
  <2>4. live \subseteq NodeIds /\ retired \subseteq NodeIds \ live
        /\ node \in [NodeIds -> NodeRecs]
    BY DEF RadixInv, Types
  <2>5. ASSUME NEW m \in NodeIds, m # n
        PROVE  node'[m].slots = node[m].slots
    <3>1. node[m] \in NodeRecs
      BY <2>4
    <3>2. [node[m] EXCEPT !.parent = n].slots = node[m].slots
      BY <3>1 DEF NodeRecs
    <3> QED
      BY <2>2, <2>5, <3>2
  <2>6. \A t \in Slots : node'[n].slots[t] = IF t = 0 THEN rnode ELSE NULL
    <3>1. NewRoot(wr.shift, rnode).slots = [s \in Slots |-> IF s = 0 THEN rnode ELSE NULL]
      BY DEF NewRoot, Blank
    <3> QED
      BY <2>2, <2>3, <3>1
  <2>7. n[1] = 0 => rnode \notin NodeIds
    <3>1. wr.shift = RootShift
      BY <2>1 DEF RadixInv, WriterInv, WrExtend
    <3>2. rnode \in NodeIds => node[rnode].shift \in 0 .. TopShift
      BY <2>4 DEF NodeRecs
    <3> QED
      BY <2>3, <3>1, <3>2 DEF RootShift, IsNode
  <2>8. n[2] * MAP_SIZE + 0 = 0
    <3>1. MAP_SIZE^(wr.shift + 1) \in Nat \ {0}
      <4>1. wr.shift + 1 \in 0 .. TopShift + 1
        BY <2>1, RadixTreeAssumption
      <4> QED
        BY <4>1, Powers
    <3>2. \A k \in Nat \ {0} : 0 \div k = 0
      OBVIOUS
    <3>3. n[2] = 0
      BY <2>3, <3>1, <3>2
    <3> QED
      BY <3>3, RadixTreeAssumption
  <2>9. rnode \in Items \/ rnode \in NodeIds \/ rnode = NULL
    BY Kinds DEF RadixInv, Types
  <2>10. ASSUME NEW m \in live', NEW t \in Slots, m[1] = 0
         PROVE  \/ node'[m].slots[t] = NULL
                \/ m \in live /\ node'[m].slots[t] = node[m].slots[t]
                \/ m[2] * MAP_SIZE + t \in Keys
    <3>1. CASE m = n /\ t = 0
      BY <2>6, <2>7, <2>8, <2>9, <2>10, <3>1 DEF KeysOnly
    <3>2. CASE m = n /\ t # 0
      BY <2>6, <3>2
    <3>3. CASE m # n
      BY <2>2, <2>4, <2>5, <3>3
    <3> QED
      BY <3>1, <3>2, <3>3
  <2>11. \A m \in retired : node'[m].slots = node[m].slots
    BY <2>3, <2>4, <2>5
  <2>12. rnode' \notin Items
    BY <2>2, <2>3, Kinds
  <2> QED
    BY <2>2, <2>10, <2>11, <2>12, FrameStore
<1> QED
  BY <1>1, <1>2 DEF Extend

\* __radix_tree_create() goes down, adding what is missing.
LEMMA FrameCreate ==
  ASSUME RadixInv, KeysOnly, Create
  PROVE  WriterFrame
<1>1. CASE NoMemory
  BY <1>1, FrameNothing DEF NoMemory
<1>2. CASE FollowChild
  BY <1>2, FrameNothing DEF FollowChild
<1>3. CASE CreateChild
  <2>1. /\ wr.pc = "create" /\ wr.shift - 1 \in 0 .. TopShift /\ wr.shift > 0
        /\ wr.index \in Nat /\ wr.node \in Entries
    <3>1. wr.shift \in 0 .. TopShift + 1 /\ wr.index \in 0 .. ULONG - 1 /\ wr.node \in Entries
      BY DEF RadixInv, Types, WriterRecs
    <3>2. wr.pc = "create" /\ wr.shift > 0
      BY DEF Create
    <3> QED
      BY <3>1, <3>2, RadixTreeAssumption
  <2>2. PICK n \in Fresh(wr.shift - 1, wr.index) :
          /\ Store([node EXCEPT ![n] = [Blank EXCEPT
                      !.shift = wr.shift - 1, !.parent = wr.node,
                      !.offset = IF wr.node = NULL THEN 0
                                 ELSE Offset(wr.index, node[wr.node].shift)]],
                   wr.node, wr.index, n, 1)
          /\ live' = live \cup {n}
          /\ UNCHANGED <<grace, rd, smashed, map, failed>>
    BY <1>3 DEF CreateChild
  <2>3. n \in NodeIds /\ n \notin live /\ n \notin retired
    BY <2>1, <2>2, FreshNode
  <2>4. PICK new : new = [Blank EXCEPT
                      !.shift = wr.shift - 1, !.parent = wr.node,
                      !.offset = IF wr.node = NULL THEN 0
                                 ELSE Offset(wr.index, node[wr.node].shift)]
    OBVIOUS
  <2>5. new.slots = Blank.slots
    BY <2>4, BlankMade
  <2>6. PICK nodes : nodes = [node EXCEPT ![n] = new]
    OBVIOUS
  <2>7. Store(nodes, wr.node, wr.index, n, 1)
    BY <2>2, <2>4, <2>6
  <2>8. node \in [NodeIds -> NodeRecs] /\ live \subseteq NodeIds
        /\ retired \subseteq NodeIds \ live
    BY DEF RadixInv, Types
  <2>9. /\ nodes = [m \in NodeIds |-> nodes[m]] /\ nodes[n] = new
        /\ \A m \in NodeIds : m # n => nodes[m] = node[m]
    BY <2>3, <2>6, <2>8
  <2>10. wr.node # NULL => wr.node \in live /\ wr.node[1] > 0
    BY <2>1 DEF RadixInv, WriterInv, WrCreate
  <2>11. /\ rnode' \notin Items
         /\ \A m \in NodeIds : m # wr.node => node'[m] = nodes[m]
    <3>1. CASE wr.node = NULL
      <4>1. rnode' = n /\ node' = nodes
        BY <2>7, <3>1 DEF Store
      <4> QED
        BY <2>3, <4>1, Kinds
    <3>2. CASE wr.node # NULL
      <4>1. wr.node \in NodeIds /\ wr.node # n /\ nodes[wr.node] \in NodeRecs
        BY <2>3, <2>8, <2>9, <2>10, <3>2
      <4>2. rnode' = rnode /\ \A m \in NodeIds : m # wr.node => node'[m] = nodes[m]
        BY <2>1, <2>7, <2>9, <4>1, StoreShape
      <4>3. rnode \in NodeIds
        BY <2>10, <3>2 DEF RadixInv, TreeInv, RootOK
      <4> QED
        BY <4>2, <4>3, Kinds
    <3> QED
      BY <3>1, <3>2
  <2>12. \A m \in retired : node'[m].slots = node[m].slots
    BY <2>3, <2>8, <2>9, <2>10, <2>11, Kinds
  <2>13. ASSUME NEW m \in live', NEW t \in Slots, m[1] = 0
         PROVE  \/ node'[m].slots[t] = NULL
                \/ m \in live /\ node'[m].slots[t] = node[m].slots[t]
    <3>1. m # wr.node \/ m = n
      BY <2>2, <2>8, <2>10, <2>13, Kinds
    <3>2. CASE m = n
      <4>1. node'[m] = new
        BY <2>3, <2>9, <2>10, <2>11, <3>2, Kinds
      <4> QED
        BY <2>5, <4>1, BlankNode
    <3>3. CASE m # n
      BY <2>2, <2>8, <2>9, <2>11, <3>1, <3>3
    <3> QED
      BY <3>2, <3>3
  <2> QED
    BY <2>2, <2>11, <2>12, <2>13, FrameStore
<1> QED
  BY <1>1, <1>2, <1>3 DEF Create

\* An item, or NULL, is stored in a leaf or in the root.
LEMMA FrameEntry ==
  ASSUME RadixInv, KeysOnly, NEW e \in Items \cup {NULL}, NEW k, wr.index \in Keys,
         Store(node, wr.node, wr.index, e, k), Remember(wr.index, e),
         UNCHANGED <<live, grace>>,
         wr.node = NULL => wr.index = 0,
         wr.node # NULL => wr.node \in live /\ Under(wr.node, wr.index),
         wr.node # NULL /\ e # NULL => wr.node[1] = 0
  PROVE  WriterFrame
<1>1. node \in [NodeIds -> NodeRecs] /\ live \subseteq NodeIds
      /\ retired \subseteq NodeIds \ live /\ rd \in [Readers -> ReaderRecs]
  BY DEF RadixInv, Types
<1>2. \A r \in Readers : rd'[r].pc = rd[r].pc
  BY Remembered DEF RadixInv, ReaderInv
<1>3. CASE wr.node = NULL
  <2>1. rnode' = e /\ node' = node
    BY <1>3 DEF Store
  <2>2. 0 \in Keys
    BY <1>3
  <2> QED
    BY <1>2, <2>1, <2>2, FrameStore
<1>4. CASE wr.node # NULL
  <2>1. PICK n \in NodeIds : n = wr.node /\ n \in live
    BY <1>1, <1>4
  <2>a. wr.index \in 0 .. ULONG - 1
    BY DEF RadixInv, Types, WriterRecs
  <2>2. PICK i \in Nat : i = wr.index
    BY <2>a, RadixTreeAssumption
  <2>3. node[n].shift = n[1] /\ node[n] \in NodeRecs /\ node = [m \in NodeIds |-> node[m]]
    BY <1>1, <2>1 DEF RadixInv, TreeInv, Shaped
  <2>4. Store(node, n, i, e, k)
    BY <2>1, <2>2
  <2>5. PICK s : s = Offset(i, n[1])
    OBVIOUS
  <2>6. /\ rnode' = rnode /\ s \in Slots
        /\ \A m \in NodeIds : m # n => node'[m] = node[m]
        /\ node'[n].slots[s] = e
        /\ \A t \in Slots : t # s => node'[n].slots[t] = node[n].slots[t]
    BY <2>3, <2>4, <2>5, StoreShape
  <2>7. n[1] = 0 => n[2] * MAP_SIZE + s = i
    BY <1>4, <2>1, <2>2, <2>5, LeafSlot
  <2>8. ASSUME NEW m \in live', NEW t \in Slots, m[1] = 0
        PROVE  \/ node'[m].slots[t] = NULL
               \/ m \in live /\ node'[m].slots[t] = node[m].slots[t]
               \/ m[2] * MAP_SIZE + t \in Keys
    <3>1. CASE m # n \/ t # s
      BY <1>1, <2>6, <3>1
    <3>2. CASE m = n /\ t = s
      BY <2>2, <2>7, <2>8, <3>2
    <3> QED
      BY <3>1, <3>2
  <2>9. \A m \in retired : node'[m].slots = node[m].slots
    BY <1>1, <2>1, <2>6
  <2>10. rnode' \in Items => 0 \in Keys
    BY <2>6 DEF KeysOnly
  <2> QED
    BY <1>2, <2>8, <2>9, <2>10, FrameStore
<1> QED
  BY <1>3, <1>4

\* insert_entries(), radix_tree_replace_slot() and the store of
\* radix_tree_delete_item().
LEMMA FrameEntries ==
  ASSUME RadixInv, KeysOnly, InsertEntry \/ ReplaceSlot \/ DeleteEntry
  PROVE  WriterFrame
<1>0. wr.node \in Entries /\ wr.index \in 0 .. ULONG - 1 /\ wr.item \in Items \cup {NULL}
  BY DEF RadixInv, Types, WriterRecs
<1>1. CASE InsertEntry
  <2>1. wr.pc = "create" /\ wr.shift = 0
    BY <1>1 DEF InsertEntry
  <2>2. CASE wr.child # NULL
    BY <1>1, <2>2, FrameNothing DEF InsertEntry
  <2>3. CASE wr.child = NULL
    <3>1. wr.index \in Keys
      BY <2>1 DEF RadixInv, WriterInv, WrCreate
    <3>2. wr.node = NULL => wr.index = 0
      <4>1. wr.node = NULL => wr.index \div MAP_SIZE^0 = 0
        BY <2>1 DEF RadixInv, WriterInv, WrCreate
      <4>2. wr.index \div MAP_SIZE^0 = wr.index
        BY <1>0, PowerAssumption
      <4> QED
        BY <4>1, <4>2
    <3>3. wr.node # NULL => wr.node \in live /\ Under(wr.node, wr.index) /\ wr.node[1] = 0
      BY <2>1 DEF RadixInv, WriterInv, WrCreate
    <3>4. /\ Store(node, wr.node, wr.index, wr.item, 1) /\ Remember(wr.index, wr.item)
          /\ UNCHANGED <<live, grace>>
      BY <1>1, <2>3 DEF InsertEntry
    <3> QED
      BY <1>0, <3>1, <3>2, <3>3, <3>4, FrameEntry
  <2> QED
    BY <2>2, <2>3
<1>2. ASSUME wr.pc \in {"delete", "replace"}
      PROVE  /\ wr.index \in Keys /\ (wr.node = NULL => wr.index = 0)
             /\ wr.node # NULL => /\ wr.node \in live /\ Under(wr.node, wr.index)
                                  /\ wr.child # NULL => wr.node[1] = 0
  BY <1>2 DEF RadixInv, WriterInv, WrFound
<1>3. CASE ReplaceSlot
  <2>1. wr.pc = "replace"
    BY <1>3 DEF ReplaceSlot
  <2>2. CASE wr.child = NULL
    BY <1>3, <2>2, FrameNothing DEF ReplaceSlot
  <2>3. CASE wr.child # NULL
    <3>1. /\ Store(node, wr.node, wr.index, wr.item, 0) /\ Remember(wr.index, wr.item)
          /\ UNCHANGED <<live, grace>>
      BY <1>3, <2>3 DEF ReplaceSlot
    <3> QED
      BY <1>0, <1>2, <2>1, <2>3, <3>1, FrameEntry
  <2> QED
    BY <2>2, <2>3
<1>4. CASE DeleteEntry
  <2>1. wr.pc = "delete"
    BY <1>4 DEF DeleteEntry
  <2>2. CASE wr.item # NULL /\ wr.child # wr.item
    BY <1>4, <2>2, FrameNothing DEF DeleteEntry
  <2>3. CASE ~(wr.item # NULL /\ wr.child # wr.item)
    <3>1. /\ Store(node, wr.node, wr.index, NULL, -1) /\ Remember(wr.index, NULL)
          /\ UNCHANGED <<live, grace>>
      BY <1>4, <2>3 DEF DeleteEntry
    <3> QED
      BY <1>2, <2>1, <3>1, FrameEntry
  <2> QED
    BY <2>2, <2>3
<1> QED
  BY <1>1, <1>3, <1>4

\* delete_node() takes an empty node out of its parent, or out of the root.
LEMMA FrameUnlink ==
  ASSUME RadixInv, KeysOnly, Unlink
  PROVE  WriterFrame
<1>1. PICK n, p : n = wr.node /\ p = node[n].parent
  OBVIOUS
<1>2. /\ n \in live /\ node \in [NodeIds -> NodeRecs] /\ live \subseteq NodeIds
      /\ retired \subseteq NodeIds \ live /\ Types /\ HeldByReadersOnly
      /\ rd' = rd /\ map' = map
  BY <1>1 DEF RadixInv, Types, GraceInv, Unlink, WriterInv, WrUnlink
<1>3. CASE node[n].count # 0
  <2>1. UNCHANGED <<rnode, node, live, grace, rd>>
    BY <1>1, <1>2, <1>3 DEF Unlink
  <2> QED
    BY <2>1, FrameNothing
<1>4. CASE node[n].count = 0 /\ p = NULL
  <2>1. rnode' = NULL /\ Retire(node, n)
    BY <1>1, <1>4 DEF Unlink
  <2> QED
    BY <1>2, <2>1, Kinds, FrameRetire
<1>5. CASE node[n].count = 0 /\ p # NULL
  <2>1. /\ Retire([node EXCEPT ![p].slots[node[n].offset] = NULL,
                               ![p].count = (@ - 1) % UINT], n)
        /\ rnode' = rnode
    BY <1>1, <1>5 DEF Unlink
  <2>2. n # rnode
    BY <1>1, <1>2, <1>5 DEF RadixInv, TreeInv, RootOK
  <2>3. PICK s \in Slots : p \in live /\ p[1] = n[1] + 1 /\ node[n].offset = s
    BY <1>1, <1>2, <2>2, ParentOf DEF RadixInv
  <2>4. p \in NodeIds /\ n \in NodeIds /\ p # n
    BY <1>2, <2>3, NodeNames
  <2>5. node[p] \in NodeRecs
    BY <1>2, <2>4
  <2>6. PICK u : u = [node[p].slots EXCEPT ![s] = NULL]
    OBVIOUS
  <2>7. /\ u \in [Slots -> Entries] /\ u[s] = NULL
        /\ \A t \in Slots : t # s => u[t] = node[p].slots[t]
    BY <2>5, <2>6 DEF NodeRecs, Entries
  <2>8. PICK c : c = (node[p].count - 1) % UINT
    OBVIOUS
  <2>9. c \in 0 .. UINT - 1
    <3>1. node[p].count \in 0 .. UINT - 1
      BY <2>5 DEF NodeRecs
    <3>2. \A j \in Int : j % UINT \in 0 .. UINT - 1
      BY RadixTreeAssumption
    <3>3. node[p].count - 1 \in Int
      BY <3>1, RadixTreeAssumption
    <3> QED
      BY <2>8, <3>2, <3>3
  <2>10. PICK y : y = [[node[p] EXCEPT !.slots[s] = NULL] EXCEPT !.count = (@ - 1) % UINT]
    OBVIOUS
  <2>11. y \in NodeRecs /\ y.slots = u
    <3>1. y = [shift |-> node[p].shift, offset |-> node[p].offset, count |-> c,
               parent |-> node[p].parent, slots |-> u]
      BY <2>5, <2>6, <2>8, <2>10 DEF NodeRecs
    <3> QED
      BY <2>5, <2>7, <2>9, <3>1 DEF NodeRecs
  <2>12. PICK nodes : nodes = [node EXCEPT ![p] = y]
    OBVIOUS
  <2>13. [node EXCEPT ![p].slots[s] = NULL, ![p].count = (@ - 1) % UINT] = nodes
    BY <1>2, <2>4, <2>10, <2>12
  <2>14. Retire(nodes, n)
    BY <2>1, <2>3, <2>13
  <2>15. /\ nodes \in [NodeIds -> NodeRecs] /\ nodes[p] = y
         /\ \A m \in NodeIds : m # p => nodes[m] = node[m]
    BY <1>2, <2>4, <2>11, <2>12
  <2>16. nodes[n].slots = node[n].slots /\ \A m \in retired : nodes[m].slots = node[m].slots
    BY <1>2, <2>3, <2>4, <2>15
  <2>17. \A m \in live : \A t \in Slots :
           nodes[m].slots[t] = node[m].slots[t] \/ nodes[m].slots[t] = NULL
    BY <1>2, <2>7, <2>11, <2>15
  <2>18. rnode' \notin Items
    <3>1. rnode \in NodeIds
      BY <1>2 DEF RadixInv, TreeInv, RootOK
    <3> QED
      BY <2>1, <3>1, Kinds
  <2> QED
    BY <1>2, <2>14, <2>15, <2>16, <2>17, <2>18, FrameRetire
<1> QED
  BY <1>3, <1>4, <1>5

\* radix_tree_shrink() takes the root out.
LEMMA FrameShrink ==
  ASSUME RadixInv, KeysOnly, Shrink
  PROVE  WriterFrame
<1>1. CASE ~CanShrink
  BY <1>1, FrameNothing DEF Shrink
<1>2. CASE CanShrink
  <2>1. PICK n, c : n = rnode /\ c = node[n].slots[0]
    OBVIOUS
  <2>2. /\ Retire(Discarded(Orphaned(c), n), n) /\ rnode' = c /\ rd' = rd /\ map' = map
    BY <1>2, <2>1 DEF Shrink
  <2>3. /\ node \in [NodeIds -> NodeRecs] /\ live \subseteq NodeIds
        /\ retired \subseteq NodeIds \ live /\ Types /\ HeldByReadersOnly
    BY DEF RadixInv, Types, GraceInv
  <2>4. n \in NodeIds /\ n \in live /\ n[1] > 0 /\ c # NULL /\ 0 \in Slots
    <3>1. n \in NodeIds /\ n \in live /\ node[n].shift = n[1] /\ n[1] \in 0 .. TopShift
      BY <1>2, <2>1, NodeNames DEF CanShrink, IsNode, RadixInv, TreeInv, RootOK, Shaped
    <3> QED
      BY <1>2, <2>1, <3>1, Kinds DEF CanShrink
  <2>5. c \in live /\ c[1] + 1 = n[1]
    <3>1. SlotOK(n, 0)
      BY <2>4 DEF RadixInv, TreeInv, SlotsOK
    <3> QED
      BY <2>1, <2>4, <3>1 DEF SlotOK, Hangs
  <2>6. c \in NodeIds /\ c # n
    <3>1. c \in NodeIds /\ c[1] \in 0 .. TopShift
      BY <2>3, <2>5, NodeNames
    <3> QED
      BY <2>5, <3>1
  <2>7. PICK nodes : nodes = Discarded(Orphaned(c), n)
    OBVIOUS
  <2>8. PICK y : y = [node[c] EXCEPT !.parent = NULL]
    OBVIOUS
  <2>9. PICK z : z = [node[n] EXCEPT !.count = 0]
    OBVIOUS
  <2>10. y \in NodeRecs /\ y.slots = node[c].slots /\ z \in NodeRecs /\ z.slots = node[n].slots
    <3>1. node[c] \in NodeRecs /\ node[n] \in NodeRecs
      BY <2>3, <2>4, <2>6
    <3>2. 0 \in 0 .. UINT - 1
      BY RadixTreeAssumption
    <3> QED
      BY <2>8, <2>9, <3>1, <3>2 DEF NodeRecs
  <2>11. PICK mid : mid = [node EXCEPT ![c] = y]
    OBVIOUS
  <2>12. mid \in [NodeIds -> NodeRecs] /\ mid[c] = y
         /\ \A m \in NodeIds : m # c => mid[m] = node[m]
    BY <2>3, <2>6, <2>10, <2>11
  <2>13. nodes = [mid EXCEPT ![n] = z]
    <3>1. Orphaned(c) = mid
      BY <2>3, <2>6, <2>8, <2>11 DEF Orphaned, IsNode
    <3> QED
      BY <2>4, <2>6, <2>7, <2>9, <2>12, <3>1 DEF Discarded
  <2>14. /\ nodes \in [NodeIds -> NodeRecs] /\ nodes[n] = z /\ nodes[c] = y
         /\ \A m \in NodeIds : m # n /\ m # c => nodes[m] = node[m]
    BY <2>4, <2>6, <2>10, <2>12, <2>13
  <2>15. \A m \in NodeIds : nodes[m].slots = node[m].slots
    BY <2>10, <2>14
  <2>16. rnode' \notin Items
    BY <2>2, <2>6, Kinds
  <2> QED
    BY <2>2, <2>3, <2>4, <2>7, <2>14, <2>15, <2>16, FrameRetire
<1> QED
  BY <1>1, <1>2

\* Every step of the writer.
LEMMA WriterFrames ==
  ASSUME RadixInv, KeysOnly,
         \/ \E i \in Keys :
              \/ \E item \in Items : Insert(i, item) \/ LookupSlot(i, item)
              \/ \E item \in Items \cup {NULL} : Delete(i, item)
         \/ WriterStep
  PROVE  WriterFrame
<1>1. ASSUME NEW i \in Keys, NEW item,
             Insert(i, item) \/ LookupSlot(i, item) \/ Delete(i, item)
      PROVE  WriterFrame
  BY <1>1, FrameNothing DEF Insert, LookupSlot, Delete
<1>2. CASE WriterDescend
  BY <1>2, FrameNothing DEF WriterDescend
<1> QED
  BY <1>1, <1>2, FrameExtend, FrameCreate, FrameEntries, FrameUnlink, FrameShrink
     DEF WriterStep
----------------------------------------------------------------------------
(* A turn of the writer preserves the invariant.                           *)

\* An iterator that owes less, in a tree with more nodes it may be in.
LEMMA PosKept ==
  ASSUME NEW p, NEW q, NEW N, NEW M, N \subseteq M, PosOK(p, N),
         q.pc = p.pc, q.job = p.job, q.index = p.index, q.next = p.next,
         q.node = p.node, q.child = p.child, q.offset = p.offset, q.i = p.i,
         q.last = p.last, q.owed \subseteq p.owed
  PROVE  PosOK(q, M)
<1>1. \A j : Ahead(p, j) => Ahead(q, j)
  BY DEF Ahead
<1>2. \A j : Rising(p, j) => Rising(q, j)
  BY DEF Rising
<1>3. Searching(p) => Searching(q)
  BY <1>1, <1>2 DEF Searching
<1>4. Resumes(p) => Resumes(q)
  BY <1>1, <1>2 DEF Resumes
<1>5. Leaf(p) => Leaf(q)
  BY DEF Leaf
<1>6. Visiting(p) => Visiting(q)
  BY <1>5 DEF Visiting
<1>7. radix_tree_chunk_size(q) = radix_tree_chunk_size(p)
  BY DEF radix_tree_chunk_size
<1>8. /\ q.pc = "chunk" => Resumes(q)
      /\ q.pc = "restart" => Searching(q)
      /\ q.pc = "descend" => q.child \in M /\ Under(q.child, q.i) /\ Searching(q)
  BY <1>3, <1>4 DEF PosOK
<1>9. q.pc = "hole" =>
        /\ q.node \in M /\ Under(q.node, q.i) /\ Searching(q)
        /\ Offset(q.i, q.node[1]) <= q.offset
        /\ \A k \in q.owed : Under(q.node, k) => Offset(k, q.node[1]) > q.offset
  BY <1>3 DEF PosOK
<1>10. q.pc = "reload" =>
         /\ q.node \in M /\ Under(q.node, q.i) /\ Searching(q)
         /\ Offset(q.i, q.node[1]) = q.offset
  BY <1>3 DEF PosOK
<1>11. q.pc = "body" => Visiting(q) /\ (q.node # NULL => q.node \in M)
  BY <1>6 DEF PosOK
<1>12. q.pc = "next" =>
         IF radix_tree_chunk_size(q) > 1
         THEN Leaf(q) /\ q.node \in M /\ q.last <= q.index /\ \A k \in q.owed : k > q.index
         ELSE Resumes(q)
  <2>1. p.pc = "next" =>
          IF radix_tree_chunk_size(p) > 1
          THEN Leaf(p) /\ p.node \in N /\ p.last <= p.index /\ \A k \in p.owed : k > p.index
          ELSE Resumes(p)
    BY DEF PosOK
  <2>2. q.node \in M \/ p.node \notin N
    OBVIOUS
  <2> QED
    BY <1>4, <1>5, <1>7, <2>1, <2>2
<1>13. /\ q.pc = "deleting" => Visiting(q)
       /\ q.pc = "done" => q.owed = {}
       /\ q.job = "lookup" =>
            /\ q.pc \in {"idle", "chunk", "descend", "body", "done"}
            /\ q.pc = "chunk" => q.next = q.last + 1
            /\ q.pc = "descend" => q.i = q.last + 1
            /\ q.pc \in {"chunk", "descend"} => \A k \in q.owed : k = q.last + 1
  BY <1>6 DEF PosOK
<1> QED
  BY <1>8, <1>9, <1>10, <1>11, <1>12, <1>13 DEF PosOK

\* An iterator that no section holds is in allocated nodes only.
LEMMA NoSection ==
  ASSUME GraceInv, NEW r \in Readers, rd[r].pc = "idle", PositionOK(r)
  PROVE  PosOK(it[r], live)
<1>1. PICK S \in SUBSET retired : Stays(r, S) /\ PosOK(it[r], live \cup S)
  BY DEF PositionOK
<1>2. S = {}
  BY <1>1 DEF Stays, GraceInv, HeldByReadersOnly, Awaited
<1>3. live \cup S = live
  BY <1>2
<1> QED
  BY <1>1, <1>3

\* The fields the writer leaves to an iterator.
Owing(p, q) ==
  /\ q.pc = p.pc /\ q.job = p.job /\ q.index = p.index /\ q.next = p.next
  /\ q.node = p.node /\ q.child = p.child /\ q.offset = p.offset /\ q.i = p.i
  /\ q.last = p.last /\ q.nodes = p.nodes
  /\ q.owed = {k \in p.owed : map'[k] # NULL}

\* The place of an iterator while the writer works.
LEMMA WriterPosition ==
  ASSUME RadixInv, RadixInv', WriterFrame, NEW r \in Readers,
         it[r] \in IterRecs, JobOK(r), PositionOK(r), Owing(it[r], it'[r]),
         it[r].job \in Alone => it[r].pc = "deleting"
  PROVE  PositionOK(r)'
<1>1. PICK p, q : p = it[r] /\ q = it'[r]
  OBVIOUS
<1>2. PICK S \in SUBSET retired : Stays(r, S) /\ Still(p, S) /\ PosOK(p, live \cup S)
  BY <1>1 DEF PositionOK
<1>3. /\ live \subseteq NodeIds /\ retired \subseteq NodeIds \ live
      /\ p.owed \subseteq Keys /\ Owing(p, q)
  BY <1>1 DEF RadixInv, Types, IterRecs
<1>4. q.owed \subseteq p.owed /\ \A k \in q.owed : map'[k] # NULL
  BY <1>3 DEF Owing
<1>5. \A k \in p.owed : map[k] # NULL
  BY <1>1 DEF PositionOK
<1>6. CASE rd[r].pc = "iterate"
  <2> DEFINE T == S \cup (retired' \ retired)
  <2>1. r \in Awaited
    BY <1>6 DEF Awaited
  <2>2. \A n \in retired : /\ n \in retired' /\ grace'[n] = grace[n]
                           /\ node'[n].slots = node[n].slots
    BY DEF WriterFrame
  <2>3. \A n \in retired' \ retired :
          n \in live /\ grace'[n] = Awaited /\ node'[n].slots = node[n].slots
    BY DEF WriterFrame
  <2>4. \A n \in live : n \in live' \/ n \in retired' \ retired
    BY <1>3, <2>1 DEF WriterFrame
  <2>5. T \in SUBSET retired'
    BY <2>2
  <2>6. live \cup S \subseteq live' \cup T
    BY <2>4
  <2>7. ASSUME NEW n \in T
        PROVE  /\ n \in retired' /\ r \in grace'[n]
               /\ \A s \in Slots : node'[n].slots[s] \in live' \cup T \cup {NULL}
    <3>1. CASE n \in S
      <4>1. n \in retired /\ r \in grace[n]
            /\ \A s \in Slots : node[n].slots[s] \in live \cup S \cup {NULL}
        BY <1>2, <3>1 DEF Stays
      <4> QED
        BY <2>2, <2>6, <4>1
    <3>2. CASE n \in retired' \ retired
      <4>1. n \in live /\ n \in retired' /\ grace'[n] = Awaited
            /\ node'[n].slots = node[n].slots
        BY <2>3, <3>2
      <4>2. ASSUME NEW s \in Slots
            PROVE  node[n].slots[s] \in live \cup {NULL}
        <5>1. KeptSlot(n, s)'
          BY <4>1 DEF RadixInv, GraceInv, RetiredOK
        <5>2. SlotOK(n, s)
          BY <4>1 DEF RadixInv, TreeInv, SlotsOK
        <5>3. node[n].slots[s] = NULL \/ n[1] > 0
          BY <4>1, <5>1 DEF KeptSlot
        <5>4. n[1] \in Nat
          BY <1>3, <4>1, NodeNames
        <5> QED
          BY <5>2, <5>3, <5>4 DEF SlotOK
      <4> QED
        BY <2>1, <2>6, <4>1, <4>2
    <3> QED
      BY <3>1, <3>2
  <2>8. ASSUME NEW n \in T, NEW k \in q.owed, Under(n, k)
        PROVE  node'[n].slots[Offset(k, n[1])] # NULL
    <3>1. k \in p.owed /\ k \in Keys
      BY <1>3, <1>4
    <3>2. CASE n \in S
      <4>1. Entry(n, k) # NULL
        BY <1>2, <2>8, <3>1, <3>2 DEF Still
      <4> QED
        BY <2>2, <3>2, <4>1 DEF Entry
    <3>3. CASE n \in retired' \ retired
      <4>1. n \in live /\ node'[n].slots = node[n].slots
        BY <2>3, <3>3
      <4>2. Entry(n, k) # NULL
        BY <1>5, <2>8, <3>1, <4>1 DEF RadixInv, MapInv, Absent
      <4> QED
        BY <4>1, <4>2 DEF Entry
    <3> QED
      BY <3>2, <3>3
  <2> HIDE DEF T
  <2>9. PosOK(q, live' \cup T)
    <3>1. PICK N, M : N = live \cup S /\ M = live' \cup T
      OBVIOUS
    <3>2. PosOK(q, M)
      BY <1>2, <1>3, <1>4, <2>6, <3>1, PosKept DEF Owing
    <3> QED
      BY <3>1, <3>2
  <2> QED
    BY <1>1, <1>4, <2>5, <2>7, <2>8, <2>9 DEF PositionOK, Stays, Still, Entry
<1>7. CASE rd[r].pc = "idle"
  <2>1. PosOK(p, live)
    BY <1>1, <1>7, NoSection DEF RadixInv
  <2>2. p.pc = "idle" \/ p.pc = "deleting"
    BY <1>1, <1>7 DEF JobOK
  <2>3. p.job # "lookup"
    BY <1>1, <1>7, <2>2 DEF JobOK
  <2>4. PosOK(p, live' \cup {})
    BY <2>1, <2>2, <2>3 DEF PosOK
  <2>5. PosOK(q, live' \cup {})
    <3>1. PICK M : M = live' \cup {}
      OBVIOUS
    <3>2. PosOK(q, M)
      BY <1>3, <1>4, <2>4, <3>1, PosKept DEF Owing
    <3> QED
      BY <3>1, <3>2
  <2>6. {} \in SUBSET retired'
    OBVIOUS
  <2> QED
    BY <1>1, <1>4, <2>5, <2>6 DEF PositionOK, Stays, Still
<1> QED
  BY <1>6, <1>7 DEF JobOK

\* The leaf under radix_tree_iter_delete() is a leaf.
LEMMA DeletingLeaf ==
  ASSUME NEW r \in Readers, PositionOK(r), it[r].pc = "deleting", it[r].node \in NodeIds
  PROVE  it[r].node[1] = 0
<1>1. PICK N : PosOK(it[r], N)
  BY DEF PositionOK
<1> QED
  BY <1>1, Kinds DEF PosOK, Visiting, Leaf

\* What delete_node() and radix_tree_shrink() do on behalf of
\* radix_tree_iter_delete().
LEMMA DeletingKept ==
  ASSUME RadixInv, NEW r \in Readers, it[r] \in IterRecs, JobOK(r), PositionOK(r),
         AloneOK(r), it[r].pc = "deleting", WriterStep, Owing(it[r], it'[r])
  PROVE  AloneOK(r)'
<1>1. PICK p, q : p = it[r] /\ q = it'[r]
  OBVIOUS
<1>2. /\ Owing(p, q) /\ p.pc = "deleting" /\ p.job = "delete" /\ p \in IterRecs
      /\ p.node # NULL => p.node \in p.nodes
      /\ wr.pc \in {"idle", "delete", "unlink", "shrink"}
      /\ wr.pc = "delete" => /\ live = p.nodes /\ wr.node = p.node
                             /\ wr.index = p.index /\ wr.item = NULL
      /\ wr.pc = "unlink" => Gone(p) \/ (live = p.nodes /\ wr.node = p.node)
      /\ wr.pc = "shrink" => Gone(p) \/ (live = p.nodes /\ rnode = p.node)
      /\ \A k \in Keys : map[k] # NULL =>
           k \in p.owed \/ (k = p.index /\ wr.pc = "delete")
  BY <1>1 DEF JobOK, AloneOK
<1>3. /\ q.pc = "deleting" /\ q.job = "delete" /\ q.node = p.node /\ q.nodes = p.nodes
      /\ q.index = p.index /\ q.owed = {k \in p.owed : map'[k] # NULL}
  BY <1>2 DEF Owing
<1>4. p.node # NULL => p.node \in NodeIds /\ p.node[1] = 0
  <2>1. p.node # NULL => p.node \in NodeIds
    BY <1>2 DEF IterRecs
  <2> QED
    BY <1>1, <1>2, <2>1, DeletingLeaf
<1>5. live' \subseteq live /\ Gone(p) => Gone(q)'
  BY <1>3 DEF Gone
<1> SUFFICES /\ \A k \in Keys : map'[k] # NULL => map[k] # NULL /\ (k = p.index => wr.pc # "delete")
             /\ wr'.pc \in {"idle", "unlink", "shrink"}
             /\ wr'.pc = "unlink" => Gone(q)' \/ (live' = p.nodes /\ wr'.node = p.node)
             /\ wr'.pc = "shrink" => Gone(q)' \/ (live' = p.nodes /\ rnode' = p.node)
             /\ wr'.pc = "idle" => Gone(q)' \/ live' = p.nodes
  BY <1>1, <1>2, <1>3 DEF AloneOK, Gone
<1>6. CASE DeleteEntry
  <2>1. /\ wr.pc = "delete" /\ wr.item = NULL /\ live' = live /\ live = p.nodes
        /\ Remember(p.index, NULL) /\ p.index \in Keys
        /\ wr' = IF p.node = NULL THEN WriterIdle
                 ELSE [WriterIdle EXCEPT !.pc = "unlink", !.node = p.node]
    BY <1>2, <1>6 DEF DeleteEntry, RadixInv, WriterInv, WrFound
  <2>2. map'[p.index] = NULL /\ \A k \in Keys : k # p.index => map'[k] = map[k]
    BY <2>1 DEF RadixInv, Types, Remember
  <2>3. wr'.pc = "idle" \/ (wr'.pc = "unlink" /\ wr'.node = p.node)
    BY <2>1 DEF WriterIdle
  <2> QED
    BY <2>1, <2>2, <2>3
<1>7. CASE Unlink
  <2>1. PICK n : n = wr.node
    OBVIOUS
  <2>2. wr.pc = "unlink" /\ map' = map /\ n \in live /\ n \in NodeIds
        /\ node \in [NodeIds -> NodeRecs]
    BY <1>7, <2>1 DEF Unlink, RadixInv, Types, WriterInv, WrUnlink
  <2>3. CASE node[n].count # 0
    <3>1. wr' = AfterUnlink(n) /\ UNCHANGED <<rnode, live>>
      BY <1>7, <2>1, <2>3 DEF Unlink
    <3>2. wr'.pc = "idle" \/ (wr'.pc = "shrink" /\ n = rnode)
      BY <3>1 DEF AfterUnlink, WriterIdle
    <3> QED
      BY <1>2, <1>5, <2>1, <2>2, <3>1, <3>2
  <2>4. CASE node[n].count = 0
    <3>1. live' = live \ {n}
      BY <1>7, <2>1, <2>4 DEF Unlink, Retire
    <3>2. wr'.pc \in {"idle", "unlink"}
      <4>1. wr' = WriterIdle \/ \E m : wr' = [wr EXCEPT !.node = m]
        BY <1>7, <2>1, <2>4 DEF Unlink
      <4>2. wr \in WriterRecs
        BY DEF RadixInv, Types
      <4> QED
        BY <2>2, <4>1, <4>2, Idle DEF WriterRecs
    <3>3. Gone(q)'
      <4>1. CASE Gone(p)
        BY <1>5, <3>1, <4>1
      <4>2. CASE p.node = n
        <5>1. \A t \in Slots : node[n].slots[t] = NULL
          <6>1. node[n].count = Cardinality(Used(node[n].slots))
            BY <2>2, CountUsed DEF RadixInv, TreeInv
          <6>2. node[n].slots \in [Slots -> Entries]
            BY <2>2 DEF NodeRecs
          <6> QED
            BY <2>4, <6>1, <6>2, CountSmall
        <5>2. ASSUME NEW k \in q.owed
              PROVE  ~Under(n, k)
          <6>1. k \in Keys /\ map[k] # NULL
            BY <1>2, <1>3, <2>2 DEF IterRecs
          <6>2. Offset(k, n[1]) \in Slots
            BY <2>2, <6>1, OffsetStep, NodeNames, Kinds
          <6>3. Entry(n, k) = NULL
            BY <5>1, <6>2 DEF Entry
          <6> QED
            BY <2>2, <6>1, <6>3 DEF RadixInv, MapInv, Absent
        <5> QED
          BY <1>3, <2>2, <3>1, <4>2, <5>2 DEF Gone
      <4> QED
        BY <1>2, <2>1, <2>2, <4>1, <4>2
    <3> QED
      BY <2>2, <3>2, <3>3
  <2> QED
    BY <2>3, <2>4
<1>8. CASE Shrink
  <2>1. wr.pc = "shrink" /\ map' = map
    BY <1>8 DEF Shrink
  <2>2. CASE ~CanShrink
    <3>1. wr' = WriterIdle /\ live' = live
      BY <1>8, <2>2 DEF Shrink, Return
    <3> QED
      BY <1>2, <1>5, <2>1, <3>1, Idle
  <2>3. CASE CanShrink
    <3>1. live' = live \ {rnode} /\ wr' = wr
      BY <1>8, <2>3 DEF Shrink, Retire
    <3>2. rnode # p.node
      <4> SUFFICES ASSUME rnode = p.node PROVE FALSE
        OBVIOUS
      <4>1. rnode \in NodeIds /\ node[rnode].shift # 0
        BY <2>3 DEF CanShrink, IsNode
      <4>2. rnode[1] = 0
        BY <1>4, <4>1, Kinds
      <4> QED
        BY <4>1, <4>2 DEF RadixInv, TreeInv, RootOK, Shaped
    <3> QED
      BY <1>2, <1>5, <2>1, <3>1, <3>2
  <2> QED
    BY <2>2, <2>3
<1>9. CASE Extend \/ Create \/ InsertEntry \/ WriterDescend \/ ReplaceSlot
  BY <1>2, <1>9 DEF Extend, Create, InsertEntry, WriterDescend, ReplaceSlot
<1> QED
  BY <1>6, <1>7, <1>8, <1>9 DEF WriterStep

\* A loop that changes nothing owes AloneOK nothing.
LEMMA NotAlone ==
  ASSUME NEW r, it'[r].job \notin Alone, it'[r].pc # "deleting"
  PROVE  AloneOK(r)'
BY DEF AloneOK, Alone

\* What the tree has after a step that kept the whole invariant.
LEMMA TreeOKNext ==
  ASSUME RadixInv', KeysOnly'
  PROVE  TreeOK'
BY DEF TreeOK, RadixInv, TreeInv, StructInv

\* The writer works only while it has the tree, or for the loop that has.
LEMMA WriterTurnStep ==
  ASSUME IterInv, DeleteAbsent = FALSE, ~aborted, WriterTurn
  PROVE  IterInv'
<1>1. ASSUME WriterStep
      PROVE  wr.pc # "idle"
  BY <1>1 DEF WriterStep, Extend, Create, InsertEntry, WriterDescend, ReplaceSlot,
     DeleteEntry, Unlink, Shrink
<1>2. \A r \in Readers : it[r] \in IterRecs /\ JobOK(r) /\ PositionOK(r) /\ AloneOK(r)
  BY DEF IterInv, IterTypes
<1>3. ASSUME NEW r \in Readers, it[r].job \in Alone
      PROVE  it[r].pc = "deleting" /\ WriterStep
  <2>1. Exclusive
    BY <1>3 DEF Exclusive, Alone
  <2>2. WriterStep
    BY <2>1 DEF WriterTurn
  <2> QED
    BY <1>1, <1>2, <1>3, <2>2 DEF JobOK
<1>4. ~Killing
  BY <1>2, <1>3 DEF Killing, JobOK, Alone
<1>5. RadixInv /\ KeysOnly
  BY <1>4 DEF IterInv, TreeOK, StructInv
<1>6. RadixInv'
  <2>1. Next
    BY DEF WriterTurn, Next
  <2> QED
    BY <1>5, <2>1, NextInv
<1>7. WriterFrame
  BY <1>5, WriterFrames DEF WriterTurn
<1>8. KeysOnly' /\ \A r \in Readers : rd'[r].pc = rd[r].pc
  BY <1>7 DEF WriterFrame
<1>9. ASSUME NEW r \in Readers
      PROVE  Owing(it[r], it'[r]) /\ it'[r] \in IterRecs
  <2>1. PICK p, q, T : p = it[r] /\ q = it'[r] /\ T = {k \in p.owed : map'[k] # NULL}
    OBVIOUS
  <2>2. p \in IterRecs /\ q = [p EXCEPT !.owed = T]
    BY <1>2, <2>1 DEF WriterTurn
  <2>3. T \in SUBSET Keys
    BY <2>1, <2>2 DEF IterRecs
  <2>4. q \in IterRecs /\ q.owed = T
    BY <2>2, <2>3 DEF IterRecs
  <2>5. /\ q.pc = p.pc /\ q.job = p.job /\ q.index = p.index /\ q.next = p.next
        /\ q.node = p.node /\ q.child = p.child /\ q.offset = p.offset /\ q.i = p.i
        /\ q.last = p.last /\ q.nodes = p.nodes
    BY <2>2 DEF IterRecs
  <2> QED
    BY <2>1, <2>4, <2>5 DEF Owing
<1>10. IterTypes'
  <2>1. it' = [r \in Readers |-> it'[r]]
    BY DEF WriterTurn
  <2>2. aborted' = aborted /\ aborted \in BOOLEAN
    BY DEF WriterTurn, IterInv, IterTypes
  <2>3. it' \in [Readers -> IterRecs]
    BY <1>9, <2>1
  <2> QED
    BY <2>2, <2>3 DEF IterTypes
<1>11. TreeOK'
  BY <1>6, <1>8, TreeOKNext
<1>12. \A r \in Readers : /\ it'[r].pc = it[r].pc /\ it'[r].job = it[r].job
                           /\ it'[r].owed \subseteq it[r].owed
  BY <1>9 DEF Owing
<1>13. ASSUME NEW r \in Readers
       PROVE  JobOK(r)'
  <2>1. JobOK(r)
    BY <1>2
  <2>2. it[r].job \in Alone => it[r].pc = "deleting"
    BY <1>3
  <2> QED
    BY <1>8, <1>12, <2>1, <2>2 DEF JobOK
<1>14. ASSUME NEW r \in Readers
       PROVE  PositionOK(r)'
  BY <1>2, <1>3, <1>5, <1>6, <1>7, <1>9, WriterPosition
<1>15. ASSUME NEW r \in Readers
       PROVE  AloneOK(r)'
  <2>1. CASE it[r].job \in Alone
    BY <1>2, <1>3, <1>5, <1>9, <2>1, DeletingKept
  <2>2. CASE it[r].job \notin Alone
    <3>1. it[r].pc # "deleting"
      BY <1>2, <2>2 DEF JobOK, Alone
    <3> QED
      BY <1>12, <2>2, <3>1, NotAlone
  <2> QED
    BY <2>1, <2>2
<1> QED
  BY <1>10, <1>11, <1>13, <1>14, <1>15 DEF IterInv
----------------------------------------------------------------------------
(* The steps of the iterators.                                             *)

\* Between two loops there is nothing in the iterator.
LEMMA IdleIterator ==
  /\ IterIdle \in IterRecs /\ IterIdle.pc = "idle" /\ IterIdle.job = "each"
  /\ IterIdle.owed = {}
  /\ \A N : PosOK(IterIdle, N)
<1>1. 0 \in 0 .. ULONG - 1 /\ 0 \in Slots
  BY Kinds
<1>2. PICK q : q = IterIdle
  OBVIOUS
<1>3. q \in IterRecs /\ q.pc = "idle" /\ q.job = "each" /\ q.owed = {}
  BY <1>1, <1>2 DEF IterIdle, IterRecs
<1>4. \A N : PosOK(q, N)
  BY <1>3 DEF PosOK
<1> QED
  BY <1>2, <1>3, <1>4

\* An iterator that runs is alone, or the others leave the tree as it is.
LEMMA Apart ==
  ASSUME IterInv, NEW r \in Readers, NEW s \in Readers, s # r, it[r].pc # "idle"
  PROVE  it[s].job \notin Alone
<1>1. JobOK(r) /\ JobOK(s)
  BY DEF IterInv
<1> QED
  BY <1>1 DEF JobOK

\* Nothing waits for a grace period while no section is open.
LEMMA NoWaiting ==
  ASSUME HeldByReadersOnly, \A s \in Readers : rd[s].pc = "idle"
  PROVE  retired = {}
BY DEF HeldByReadersOnly, Awaited

\* The end of a section nobody is in frees nothing.
LEMMA NoSectionLeft ==
  ASSUME Types, HeldByReadersOnly, NEW r \in Readers, rd[r].pc = "idle"
  PROVE  LeaveSection(r) <=> UNCHANGED <<grace, node>>
<1>1. \A n \in retired : grace[n] \ {r} = grace[n] /\ grace[n] # {}
  BY DEF HeldByReadersOnly, Awaited
<1>2. \A n \in retired : Released(r)[n] = grace[n]
  BY <1>1 DEF Released
<1>3. {n \in retired : Released(r)[n] = {}} = {}
  BY <1>1, <1>2
<1>4. [n \in retired \ {} |-> Released(r)[n]] = grace
  <2>1. grace = [n \in retired |-> grace[n]]
    BY DEF Types
  <2> QED
    BY <1>2, <2>1
<1>5. Cleared(node, {}) = node
  BY DEF Cleared, Types
<1> QED
  BY <1>3, <1>4, <1>5 DEF LeaveSection

\* A step that leaves the tree as it is keeps it.
LEMMA StructSame ==
  ASSUME StructInv, UNCHANGED <<rnode, node, live, grace, smashed, map, failed>>,
         wr' \in WriterRecs, rd' \in [Readers -> ReaderRecs], Awaited \subseteq Awaited'
  PROVE  StructInv'
<1>1. retired' = retired
  BY DEF retired
<1>2. Types'
  BY <1>1 DEF StructInv, Types
<1>3. SlotsOK' /\ RootOK' /\ Shaped' /\ Unique'
  BY <1>1 DEF StructInv, SlotsOK, SlotOK, RootOK, Shaped, Unique
<1>4. MapInv'
  BY DEF StructInv, MapInv, LeafExact, Absent, RootExact, Entry
<1>5. RetiredOK'
  BY <1>1 DEF StructInv, GraceInv, RetiredOK, KeptSlot
<1>6. HeldByReadersOnly'
  BY <1>1 DEF StructInv, GraceInv, HeldByReadersOnly
<1>7. KeysOnly'
  BY DEF StructInv, KeysOnly
<1> QED
  BY <1>2, <1>3, <1>4, <1>5, <1>6, <1>7 DEF StructInv, GraceInv

\* Iterator r takes a step to q: what is left to show.
LEMMA OwnStep ==
  ASSUME IterInv, NEW r \in Readers, NEW q \in IterRecs, it' = [it EXCEPT ![r] = q],
         \A s \in Readers \ {r} :
           it[s].job \notin Alone /\ rd'[s].pc = rd[s].pc /\ PositionOK(s)',
         aborted' \in BOOLEAN, TreeOK', JobOK(r)', PositionOK(r)', AloneOK(r)'
  PROVE  IterInv'
<1>1. it \in [Readers -> IterRecs]
  BY DEF IterInv, IterTypes
<1>2. IterTypes'
  BY <1>1 DEF IterTypes
<1>3. ASSUME NEW s \in Readers, s # r
      PROVE  JobOK(s)' /\ PositionOK(s)' /\ AloneOK(s)'
  <2>1. JobOK(s) /\ it'[s] = it[s] /\ it[s].job \notin Alone /\ rd'[s].pc = rd[s].pc
    BY <1>1, <1>3 DEF IterInv
  <2>2. it[s].pc # "deleting"
    BY <2>1 DEF JobOK, Alone
  <2>3. JobOK(s)'
    BY <2>1, <2>2 DEF JobOK
  <2> QED
    BY <1>3, <2>1, <2>2, <2>3, NotAlone
<1> QED
  BY <1>2, <1>3 DEF IterInv

\* The others stay where they are, in a tree that stays for them.
LEMMA OthersStay ==
  ASSUME IterInv, NEW r \in Readers, NEW s \in Readers \ {r}, it'[s] = it[s],
         live' = live, map' = map,
         \A n \in retired : s \in grace[n] =>
           n \in retired' /\ s \in grace'[n] /\ node'[n] = node[n]
  PROVE  PositionOK(s)'
<1>1. PICK p : p = it[s]
  OBVIOUS
<1>2. PICK S \in SUBSET retired : Stays(s, S) /\ Still(p, S) /\ PosOK(p, live \cup S)
  BY <1>1 DEF IterInv, PositionOK
<1>3. \A k \in p.owed : map[k] # NULL
  BY <1>1 DEF IterInv, PositionOK
<1>4. \A n \in S : n \in retired' /\ s \in grace'[n] /\ node'[n] = node[n]
  BY <1>2 DEF Stays
<1>5. S \in SUBSET retired'
  BY <1>4
<1>6. \A n \in S : \A t \in Slots : node'[n].slots[t] \in live' \cup S \cup {NULL}
  BY <1>2, <1>4 DEF Stays
<1>7. \A n \in S : \A k \in p.owed : Under(n, k) => node'[n].slots[Offset(k, n[1])] # NULL
  BY <1>2, <1>4 DEF Still, Entry
<1>8. PosOK(p, live' \cup S)
  BY <1>2
<1> QED
  BY <1>1, <1>3, <1>4, <1>5, <1>6, <1>7, <1>8 DEF PositionOK, Stays, Still, Entry

\* A step of iterator r, from it[r] to q, that only loads.
LEMMA QuietStep ==
  ASSUME IterInv, DeleteAbsent = FALSE, NEW r \in Readers, NEW q \in IterRecs,
         it' = [it EXCEPT ![r] = q], TreeUnchanged, UNCHANGED <<grace, wr, rd, aborted>>,
         it[r].pc # "idle", q.pc \notin {"idle", "deleting"}, q.job = it[r].job,
         q.job \in Alone => wr.pc = "idle",
         \A k \in q.owed : map[k] # NULL,
         NEW S \in SUBSET retired, Stays(r, S), Still(q, S), PosOK(q, live \cup S),
         q.job = "delete" => \A k \in Keys :
           map[k] # NULL => k \in q.owed \/ (k = q.index /\ q.pc = "body"),
         q.pc = "body" /\ q.job \in Alone =>
           map[q.index] # NULL /\ (q.node = NULL => rnode \notin NodeIds)
  PROVE  IterInv'
<1>1. UNCHANGED <<rnode, node, live, smashed, map, failed, grace, wr, rd, aborted>>
  BY DEF TreeUnchanged
<1>2. it \in [Readers -> IterRecs] /\ aborted \in BOOLEAN /\ it'[r] = q
  BY DEF IterInv, IterTypes
<1>3. retired' = retired /\ Awaited' = Awaited
  BY <1>1 DEF retired, Awaited
<1>4. StructInv'
  <2>1. StructInv /\ wr' \in WriterRecs /\ rd' \in [Readers -> ReaderRecs]
    BY <1>1 DEF IterInv, TreeOK, StructInv, Types
  <2> QED
    BY <1>1, <1>3, <2>1, StructSame
<1>5. TreeOK'
  <2>1. Killing' <=> Killing
    BY <1>2 DEF Killing
  <2>2. RadixInv => RadixInv'
    BY <1>1, NextInv DEF vars
  <2> QED
    BY <1>1, <1>4, <2>1, <2>2 DEF IterInv, TreeOK
<1>6. JobOK(r)'
  <2>1. JobOK(r)
    BY DEF IterInv
  <2>2. \A s \in Readers : s # r => it'[s] = it[s]
    BY <1>2
  <2> QED
    BY <1>1, <1>2, <2>1, <2>2 DEF JobOK
<1>7. PositionOK(r)'
  <2>1. /\ S \in SUBSET retired' /\ PosOK(q, live' \cup S)
    BY <1>1, <1>3
  <2>2. \A n \in S : /\ n \in retired' /\ r \in grace'[n]
                     /\ \A t \in Slots : node'[n].slots[t] \in live' \cup S \cup {NULL}
    BY <1>1, <1>3 DEF Stays
  <2>3. \A n \in S : \A k \in q.owed : Under(n, k) => node'[n].slots[Offset(k, n[1])] # NULL
    BY <1>1 DEF Still, Entry
  <2>4. \A k \in q.owed : map'[k] # NULL
    BY <1>1
  <2> QED
    BY <1>2, <2>1, <2>2, <2>3, <2>4 DEF PositionOK, Stays, Still, Entry
<1>8. AloneOK(r)'
  BY <1>1, <1>2 DEF AloneOK
<1>9. ASSUME NEW s \in Readers \ {r}
      PROVE  it[s].job \notin Alone /\ rd'[s].pc = rd[s].pc /\ PositionOK(s)'
  <2>1. it[s].job \notin Alone
    BY Apart
  <2>2. it'[s] = it[s]
    BY <1>2
  <2>3. PositionOK(s)'
    BY <1>1, <1>3, <2>2, OthersStay
  <2> QED
    BY <1>1, <2>1, <2>3
<1>10. aborted' \in BOOLEAN
  BY <1>1, <1>2
<1> QED
  BY <1>5, <1>6, <1>7, <1>8, <1>9, <1>10, OwnStep

\* What a running iterator is in.
LEMMA Running ==
  ASSUME IterInv, NEW r \in Readers
  PROVE  /\ it[r] \in IterRecs /\ StructInv /\ JobOK(r) /\ AloneOK(r)
         /\ \A k \in it[r].owed : map[k] # NULL
         /\ \E S \in SUBSET retired :
              /\ Stays(r, S) /\ Still(it[r], S) /\ PosOK(it[r], live \cup S)
              /\ Ground(live \cup S, it[r].owed)
<1>1. /\ it[r] \in IterRecs /\ StructInv /\ JobOK(r) /\ AloneOK(r)
      /\ \A k \in it[r].owed : map[k] # NULL
  BY DEF IterInv, IterTypes, TreeOK, PositionOK
<1>2. PICK S \in SUBSET retired :
        Stays(r, S) /\ Still(it[r], S) /\ PosOK(it[r], live \cup S)
  BY DEF IterInv, PositionOK
<1>3. Ground(live \cup S, it[r].owed)
  <2>1. PICK p \in IterRecs : p = it[r]
    BY <1>1
  <2>2. Still(p, S) /\ \A k \in p.owed : map[k] # NULL
    BY <1>1, <1>2, <2>1
  <2>3. Ground(live \cup S, p.owed)
    BY <1>1, <1>2, <2>2, GroundHolds
  <2> QED
    BY <2>1, <2>3
<1> QED
  BY <1>1, <1>2, <1>3

\* radix_tree_next_slot() and radix_tree_next_chunk().
LEMMA IterSearchStep ==
  ASSUME IterInv, DeleteAbsent = FALSE, NEW r \in Readers, IterSearch(r)
  PROVE  IterInv'
<1>1. /\ it[r] \in IterRecs /\ JobOK(r) /\ AloneOK(r)
      /\ \A k \in it[r].owed : map[k] # NULL
  BY Running
<1>2. PICK S \in SUBSET retired :
        /\ Stays(r, S) /\ Still(it[r], S) /\ PosOK(it[r], live \cup S)
        /\ Ground(live \cup S, it[r].owed)
  BY Running
<1>3. PICK p \in IterRecs : p = it[r]
  BY <1>1
<1>4. PICK N : N = live \cup S
  OBVIOUS
<1>5. p.pc \in SearchPcs /\ TreeUnchanged /\ UNCHANGED <<grace, wr, rd, aborted>>
  BY <1>3 DEF IterSearch, SearchPcs
<1>6. PICK q : q = Searched(p)
  OBVIOUS
<1>7. Stepped(p, q, N)
  <2>1. Ground(N, p.owed) /\ PosOK(p, N)
    BY <1>2, <1>3, <1>4
  <2> QED
    BY <1>5, <1>6, <2>1, SearchStep
<1>8. it' = [it EXCEPT ![r] = q]
  <2>1. it \in [Readers -> IterRecs]
    BY DEF IterInv, IterTypes
  <2> QED
    BY <1>3, <1>6, <2>1 DEF IterSearch
<1>9. /\ q \in IterRecs /\ q.job = p.job /\ q.pc \in SearchPcs \cup {"body", "done"}
      /\ PosOK(q, N) /\ q.owed \subseteq p.owed
  BY <1>7 DEF Stepped
<1>10. q.pc \notin {"idle", "deleting"} /\ p.pc # "idle" /\ p.pc \notin {"body", "deleting"}
  BY <1>5, <1>9 DEF SearchPcs
<1>11. q.job \in Alone => wr.pc = "idle"
  BY <1>1, <1>3, <1>9, <1>10 DEF JobOK
<1>12. Still(q, S)
  BY <1>2, <1>3, <1>9 DEF Still
<1>13. q.job = "delete" => \A k \in Keys :
         map[k] # NULL => k \in q.owed \/ (k = q.index /\ q.pc = "body")
  <2>1. q.job = "delete" => \A k \in Keys : map[k] # NULL => k \in p.owed
    BY <1>1, <1>3, <1>9, <1>10 DEF AloneOK
  <2>2. \A k \in p.owed : k \in q.owed \/ (k = q.index /\ q.pc = "body")
    BY <1>7 DEF Stepped
  <2> QED
    BY <2>1, <2>2
<1>14. q.pc = "body" /\ q.job \in Alone =>
         map[q.index] # NULL /\ (q.node = NULL => rnode \notin NodeIds)
  BY <1>7 DEF Stepped
<1>15. \A k \in q.owed : map[k] # NULL
  BY <1>1, <1>3, <1>9
<1>16. PosOK(q, live \cup S)
  BY <1>4, <1>9
<1> QED
  BY <1>2, <1>3, <1>5, <1>8, <1>9, <1>10, <1>11, <1>12, <1>13, <1>14, <1>15, <1>16, QuietStep

\* After the item in the root, radix_tree_next_chunk() goes on at index 1.
LEMMA RootNext ==
  ASSUME NEW q \in IterRecs, NEW N, q.pc = "next", q.job # "lookup",
         q.index = 0, q.next = 1, q.last = 0, \A k \in q.owed : k > 0
  PROVE  PosOK(q, N)
<1>1. q.owed \subseteq 0 .. ULONG - 1 /\ q.next \in 0 .. ULONG - 1 /\ ULONG \in Nat
  BY Kinds DEF IterRecs
<1>2. (1 - 0) % ULONG = 1
  BY <1>1
<1>3. ~(radix_tree_chunk_size(q) > 1)
  BY <1>2 DEF radix_tree_chunk_size
<1>4. Resumes(q)
  BY <1>1 DEF Resumes, Ahead, Rising
<1> QED
  BY <1>3, <1>4 DEF PosOK

\* Where the chunk has no slots left, radix_tree_next_chunk() goes on at
\* next_index.
LEMMA AgainNext ==
  ASSUME NEW q \in IterRecs, NEW N, q.pc = "next", q.job # "lookup",
         q.index = q.next, Ahead(q, q.next), Rising(q, q.next)
  PROVE  PosOK(q, N)
<1>1. q.next \in 0 .. ULONG - 1 /\ ULONG \in Nat \ {0}
  BY Kinds DEF IterRecs
<1>2. (q.next - q.next) % ULONG = 0
  BY <1>1
<1>3. ~(radix_tree_chunk_size(q) > 1)
  BY <1>2 DEF radix_tree_chunk_size
<1>4. Resumes(q)
  BY DEF Resumes
<1> QED
  BY <1>3, <1>4 DEF PosOK

\* The loop's body looks at the slot and goes on.
LEMMA IterLookStep ==
  ASSUME IterInv, DeleteAbsent = FALSE, NEW r \in Readers, IterLook(r)
  PROVE  IterInv'
<1>1. /\ it[r] \in IterRecs /\ JobOK(r) /\ AloneOK(r)
      /\ \A k \in it[r].owed : map[k] # NULL
  BY Running
<1>2. PICK S \in SUBSET retired :
        Stays(r, S) /\ Still(it[r], S) /\ PosOK(it[r], live \cup S)
  BY Running
<1>3. PICK p \in IterRecs : p = it[r]
  BY <1>1
<1>4. p.pc = "body" /\ p.job = "each" /\ TreeUnchanged /\ UNCHANGED <<grace, wr, rd, aborted>>
  BY <1>3 DEF IterLook
<1>5. PICK q : q = [p EXCEPT !.pc = "next"]
  OBVIOUS
<1>6. /\ q \in IterRecs /\ q.pc = "next" /\ q.job = "each" /\ q.index = p.index
      /\ q.next = p.next /\ q.node = p.node /\ q.offset = p.offset /\ q.last = p.last
      /\ q.owed = p.owed
  BY <1>4, <1>5 DEF IterRecs
<1>7. it' = [it EXCEPT ![r] = q]
  <2>1. it \in [Readers -> IterRecs]
    BY DEF IterInv, IterTypes
  <2> QED
    BY <1>3, <1>5, <2>1 DEF IterLook
<1>8. PICK N : N = live \cup S
  OBVIOUS
<1>9. Visiting(p) /\ (p.node # NULL => p.node \in N)
  BY <1>2, <1>3, <1>4, <1>8 DEF PosOK
<1>10. PosOK(q, N)
  <2>1. CASE p.node = NULL
    BY <1>6, <1>9, <2>1, RootNext DEF Visiting
  <2>2. CASE p.node # NULL
    <3>1. Leaf(q) /\ q.node \in N /\ q.last = q.index /\ \A k \in q.owed : k > q.index
      BY <1>6, <1>9, <2>2 DEF Visiting, Leaf
    <3>2. q.last <= q.index
      BY <1>6, <3>1, Kinds DEF IterRecs
    <3> QED
      BY <1>6, <3>1, <3>2, LeafNext
  <2> QED
    BY <2>1, <2>2
<1>11. Still(q, S) /\ PosOK(q, live \cup S)
  BY <1>2, <1>3, <1>6, <1>8, <1>10 DEF Still
<1>12. q.job \notin Alone
  BY <1>6 DEF Alone
<1> QED
  BY <1>1, <1>2, <1>3, <1>4, <1>6, <1>7, <1>11, <1>12, QuietStep

\* radix_tree_iter_retry(): the index is visited again.
LEMMA IterRetryStep ==
  ASSUME IterInv, DeleteAbsent = FALSE, NEW r \in Readers, IterRetry(r)
  PROVE  IterInv'
<1>1. /\ it[r] \in IterRecs /\ JobOK(r) /\ AloneOK(r)
      /\ \A k \in it[r].owed : map[k] # NULL
  BY Running
<1>2. PICK S \in SUBSET retired :
        Stays(r, S) /\ Still(it[r], S) /\ PosOK(it[r], live \cup S)
  BY Running
<1>3. PICK p \in IterRecs : p = it[r]
  BY <1>1
<1>4. p.pc = "body" /\ p.job = "each" /\ TreeUnchanged /\ UNCHANGED <<grace, wr, rd, aborted>>
  BY <1>3 DEF IterRetry
<1>5. PICK T : T = p.owed \cup ({p.index} \cap Present)
  OBVIOUS
<1>6. PICK q : q = [p EXCEPT !.next = p.index, !.pc = "next", !.last = p.index - 1, !.owed = T]
  OBVIOUS
<1>7. /\ p.index \in 0 .. ULONG - 1 /\ p.index - 1 \in Int /\ T \in SUBSET Keys
      /\ \A k \in T : map[k] # NULL
  BY <1>1, <1>3, <1>5, Kinds DEF IterRecs, Present
<1>8. /\ q \in IterRecs /\ q.pc = "next" /\ q.job = "each" /\ q.index = p.index
      /\ q.next = p.index /\ q.last = p.index - 1 /\ q.owed = T
  BY <1>4, <1>6, <1>7 DEF IterRecs
<1>9. it' = [it EXCEPT ![r] = q]
  <2>1. it \in [Readers -> IterRecs]
    BY DEF IterInv, IterTypes
  <2>2. it' = [it EXCEPT ![r].next = p.index, ![r].pc = "next", ![r].last = p.index - 1,
                         ![r].owed = @ \cup ({p.index} \cap Present)]
    BY <1>3 DEF IterRetry
  <2>3. it' = [it EXCEPT ![r] = [[[[it[r] EXCEPT !.next = p.index] EXCEPT !.pc = "next"]
                                   EXCEPT !.last = p.index - 1]
                                   EXCEPT !.owed = @ \cup ({p.index} \cap Present)]]
    BY <2>1, <2>2
  <2>4. q = [[[[p EXCEPT !.next = p.index] EXCEPT !.pc = "next"]
                 EXCEPT !.last = p.index - 1]
                 EXCEPT !.owed = @ \cup ({p.index} \cap Present)]
    BY <1>5, <1>6 DEF IterRecs
  <2> QED
    BY <1>3, <2>3, <2>4
<1>10. \A k \in p.owed : k > p.index
  BY <1>2, <1>3, <1>4 DEF PosOK, Visiting
<1>11. Ahead(q, q.next) /\ Rising(q, q.next)
  <2>1. \A k \in T : k >= p.index
    <3>1. ASSUME NEW k \in T
          PROVE  k \in 0 .. ULONG - 1 /\ (k > p.index \/ k = p.index)
      BY <1>5, <1>7, <1>10, Kinds
    <3> QED
      BY <1>7, <3>1, RadixTreeAssumption
  <2>2. p.index > p.index - 1
    BY <1>7, RadixTreeAssumption
  <2> QED
    BY <1>8, <2>1, <2>2 DEF Ahead, Rising
<1>12. PosOK(q, live \cup {})
  BY <1>8, <1>11, AgainNext
<1>13. {} \in SUBSET retired /\ Stays(r, {}) /\ Still(q, {})
  BY DEF Stays, Still
<1>14. q.job \notin Alone
  BY <1>8 DEF Alone
<1> QED
  BY <1>3, <1>4, <1>7, <1>8, <1>9, <1>12, <1>13, <1>14, QuietStep

\* radix_tree_iter_delete() returns: the iterator goes on in its leaf, or
\* behind it if the leaf was freed.
LEMMA IterDeletedStep ==
  ASSUME IterInv, DeleteAbsent = FALSE, NEW r \in Readers, IterDeleted(r)
  PROVE  IterInv'
<1>1. /\ it[r] \in IterRecs /\ JobOK(r) /\ AloneOK(r)
      /\ \A k \in it[r].owed : map[k] # NULL
  BY Running
<1>2. PICK S \in SUBSET retired :
        Stays(r, S) /\ Still(it[r], S) /\ PosOK(it[r], live \cup S)
  BY Running
<1>3. PICK p \in IterRecs : p = it[r]
  BY <1>1
<1>4. /\ p.pc = "deleting" /\ wr.pc = "idle" /\ p.job = "delete"
      /\ TreeUnchanged /\ UNCHANGED <<grace, wr, rd, aborted>>
  BY <1>1, <1>3 DEF IterDeleted, JobOK
<1>5. /\ p.node # NULL => p.node \in p.nodes
      /\ Gone(p) \/ live = p.nodes
      /\ \A k \in Keys : map[k] # NULL => k \in p.owed
  BY <1>1, <1>3, <1>4 DEF AloneOK
<1>6. Visiting(p)
  BY <1>2, <1>3, <1>4 DEF PosOK
<1>7. PICK j : j = IF live # p.nodes THEN p.next ELSE p.index
  OBVIOUS
<1>8. PICK q : q = [p EXCEPT !.index = j, !.pc = "next", !.nodes = {}]
  OBVIOUS
<1>9. /\ q \in IterRecs /\ q.pc = "next" /\ q.job = "delete" /\ q.index = j
      /\ q.next = p.next /\ q.node = p.node /\ q.offset = p.offset /\ q.last = p.last
      /\ q.owed = p.owed
  <2>1. j \in 0 .. ULONG - 1 /\ {} \in SUBSET NodeIds
    BY <1>7 DEF IterRecs
  <2> QED
    BY <1>4, <1>8, <2>1 DEF IterRecs
<1>10. it' = [it EXCEPT ![r] = q]
  <2>1. it \in [Readers -> IterRecs]
    BY DEF IterInv, IterTypes
  <2>2. PICK x : x = AfterDelete(p)
    OBVIOUS
  <2>3. q = [x EXCEPT !.pc = "next", !.nodes = {}]
    <3>1. CASE live # p.nodes
      <4>1. x = [p EXCEPT !.index = p.next] /\ j = p.next
        BY <1>7, <2>2, <3>1 DEF AfterDelete
      <4> QED
        BY <1>8, <4>1 DEF IterRecs
    <3>2. CASE live = p.nodes
      <4>1. x = p /\ j = p.index
        BY <1>7, <2>2, <3>2 DEF AfterDelete
      <4> QED
        BY <1>8, <4>1 DEF IterRecs
    <3> QED
      BY <3>1, <3>2
  <2>4. it' = [it EXCEPT ![r] = [AfterDelete(it[r]) EXCEPT !.pc = "next", !.nodes = {}]]
    BY <2>1 DEF IterDeleted
  <2> QED
    BY <1>3, <2>2, <2>3, <2>4
<1>11. PICK N : N = live \cup S
  OBVIOUS
<1>12. p.owed \subseteq 0 .. ULONG - 1 /\ p.index \in 0 .. ULONG - 1
       /\ p.next \in 0 .. ULONG - 1 /\ ULONG \in Nat /\ p.offset \in Slots
  BY Kinds DEF IterRecs
<1>13. PosOK(q, N)
  <2>1. CASE live = p.nodes
    <3>0. j = p.index
      BY <1>7, <2>1
    <3>1. CASE p.node = NULL
      BY <1>6, <1>9, <3>0, <3>1, RootNext DEF Visiting
    <3>2. CASE p.node # NULL
      <4>1. Leaf(q) /\ q.node \in N /\ q.last = q.index /\ \A k \in q.owed : k > q.index
        BY <1>5, <1>6, <1>9, <1>11, <2>1, <3>0, <3>2 DEF Visiting, Leaf
      <4>2. q.last <= q.index
        BY <1>9, <1>12, <3>0, <4>1
      <4> QED
        BY <1>9, <4>1, <4>2, LeafNext
    <3> QED
      BY <3>1, <3>2
  <2>2. CASE live # p.nodes
    <3>1. j = p.next /\ Gone(p)
      BY <1>5, <1>7, <2>2
    <3>2. PICK n \in NodeIds : n = p.node
      BY <3>1 DEF Gone
    <3>3. Leaf(p) /\ p.last = p.index /\ \A k \in p.owed : k > p.index
      BY <1>6, <3>2, Kinds DEF Visiting
    <3>4. Under(n, p.index)
      <4>1. First(n, p.offset) = p.index
        <5>1. p.offset \in 0 .. MAP_SIZE
          BY <1>12, RadixTreeAssumption DEF Slots
        <5> QED
          BY <3>2, <3>3, <5>1, LeafFirst DEF Leaf
      <4> QED
        BY <1>12, <3>2, <4>1, FirstThere
    <3>5. \A k \in p.owed : k >= First(n, MAP_SIZE)
      <4>1. MAP_SIZE \in 0 .. MAP_SIZE
        BY RadixTreeAssumption
      <4> SUFFICES ASSUME NEW k \in p.owed
                   PROVE  k >= First(n, MAP_SIZE)
        OBVIOUS
      <4>2. k \in Nat /\ p.index \in Nat /\ k >= p.index /\ ~Under(n, k)
        BY <1>12, <3>1, <3>2, <3>3 DEF Gone
      <4> QED
        BY <3>4, <4>1, <4>2, Beyond
    <3>6. /\ p.next = 0 => p.owed = {}
          /\ p.next # 0 => p.next > p.index /\ \A k \in p.owed : k >= p.next
      BY <1>12, <3>2, <3>3, <3>5, LeafLeft
    <3>7. Ahead(q, q.next) /\ Rising(q, q.next)
      <4>1. Ahead(q, q.next)
        BY <1>9, <3>6 DEF Ahead
      <4>2. Rising(q, q.next)
        BY <1>9, <3>3, <3>6 DEF Rising
      <4> QED
        BY <4>1, <4>2
    <3> QED
      BY <1>9, <3>1, <3>7, AgainNext
  <2> QED
    BY <2>1, <2>2
<1>14. Still(q, S) /\ PosOK(q, live \cup S)
  BY <1>2, <1>3, <1>9, <1>11, <1>13 DEF Still
<1>15. q.pc \notin {"idle", "deleting", "body"} /\ p.pc # "idle"
  BY <1>4, <1>9
<1>16. \A k \in Keys : map[k] # NULL => k \in q.owed
  BY <1>5, <1>9
<1>17. q.job = it[r].job /\ \A k \in q.owed : map[k] # NULL
  BY <1>1, <1>3, <1>4, <1>9
<1> QED
  BY <1>2, <1>3, <1>4, <1>9, <1>10, <1>14, <1>15, <1>16, <1>17, QuietStep

\* A loop starts, ends or releases the lock: nodes that only waited for it
\* are freed, and it is in none of them.
LEMMA SectionStep ==
  ASSUME IterInv, ~aborted, NEW r \in Readers, NEW q \in IterRecs,
         it' = [it EXCEPT ![r] = q], LeaveSection(r),
         NEW x \in ReaderRecs, x.pc \in {"idle", "iterate"}, rd' = [rd EXCEPT ![r] = x],
         UNCHANGED <<rnode, live, smashed, map, failed, wr>>,
         \A s \in Readers \ {r} : it[s].job \notin Alone,
         it[r].job # "kill", aborted' \in BOOLEAN,
         JobOK(r)', AloneOK(r)', \A k \in q.owed : map[k] # NULL, PosOK(q, live)
  PROVE  IterInv'
<1>1. ~Killing
  BY DEF Killing, Alone
<1>2. RadixInv /\ KeysOnly
  BY <1>1 DEF IterInv, TreeOK, StructInv
<1>3. /\ rd \in [Readers -> ReaderRecs] /\ it \in [Readers -> IterRecs]
      /\ live \subseteq NodeIds /\ retired \subseteq NodeIds \ live
  BY <1>2 DEF RadixInv, Types, IterInv, IterTypes
<1>4. /\ rd' \in [Readers -> ReaderRecs] /\ rd'[r] = x
      /\ \A s \in Readers : s # r => rd'[s] = rd[s]
  BY <1>3
<1>5. RadixInv'
  BY <1>2, <1>4, SectionLeft
<1>6. PICK over : /\ over = {n \in retired : Released(r)[n] = {}}
                  /\ grace' = [n \in retired \ over |-> Released(r)[n]]
                  /\ node' = Cleared(node, over)
  BY DEF LeaveSection
<1>7. \A n \in retired : Released(r)[n] = grace[n] \ {r}
  BY DEF Released
<1>8. retired' = retired \ over /\ \A n \in retired' : grace'[n] = grace[n] \ {r}
  BY <1>6, <1>7 DEF retired
<1>9. \A n \in NodeIds : n \notin over => node'[n] = node[n]
  BY <1>6 DEF Cleared
<1>10. KeysOnly'
  <2>1. \A n \in live : node'[n] = node[n]
    BY <1>3, <1>6, <1>9
  <2> QED
    BY <1>2, <2>1 DEF KeysOnly
<1>11. TreeOK'
  BY <1>5, <1>10, TreeOKNext
<1>12. ASSUME NEW s \in Readers \ {r}
       PROVE  it[s].job \notin Alone /\ rd'[s].pc = rd[s].pc /\ PositionOK(s)'
  <2>1. it'[s] = it[s]
    BY <1>3
  <2>2. ASSUME NEW n \in retired, s \in grace[n]
        PROVE  n \in retired' /\ s \in grace'[n] /\ node'[n] = node[n]
    <3>1. n \notin over
      BY <1>6, <1>7, <2>2
    <3> QED
      BY <1>3, <1>8, <1>9, <2>2, <3>1
  <2>3. PositionOK(s)'
    BY <2>1, <2>2, OthersStay
  <2> QED
    BY <1>4, <2>3
<1>13. PositionOK(r)'
  <2>1. it'[r] = q /\ {} \in SUBSET retired'
    BY <1>3
  <2>2. live' \cup {} = live
    OBVIOUS
  <2>3. PosOK(q, live' \cup {})
    BY <2>2
  <2> QED
    BY <2>1, <2>3 DEF PositionOK, Stays, Still
<1> QED
  BY <1>11, <1>12, <1>13, OwnStep

\* A loop, or a lookup, starts.
LEMMA IterStartStep ==
  ASSUME IterInv, ~aborted, NEW r \in Readers,
         NEW job \in {"each", "lookup", "delete", "kill"}, NEW start \in Starts,
         IterStart(r, job, start)
  PROVE  IterInv'
<1>1. PICK T : T = IF job = "lookup" THEN Present \cap {start}
                   ELSE {k \in Present : k >= start}
  OBVIOUS
<1>2. /\ start \in 0 .. ULONG - 1 /\ start - 1 \in Int /\ T \in SUBSET Keys
      /\ 0 \in 0 .. ULONG - 1 /\ 0 \in Slots /\ Keys \subseteq 0 .. ULONG - 1
      /\ \A k \in T : map[k] # NULL /\ k >= start
      /\ job = "lookup" => \A k \in T : k = start
  BY <1>1, StartsAssumption, Kinds DEF Present
<1>a. PICK y : y = [IterIdle EXCEPT !.job = job, !.last = start - 1, !.owed = T]
  OBVIOUS
<1>3. PICK q : q = [y EXCEPT !.index = 0, !.next = start, !.pc = "chunk"]
  OBVIOUS
<1>4. /\ q \in IterRecs /\ q.pc = "chunk" /\ q.job = job /\ q.index = 0 /\ q.next = start
      /\ q.last = start - 1 /\ q.owed = T
  <2>1. IterIdle \in IterRecs
    BY IdleIterator
  <2>2. y \in IterRecs /\ y.job = job /\ y.last = start - 1 /\ y.owed = T
    BY <1>2, <1>a, <2>1 DEF IterRecs
  <2> QED
    BY <1>2, <1>3, <2>2 DEF IterRecs
<1>5. it \in [Readers -> IterRecs] /\ it' = [it EXCEPT ![r] = q]
  <2>1. it \in [Readers -> IterRecs]
    BY DEF IterInv, IterTypes
  <2>2. radix_tree_iter_init(
          [IterIdle EXCEPT !.job = job, !.last = start - 1,
             !.owed = IF job = "lookup" THEN Present \cap {start}
                      ELSE {k \in Present : k >= start}], start) = q
    BY <1>1, <1>3, <1>a DEF radix_tree_iter_init
  <2> QED
    BY <2>1, <2>2 DEF IterStart
<1>6. /\ rd[r].pc = "idle" /\ it[r].pc = "idle" /\ it[r].job = "each"
      /\ UNCHANGED <<rnode, node, live, smashed, map, failed, grace, wr, aborted>>
      /\ \A s \in Readers : it[s].job \notin Alone
      /\ job \in Alone => /\ wr.pc = "idle" /\ start = 0
                          /\ \A s \in Readers : rd[s].pc = "idle"
  BY DEF IterStart, IterInv, JobOK, Exclusive, Alone, TreeUnchanged
<1>7. StructInv /\ Types /\ HeldByReadersOnly /\ rd \in [Readers -> ReaderRecs]
      /\ aborted \in BOOLEAN
  BY DEF IterInv, IterTypes, TreeOK, StructInv, GraceInv, Types
<1>8. LeaveSection(r)
  BY <1>6, <1>7, NoSectionLeft
<1>9. PICK x : x = IF job \in Alone THEN rd[r]
                   ELSE [ReaderIdle EXCEPT !.pc = "iterate", !.index = NULL]
  OBVIOUS
<1>10. /\ x \in ReaderRecs /\ (job \in Alone => x.pc = "idle")
       /\ job \notin Alone => x.pc = "iterate"
  <2>1. CASE job \in Alone
    BY <1>6, <1>7, <1>9, <2>1
  <2>2. CASE job \notin Alone
    <3>1. NULL \in Entries
      BY DEF Entries
    <3>2. x = [pc |-> "iterate", index |-> NULL, node |-> NULL, child |-> NULL, seen |-> {}]
      BY <1>9, <2>2 DEF ReaderIdle
    <3> QED
      BY <2>2, <3>1, <3>2 DEF ReaderRecs
  <2> QED
    BY <2>1, <2>2
<1>11. rd' = [rd EXCEPT ![r] = x]
  BY <1>7, <1>9 DEF IterStart, Alone
<1>12. Resumes(q)
  <2>1. Ahead(q, q.next)
    BY <1>2, <1>4 DEF Ahead
  <2>2. start > start - 1
    BY <1>2
  <2>3. Rising(q, q.next)
    BY <1>4, <2>2 DEF Rising
  <2> QED
    BY <1>4, <2>1, <2>3 DEF Resumes
<1>13. PosOK(q, live)
  <2>1. start = (start - 1) + 1
    BY <1>2
  <2> QED
    BY <1>2, <1>4, <1>12, <2>1 DEF PosOK
<1>14. /\ it'[r] = q /\ rd'[r] = x
       /\ \A s \in Readers : s # r => it'[s] = it[s] /\ rd'[s] = rd[s]
  BY <1>5, <1>7, <1>11
<1>15. JobOK(r)'
  BY <1>4, <1>6, <1>10, <1>14 DEF JobOK
<1>16. AloneOK(r)'
  <2>1. job = "delete" => \A k \in Keys : map[k] # NULL => k \in q.owed
    <3> SUFFICES ASSUME job = "delete", NEW k \in Keys, map[k] # NULL
                 PROVE  k \in T
      BY <1>4
    <3>1. k \in Present /\ start = 0 /\ k \in 0 .. ULONG - 1
      BY <1>2, <1>6 DEF Present, Alone
    <3> QED
      BY <1>1, <1>2, <3>1
  <2> QED
    BY <1>4, <1>6, <1>14, <2>1 DEF AloneOK
<1> QED
  BY <1>2, <1>4, <1>5, <1>6, <1>7, <1>8, <1>10, <1>11, <1>13, <1>15, <1>16, SectionStep

\* radix_tree_iter_resume(): the iteration goes on at the next index.
LEMMA IterResumeStep ==
  ASSUME IterInv, ~aborted, NEW r \in Readers, IterResume(r)
  PROVE  IterInv'
<1>1. /\ it[r] \in IterRecs /\ JobOK(r) /\ StructInv
      /\ \A k \in it[r].owed : map[k] # NULL
  BY Running
<1>2. PICK N : PosOK(it[r], N)
  BY DEF IterInv, PositionOK
<1>3. PICK p \in IterRecs : p = it[r]
  BY <1>1
<1>4. /\ p.pc = "body" /\ p.job = "each" /\ LeaveSection(r)
      /\ UNCHANGED <<rnode, live, smashed, map, failed, wr, rd, aborted>>
  BY <1>3 DEF IterResume
<1>5. PICK j : j = (p.index + 1) % ULONG
  OBVIOUS
<1>6. /\ p.index \in 0 .. ULONG - 1 /\ j \in 0 .. ULONG - 1 /\ 0 \in Slots /\ ULONG \in Nat \ {0}
      /\ p.owed \subseteq 0 .. ULONG - 1
      /\ p.index # ULONG - 1 => j = p.index + 1
      /\ p.index = ULONG - 1 => j = 0
  <2>1. p.index \in 0 .. ULONG - 1 /\ 0 \in Slots /\ ULONG \in Nat \ {0}
        /\ p.owed \subseteq 0 .. ULONG - 1
    BY Kinds DEF IterRecs
  <2>2. \A a \in 0 .. ULONG - 1 : /\ (a + 1) % ULONG \in 0 .. ULONG - 1
                                  /\ a # ULONG - 1 => (a + 1) % ULONG = a + 1
                                  /\ a = ULONG - 1 => (a + 1) % ULONG = 0
    <3>1. ULONG % ULONG = 0
      BY <2>1
    <3> QED
      BY <2>1, <3>1
  <2> QED
    BY <1>5, <2>1, <2>2
<1>7. PICK q : q = [p EXCEPT !.index = j, !.next = j, !.node = NULL, !.offset = 0,
                             !.pc = "next", !.last = j - 1]
  OBVIOUS
<1>8. /\ q \in IterRecs /\ q.pc = "next" /\ q.job = "each" /\ q.index = j /\ q.next = j
      /\ q.last = j - 1 /\ q.owed = p.owed
  <2>1. PICK l \in Int : l = j - 1
    BY <1>6
  <2>2. q = [p EXCEPT !.index = j, !.next = j, !.node = NULL, !.offset = 0,
                      !.pc = "next", !.last = l]
    BY <1>7, <2>1
  <2>3. /\ q \in IterRecs /\ q.pc = "next" /\ q.job = "each" /\ q.index = j /\ q.next = j
        /\ q.last = l /\ q.owed = p.owed
    BY <1>4, <1>6, <2>2 DEF IterRecs
  <2> QED
    BY <2>1, <2>3
<1>9. it \in [Readers -> IterRecs] /\ it' = [it EXCEPT ![r] = q]
  <2>1. it \in [Readers -> IterRecs]
    BY DEF IterInv, IterTypes
  <2>2. it' = [it EXCEPT ![r].index = j, ![r].next = j, ![r].node = NULL,
                         ![r].offset = 0, ![r].pc = "next", ![r].last = j - 1]
    BY <1>3, <1>5 DEF IterResume
  <2>3. it' = [it EXCEPT ![r] = [it[r] EXCEPT !.index = j, !.next = j, !.node = NULL,
                                              !.offset = 0, !.pc = "next",
                                              !.last = j - 1]]
    BY <2>1, <2>2
  <2> QED
    BY <1>3, <1>7, <2>1, <2>3
<1>10. Visiting(p)
  BY <1>2, <1>3, <1>4 DEF PosOK
<1>11. p.index \in Keys /\ p.last = p.index /\ \A k \in p.owed : k > p.index
  BY <1>10 DEF Visiting
<1>12. Ahead(q, q.next)
  BY <1>6, <1>8, <1>11 DEF Ahead
<1>13. Rising(q, q.next)
  BY <1>6, <1>8 DEF Rising
<1>14. PosOK(q, live)
  BY <1>8, <1>12, <1>13, AgainNext
<1>15. rd[r] \in ReaderRecs /\ rd' = [rd EXCEPT ![r] = rd[r]]
  BY <1>1, <1>4 DEF StructInv, Types
<1>16. rd[r].pc = "iterate" /\ q.job \notin Alone /\ p.pc # "idle"
  BY <1>1, <1>3, <1>4, <1>8 DEF JobOK, Alone
<1>17. it'[r] = q
  BY <1>9
<1>18. JobOK(r)' /\ AloneOK(r)'
  <2>1. JobOK(r)'
    BY <1>4, <1>8, <1>16, <1>17 DEF JobOK
  <2> QED
    BY <1>8, <1>16, <1>17, <2>1, NotAlone
<1>19. \A s \in Readers \ {r} : it[s].job \notin Alone
  BY <1>3, <1>16, Apart
<1>20. it[r].job # "kill" /\ aborted' \in BOOLEAN
  BY <1>3, <1>4 DEF IterInv, IterTypes
<1>21. \A k \in q.owed : map[k] # NULL
  BY <1>1, <1>3, <1>8
<1> QED
  BY <1>4, <1>8, <1>9, <1>14, <1>15, <1>16, <1>18, <1>19, <1>20, <1>21, SectionStep

\* What the end of a loop leaves.
LEMMA LoopOver ==
  ASSUME IterInv, NEW r \in Readers, it' = [it EXCEPT ![r] = IterIdle],
         rd' = [rd EXCEPT ![r] = ReaderIdle]
  PROVE  /\ it'[r] = IterIdle /\ ReaderIdle \in ReaderRecs /\ rd'[r].pc = "idle"
         /\ ReaderIdle.pc = "idle" /\ rd' \in [Readers -> ReaderRecs]
         /\ \A s \in Readers : s # r => rd'[s] = rd[s]
         /\ JobOK(r)' /\ AloneOK(r)'
<1>1. it \in [Readers -> IterRecs] /\ rd \in [Readers -> ReaderRecs]
  BY DEF IterInv, IterTypes, TreeOK, StructInv, Types
<1>2. ReaderIdle \in ReaderRecs /\ ReaderIdle.pc = "idle"
  BY Kinds DEF ReaderIdle, ReaderRecs, Entries
<1>3. it'[r] = IterIdle /\ rd'[r] = ReaderIdle
  BY <1>1
<1>4. JobOK(r)'
  BY <1>2, <1>3, IdleIterator DEF JobOK, Alone
<1>5. AloneOK(r)'
  BY <1>3, IdleIterator, NotAlone DEF Alone
<1> QED
  BY <1>1, <1>2, <1>3, <1>4, <1>5

\* A loop is left at a visit, or ends, and did not kill the tree.
LEMMA IterLeaveStep ==
  ASSUME IterInv, ~aborted, NEW r \in Readers,
         IterBreak(r) \/ (IterEnd(r) /\ it[r].job # "kill")
  PROVE  IterInv'
<1>1. /\ it' = [it EXCEPT ![r] = IterIdle] /\ rd' = [rd EXCEPT ![r] = ReaderIdle]
      /\ LeaveSection(r) /\ UNCHANGED <<rnode, live, smashed, map, failed, wr>>
      /\ it[r].pc # "idle" /\ it[r].job # "kill" /\ aborted' \in BOOLEAN
  BY DEF IterBreak, IterEnd, IterInv, IterTypes
<1>2. /\ ReaderIdle \in ReaderRecs /\ ReaderIdle.pc = "idle" /\ JobOK(r)' /\ AloneOK(r)'
  BY <1>1, LoopOver
<1>3. \A s \in Readers \ {r} : it[s].job \notin Alone
  BY <1>1, Apart
<1>4. IterIdle \in IterRecs /\ IterIdle.owed = {} /\ PosOK(IterIdle, live)
  BY IdleIterator
<1> QED
  BY <1>1, <1>2, <1>3, <1>4, SectionStep

\* item_kill_tree() is over: the tree is empty, or its assertion fails.
LEMMA IterKilledStep ==
  ASSUME IterInv, NEW r \in Readers, IterEnd(r), it[r].job = "kill"
  PROVE  IterInv'
<1>1. /\ it' = [it EXCEPT ![r] = IterIdle] /\ rd' = [rd EXCEPT ![r] = ReaderIdle]
      /\ LeaveSection(r) /\ UNCHANGED <<rnode, live, smashed, map, failed, wr>>
      /\ it[r].pc = "done" /\ aborted' = (rnode # NULL)
  BY DEF IterEnd
<1>2. /\ ReaderIdle \in ReaderRecs /\ rd'[r].pc = "idle" /\ JobOK(r)' /\ AloneOK(r)'
      /\ rd' \in [Readers -> ReaderRecs] /\ it'[r] = IterIdle
      /\ \A s \in Readers : s # r => rd'[s] = rd[s]
  BY <1>1, LoopOver
<1>3. \A s \in Readers \ {r} : it[s].job \notin Alone
  BY <1>1, Apart
<1>4. StructInv /\ JobOK(r) /\ it \in [Readers -> IterRecs]
  BY DEF IterInv, IterTypes, TreeOK
<1>5. (\A s \in Readers : rd[s].pc = "idle") /\ wr.pc = "idle"
  BY <1>1, <1>4 DEF JobOK, Alone
<1>6. retired = {} /\ UNCHANGED <<grace, node>>
  <2>1. Types /\ HeldByReadersOnly
    BY <1>4 DEF StructInv, GraceInv
  <2> QED
    BY <1>1, <1>5, <2>1, NoWaiting, NoSectionLeft
<1>7. Awaited = {} /\ \A s \in Readers : rd'[s].pc = "idle"
  BY <1>2, <1>5 DEF Awaited
<1>8. StructInv'
  <2>1. wr' \in WriterRecs
    BY <1>1, <1>4 DEF StructInv, Types
  <2> QED
    BY <1>1, <1>2, <1>4, <1>6, <1>7, <2>1, StructSame
<1>9. ASSUME rnode = NULL
      PROVE  RadixInv'
  <2>1. live' = {} /\ rnode' = NULL /\ rnode' \notin NodeIds /\ retired' = {}
    BY <1>1, <1>4, <1>6, <1>9, Kinds DEF StructInv, RootOK, retired
  <2>2. TreeInv'
    BY <1>8, <2>1 DEF StructInv, TreeInv, Unique, Linked, CountExact
  <2>3. ReaderInv'
    BY <1>7, <2>1 DEF ReaderInv, MissedOK, SeenOK, DescendOK, LookupLinearizable
  <2>4. WriterInv'
    BY <1>1, <1>5 DEF WriterInv, WrExtend, WrCreate, WrFind, WrFound, WrPurpose, WrUnlink
  <2>5. HeightInv'
    BY <2>1 DEF HeightInv, NonEmpty, Height
  <2> QED
    BY <1>8, <2>2, <2>3, <2>4, <2>5 DEF RadixInv, StructInv
<1>10. TreeOK'
  BY <1>1, <1>8, <1>9 DEF TreeOK
<1>11. ASSUME NEW s \in Readers \ {r}
       PROVE  it[s].job \notin Alone /\ rd'[s].pc = rd[s].pc /\ PositionOK(s)'
  <2>1. it'[s] = it[s]
    BY <1>1, <1>4
  <2>2. PositionOK(s)'
    BY <1>1, <1>6, <2>1, OthersStay
  <2> QED
    BY <1>2, <1>3, <2>2
<1>12. PositionOK(r)'
  BY <1>2, IdleIterator DEF PositionOK, Stays, Still
<1>13. IterIdle \in IterRecs
  BY IdleIterator
<1> QED
  BY <1>1, <1>2, <1>10, <1>11, <1>12, <1>13, OwnStep

\* Where a visited slot is.
LEMMA VisitedSlot ==
  ASSUME NEW p \in IterRecs, Visiting(p), p.node # NULL
  PROVE  /\ p.node \in NodeIds /\ p.node[1] = 0 /\ p.index \in Keys /\ p.index \in Nat
         /\ Under(p.node, p.index) /\ Offset(p.index, 0) = p.offset /\ p.offset \in Slots
<1>1. Leaf(p) /\ p.index \in Keys /\ p.offset \in Slots
  BY DEF Visiting, IterRecs
<1>2. PICK n \in NodeIds : n = p.node
  BY <1>1 DEF Leaf
<1>3. First(n, p.offset) = p.index /\ n[1] = 0
  <2>1. p.offset \in 0 .. MAP_SIZE
    BY <1>1, RadixTreeAssumption DEF Slots
  <2> QED
    BY <1>1, <1>2, <2>1, LeafFirst DEF Leaf
<1>4. Under(n, p.index) /\ Offset(p.index, 0) = p.offset
  BY <1>1, <1>3, FirstThere
<1>5. p.index \in Nat
  <2>1. p.index \in 0 .. ULONG - 1 /\ ULONG \in Nat
    BY Kinds DEF IterRecs
  <2> QED
    BY <2>1
<1> QED
  BY <1>1, <1>2, <1>3, <1>4, <1>5

\* radix_tree_iter_delete() starts: __radix_tree_delete() at the slot of the
\* iterator.
LEMMA IterDeleteStep ==
  ASSUME IterInv, ~aborted, NEW r \in Readers, IterDelete(r)
  PROVE  IterInv'
<1>1. /\ it[r] \in IterRecs /\ JobOK(r) /\ AloneOK(r) /\ StructInv
      /\ \A k \in it[r].owed : map[k] # NULL
  BY Running
<1>2. PICK p \in IterRecs : p = it[r]
  BY <1>1
<1>3. /\ p.pc = "body" /\ p.job = "delete" /\ TreeUnchanged
      /\ UNCHANGED <<grace, rd, aborted>>
  BY <1>2 DEF IterDelete
<1>4. \A s \in Readers : rd[s].pc = "idle" /\ (s # r => it[s].job \notin Alone)
  BY <1>1, <1>2, <1>3 DEF JobOK, Alone
<1>5. wr.pc = "idle"
  BY <1>1, <1>2, <1>3 DEF JobOK, Alone
<1>6. RadixInv /\ KeysOnly
  <2>1. ~Killing
    BY <1>2, <1>3, <1>4 DEF Killing, Alone
  <2> QED
    BY <2>1 DEF IterInv, TreeOK, StructInv
<1>7. /\ map[p.index] # NULL /\ (p.node = NULL => rnode \notin NodeIds)
      /\ \A k \in Keys : map[k] # NULL => k \in p.owed \/ k = p.index
  BY <1>1, <1>2, <1>3 DEF AloneOK, Alone
<1>8. Visiting(p) /\ (p.node # NULL => p.node \in live)
  <2>1. PosOK(p, live)
    BY <1>1, <1>2, <1>4, NoSection DEF IterInv, StructInv
  <2> QED
    BY <1>3, <2>1 DEF PosOK
<1>9. /\ p.index \in Keys /\ p.index \in 0 .. ULONG - 1
      /\ p.node = NULL => p.index = 0
      /\ p.node \in Entries /\ live \subseteq NodeIds /\ rnode \in Entries
      /\ node \in [NodeIds -> NodeRecs]
  BY <1>6, <1>8, Kinds DEF Visiting, RadixInv, Types, IterRecs, Entries
<1>10. PICK c : c = IF p.node = NULL THEN rnode ELSE Below(p.node, p.index)
  OBVIOUS
<1>11. ASSUME p.node # NULL
       PROVE  /\ p.node \in NodeIds /\ p.node[1] = 0 /\ Under(p.node, p.index)
              /\ c = Entry(p.node, p.index) /\ c \in Entries
  <2>1. /\ p.node \in NodeIds /\ p.node[1] = 0 /\ Under(p.node, p.index)
        /\ Offset(p.index, 0) \in Slots
    BY <1>8, <1>11, VisitedSlot
  <2>2. node[p.node].shift = 0 /\ node[p.node].slots \in [Slots -> Entries]
    <3>1. node[p.node].shift = p.node[1]
      BY <1>6, <1>8, <1>11 DEF RadixInv, TreeInv, Shaped
    <3> QED
      BY <1>9, <2>1, <3>1 DEF NodeRecs
  <2>3. c = node[p.node].slots[Offset(p.index, 0)]
    BY <1>10, <1>11, <2>2 DEF Below
  <2> QED
    BY <2>1, <2>2, <2>3 DEF Entry
<1>12. PICK w : w = [WriterIdle EXCEPT !.pc = "delete", !.index = p.index,
                                      !.node = p.node, !.child = c]
  OBVIOUS
<1>13. /\ w \in WriterRecs /\ w.pc = "delete" /\ w.index = p.index /\ w.node = p.node
       /\ w.child = c /\ w.item = NULL
  <2>1. c \in Entries
    BY <1>9, <1>10, <1>11
  <2>2. WriterIdle \in WriterRecs /\ WriterIdle.item = NULL
    BY Idle DEF WriterIdle
  <2> QED
    BY <1>9, <1>12, <2>1, <2>2 DEF WriterRecs
<1>14. wr' = w
  BY <1>2, <1>10, <1>12 DEF IterDelete
<1>15. UNCHANGED <<rnode, node, live, grace, rd, smashed, map, failed>>
  BY <1>3 DEF TreeUnchanged
<1>16. WriterInv'
  <2>1. WrFound'
    <3>1. CASE p.node = NULL
      BY <1>7, <1>9, <1>10, <1>13, <1>14, <1>15, <3>1 DEF WrFound
    <3>2. CASE p.node # NULL
      BY <1>8, <1>9, <1>11, <1>13, <1>14, <1>15, <3>2 DEF WrFound, Entry
    <3> QED
      BY <3>1, <3>2
  <2>2. WrPurpose'
    BY <1>7, <1>13, <1>14, <1>15 DEF WrPurpose
  <2>3. WrExtend' /\ WrCreate' /\ WrFind' /\ WrUnlink'
    BY <1>13, <1>14 DEF WrExtend, WrCreate, WrFind, WrUnlink
  <2> QED
    BY <2>1, <2>2, <2>3 DEF WriterInv
<1>17. RadixInv'
  <2>1. Settled
    BY <1>5, <1>6, SettledTree
  <2>2. wr' \in WriterRecs
    BY <1>13, <1>14
  <2> QED
    BY <1>6, <1>15, <1>16, <2>1, <2>2, StoresNothing
<1>18. TreeOK'
  <2>1. KeysOnly'
    BY <1>6, <1>15 DEF KeysOnly
  <2> QED
    BY <1>17, <2>1, TreeOKNext
<1>19. PICK q : q = [p EXCEPT !.pc = "deleting", !.nodes = live]
  OBVIOUS
<1>20. /\ q \in IterRecs /\ q.pc = "deleting" /\ q.job = "delete" /\ q.index = p.index
       /\ q.next = p.next /\ q.node = p.node /\ q.offset = p.offset /\ q.last = p.last
       /\ q.owed = p.owed /\ q.nodes = live
  <2>1. live \in SUBSET NodeIds
    BY <1>9
  <2> QED
    BY <1>3, <1>19, <2>1 DEF IterRecs
<1>21. it \in [Readers -> IterRecs] /\ it' = [it EXCEPT ![r] = q]
  <2>1. it \in [Readers -> IterRecs]
    BY DEF IterInv, IterTypes
  <2>2. it' = [it EXCEPT ![r].pc = "deleting", ![r].nodes = live]
    BY DEF IterDelete
  <2>3. it' = [it EXCEPT ![r] = [it[r] EXCEPT !.pc = "deleting", !.nodes = live]]
    BY <2>1, <2>2
  <2> QED
    BY <1>2, <1>19, <2>1, <2>3
<1>22. it'[r] = q
  BY <1>21
<1>23. JobOK(r)'
  <2>1. \A s \in Readers : s # r => it'[s] = it[s]
    BY <1>21
  <2> QED
    BY <1>4, <1>15, <1>20, <1>22, <2>1 DEF JobOK, Alone
<1>24. PositionOK(r)'
  <2>1. PosOK(q, live' \cup {})
    BY <1>8, <1>20 DEF PosOK, Visiting, Leaf
  <2>2. \A k \in q.owed : map'[k] # NULL
    BY <1>1, <1>2, <1>15, <1>20
  <2>3. {} \in SUBSET retired'
    OBVIOUS
  <2> QED
    BY <1>22, <2>1, <2>2, <2>3 DEF PositionOK, Stays, Still
<1>25. AloneOK(r)'
  <2>1. \A k \in Keys : map'[k] # NULL => k \in q.owed \/ k = q.index
    BY <1>7, <1>15, <1>20
  <2>2. q.node # NULL => q.node \in q.nodes
    BY <1>8, <1>20
  <2>3. wr'.pc = "delete" /\ live' = q.nodes /\ wr'.node = q.node
        /\ wr'.index = q.index /\ wr'.item = NULL
    BY <1>13, <1>14, <1>15, <1>20
  <2> QED
    BY <1>20, <1>22, <2>1, <2>2, <2>3 DEF AloneOK
<1>26. ASSUME NEW s \in Readers \ {r}
       PROVE  it[s].job \notin Alone /\ rd'[s].pc = rd[s].pc /\ PositionOK(s)'
  <2>1. it'[s] = it[s]
    BY <1>21
  <2>2. retired' = retired
    BY <1>15 DEF retired
  <2>3. PositionOK(s)'
    BY <1>15, <2>1, <2>2, OthersStay
  <2> QED
    BY <1>4, <1>15, <2>3
<1>27. aborted' \in BOOLEAN
  BY <1>3 DEF IterInv, IterTypes
<1> QED
  BY <1>18, <1>20, <1>21, <1>23, <1>24, <1>25, <1>26, <1>27, OwnStep

\* item_kill_tree() is alone: what it forgets nobody looks up.
LEMMA ForgetAlone ==
  ASSUME StructInv, \A s \in Readers : rd[s].pc = "idle", NEW i \in Keys,
         Remember(i, NULL)
  PROVE  /\ map' \in [Keys -> Items \cup {NULL}] /\ smashed' \in BOOLEAN
         /\ map'[i] = NULL /\ \A j \in Keys \ {i} : map'[j] = map[j]
         /\ rd' \in [Readers -> ReaderRecs] /\ \A s \in Readers : rd'[s].pc = "idle"
         /\ retired = {}
<1>1. Types /\ HeldByReadersOnly
  BY DEF StructInv, GraceInv
<1>2. SeenOK /\ LookupLinearizable
  BY DEF SeenOK, LookupLinearizable
<1>3. NULL \in Items \cup {NULL}
  OBVIOUS
<1> QED
  BY <1>1, <1>2, <1>3, Remembered, NoWaiting

\* item_kill_tree() frees the item in rnode.
LEMMA KilledRoot ==
  ASSUME StructInv, \A s \in Readers : rd[s].pc = "idle", 0 \in Keys,
         rnode \notin NodeIds, rnode' = NULL, node' = node, Remember(0, NULL),
         UNCHANGED <<live, failed, grace, wr>>
  PROVE  StructInv'
<1>1. /\ map' \in [Keys -> Items \cup {NULL}] /\ smashed' \in BOOLEAN
      /\ map'[0] = NULL /\ \A j \in Keys \ {0} : map'[j] = map[j]
      /\ rd' \in [Readers -> ReaderRecs] /\ \A s \in Readers : rd'[s].pc = "idle"
      /\ retired = {}
  BY ForgetAlone
<1>2. live = {} /\ live' = {} /\ retired' = {} /\ NULL \notin NodeIds /\ NULL \notin Items
  BY <1>1, Kinds DEF StructInv, RootOK, retired
<1>3. Types'
  <2>1. NULL \in Entries
    BY DEF Entries
  <2> QED
    BY <1>1, <2>1 DEF StructInv, Types, retired
<1>4. SlotsOK' /\ RootOK' /\ Shaped' /\ Unique'
  BY <1>2 DEF SlotsOK, RootOK, Shaped, Unique
<1>5. MapInv'
  <2>1. \A i \in Keys : map'[i] = NULL
    BY <1>1 DEF StructInv, MapInv, RootExact
  <2> QED
    BY <1>2, <2>1 DEF MapInv, LeafExact, Absent, RootExact
<1>6. GraceInv'
  BY <1>2 DEF GraceInv, RetiredOK, HeldByReadersOnly
<1>7. KeysOnly'
  BY <1>2 DEF KeysOnly
<1> QED
  BY <1>3, <1>4, <1>5, <1>6, <1>7 DEF StructInv

\* radix_tree_replace_slot() empties a slot without its node's count.
LEMMA SlotEmptied ==
  ASSUME node \in [NodeIds -> NodeRecs], NEW n \in NodeIds, NEW i \in Nat,
         n[1] = 0, node[n].shift = 0, Store(node, n, i, NULL, 0)
  PROVE  /\ rnode' = rnode /\ node' \in [NodeIds -> NodeRecs] /\ Offset(i, 0) \in Slots
         /\ \A m \in NodeIds : m # n => node'[m] = node[m]
         /\ \A m \in NodeIds : /\ node'[m].shift = node[m].shift
                               /\ node'[m].offset = node[m].offset
                               /\ node'[m].parent = node[m].parent
         /\ node'[n].slots[Offset(i, 0)] = NULL
         /\ \A t \in Slots : t # Offset(i, 0) => node'[n].slots[t] = node[n].slots[t]
<1>1. n # NULL
  BY Kinds
<1>2. PICK s : s = Offset(i, 0)
  OBVIOUS
<1>3. s \in Slots
  <2>1. 0 \in 0 .. TopShift
    BY RadixTreeAssumption
  <2> QED
    BY <1>2, <2>1, OffsetStep
<1>4. PICK x \in NodeRecs : x = node[n]
  OBVIOUS
<1>5. PICK y : y = [x EXCEPT !.slots[s] = NULL, !.count = (@ + 0) % UINT]
  OBVIOUS
<1>6. x.slots \in [Slots -> Entries] /\ x.count \in 0 .. UINT - 1 /\ NULL \in Entries
  BY DEF NodeRecs, Entries
<1>7. (x.count + 0) % UINT \in 0 .. UINT - 1
  BY <1>6, RadixTreeAssumption
<1>8. PICK f : f = [x.slots EXCEPT ![s] = NULL]
  OBVIOUS
<1>9. f \in [Slots -> Entries] /\ f[s] = NULL /\ \A t \in Slots : t # s => f[t] = x.slots[t]
  BY <1>3, <1>6, <1>8
<1>10. /\ y \in NodeRecs /\ y.shift = x.shift /\ y.offset = x.offset
       /\ y.parent = x.parent /\ y.slots = f
  BY <1>5, <1>7, <1>8, <1>9 DEF NodeRecs
<1>11. node' = [node EXCEPT ![n] = y] /\ rnode' = rnode
  <2>1. node' = [node EXCEPT ![n].slots[s] = NULL, ![n].count = (@ + 0) % UINT]
        /\ rnode' = rnode
    BY <1>1, <1>2 DEF Store
  <2>2. node' = [node EXCEPT ![n] = [node[n] EXCEPT !.slots[s] = NULL,
                                                   !.count = (@ + 0) % UINT]]
    BY <2>1
  <2> QED
    BY <1>4, <1>5, <2>1, <2>2
<1>12. node' \in [NodeIds -> NodeRecs] /\ node'[n] = y
       /\ \A m \in NodeIds : m # n => node'[m] = node[m]
  BY <1>10, <1>11
<1> QED
  BY <1>2, <1>3, <1>4, <1>9, <1>10, <1>11, <1>12

\* item_kill_tree() frees an item in a leaf.
LEMMA KilledLeaf ==
  ASSUME StructInv, \A s \in Readers : rd[s].pc = "idle", NEW n \in live, n[1] = 0,
         NEW i \in Keys, Under(n, i), Store(node, n, i, NULL, 0), Remember(i, NULL),
         UNCHANGED <<live, failed, grace, wr>>
  PROVE  StructInv'
<1>1. /\ map' \in [Keys -> Items \cup {NULL}] /\ smashed' \in BOOLEAN
      /\ map'[i] = NULL /\ \A j \in Keys \ {i} : map'[j] = map[j]
      /\ rd' \in [Readers -> ReaderRecs] /\ \A s \in Readers : rd'[s].pc = "idle"
      /\ retired = {}
  BY ForgetAlone
<1>2. /\ node \in [NodeIds -> NodeRecs] /\ live \subseteq NodeIds /\ n \in NodeIds
      /\ node[n].shift = 0 /\ i \in Nat /\ Keys \subseteq Nat
      /\ retired' = {} /\ NULL \notin NodeIds
  <2>1. node[n].shift = n[1]
    BY DEF StructInv, Shaped
  <2>2. Keys \subseteq Nat
    BY Kinds
  <2> QED
    BY <1>1, <2>1, <2>2, Kinds DEF StructInv, Types, retired
<1>3. PICK o : o = Offset(i, 0)
  OBVIOUS
<1>4. /\ rnode' = rnode /\ node' \in [NodeIds -> NodeRecs] /\ o \in Slots
      /\ \A m \in NodeIds : m # n => node'[m] = node[m]
      /\ \A m \in NodeIds : /\ node'[m].shift = node[m].shift
                            /\ node'[m].offset = node[m].offset
                            /\ node'[m].parent = node[m].parent
      /\ node'[n].slots[o] = NULL
      /\ \A t \in Slots : t # o => node'[n].slots[t] = node[n].slots[t]
  BY <1>2, <1>3, SlotEmptied
<1>5. Types'
  BY <1>1, <1>4 DEF StructInv, Types, retired
<1>6. \A m \in live : \A s \in Slots :
        node'[m].slots[s] = node[m].slots[s] \/ (m = n /\ s = o /\ node'[m].slots[s] = NULL)
  BY <1>2, <1>4
<1>7. SlotsOK'
  <2> SUFFICES ASSUME NEW m \in live, NEW s \in Slots
               PROVE  SlotOK(m, s)'
    BY DEF SlotsOK
  <2>1. SlotOK(m, s)
    BY DEF StructInv, SlotsOK
  <2>2. CASE node'[m].slots[s] = NULL
    BY <2>2 DEF SlotOK
  <2>3. CASE node'[m].slots[s] = node[m].slots[s]
    BY <1>2, <1>4, <2>1, <2>3 DEF SlotOK
  <2> QED
    BY <1>6, <2>2, <2>3
<1>8. RootOK'
  BY <1>4 DEF StructInv, RootOK
<1>9. Shaped'
  BY <1>1, <1>2, <1>4 DEF StructInv, Shaped
<1>10. ASSUME NEW m \in live, NEW k \in Keys, Under(m, k)
       PROVE  /\ k # i => node'[m].slots[Offset(k, m[1])] = node[m].slots[Offset(k, m[1])]
              /\ k = i /\ m[1] = 0 => node'[m].slots[Offset(k, m[1])] = NULL
  <2>1. m \in NodeIds /\ k \in Nat /\ m[1] \in 0 .. TopShift
    BY <1>2, NodeNames
  <2>2. Offset(k, m[1]) \in Slots
    BY <2>1, OffsetStep
  <2>3. CASE m # n
    <3>1. node'[m] = node[m]
      BY <1>4, <2>1, <2>3
    <3>2. ~(k = i /\ m[1] = 0)
      <4>1. k = i /\ m[1] = 0 => m[2] = n[2]
        BY <1>10 DEF Under
      <4> QED
        BY <2>3, <4>1 DEF StructInv, Unique
    <3> QED
      BY <3>1, <3>2
  <2>4. CASE m = n
    <3>1. k # i => Offset(k, 0) # o
      BY <1>2, <1>3, <1>10, <2>1, <2>4, LeafIndex
    <3> QED
      BY <1>3, <1>4, <2>2, <2>4, <3>1
  <2> QED
    BY <2>3, <2>4
<1>11. LeafExact'
  <2> SUFFICES ASSUME NEW m \in live, NEW k \in Keys, m[1] = 0, Under(m, k)
               PROVE  node'[m].slots[Offset(k, m[1])] = map'[k]
    BY DEF LeafExact, Entry
  <2>1. node[m].slots[Offset(k, m[1])] = map[k]
    BY DEF StructInv, MapInv, LeafExact, Entry
  <2> QED
    BY <1>1, <1>10, <2>1
<1>12. Absent'
  <2> SUFFICES ASSUME NEW m \in live, NEW k \in Keys, Under(m, k),
                      node'[m].slots[Offset(k, m[1])] = NULL
               PROVE  map'[k] = NULL
    BY DEF Absent, Entry
  <2>1. CASE k = i
    BY <1>1, <2>1
  <2>2. CASE k # i
    <3>1. node[m].slots[Offset(k, m[1])] = NULL
      BY <1>10, <2>2
    <3>2. map[k] = NULL
      BY <3>1 DEF StructInv, MapInv, Absent, Entry
    <3> QED
      BY <1>1, <2>2, <3>2
  <2> QED
    BY <2>1, <2>2
<1>13. RootExact'
  <2>1. rnode \in NodeIds
    BY DEF StructInv, RootOK
  <2>2. \A k \in Keys : ~Under(rnode, k) => map[k] = NULL
    BY <2>1 DEF StructInv, MapInv, RootExact
  <2>3. \A k \in Keys : ~Under(rnode, k) => map'[k] = NULL
    BY <1>1, <2>2
  <2> QED
    BY <1>4, <2>1, <2>3 DEF RootExact
<1>14. GraceInv'
  BY <1>2 DEF GraceInv, RetiredOK, HeldByReadersOnly
<1>15. KeysOnly'
  <2>1. rnode \notin Items
    BY Kinds DEF StructInv, RootOK
  <2>2. \A m \in live : \A s \in Slots :
          node'[m].slots[s] # NULL => node'[m].slots[s] = node[m].slots[s]
    BY <1>6
  <2> QED
    BY <1>4, <2>1, <2>2 DEF StructInv, KeysOnly
<1>16. Unique'
  BY DEF StructInv, Unique
<1> QED
  BY <1>5, <1>7, <1>8, <1>9, <1>11, <1>12, <1>13, <1>14, <1>15, <1>16
  DEF StructInv, MapInv

\* item_kill_tree() frees the item it visits.
LEMMA IterKillStep ==
  ASSUME IterInv, NEW r \in Readers, IterKill(r)
  PROVE  IterInv'
<1>1. /\ it[r] \in IterRecs /\ JobOK(r) /\ AloneOK(r) /\ StructInv
      /\ \A k \in it[r].owed : map[k] # NULL
  BY Running
<1>2. PICK p \in IterRecs : p = it[r]
  BY <1>1
<1>3. /\ p.pc = "body" /\ p.job = "kill" /\ Store(node, p.node, p.index, NULL, 0)
      /\ Remember(p.index, NULL) /\ UNCHANGED <<live, failed, grace, wr, aborted>>
  BY <1>2 DEF IterKill
<1>4. \A s \in Readers : rd[s].pc = "idle" /\ (s # r => it[s].job \notin Alone)
  BY <1>1, <1>2, <1>3 DEF JobOK, Alone
<1>5. wr.pc = "idle"
  BY <1>1, <1>2, <1>3 DEF JobOK, Alone
<1>6. p.node = NULL => rnode \notin NodeIds
  BY <1>1, <1>2, <1>3 DEF AloneOK, Alone
<1>7. Visiting(p) /\ (p.node # NULL => p.node \in live)
  <2>1. PosOK(p, live)
    BY <1>1, <1>2, <1>4, NoSection DEF IterInv, StructInv
  <2> QED
    BY <1>3, <2>1 DEF PosOK
<1>8. /\ p.index \in Keys /\ p.last = p.index /\ \A k \in p.owed : k > p.index
      /\ p.node = NULL => p.index = 0 /\ p.next = 1
  BY <1>7 DEF Visiting
<1>9. /\ map'[p.index] = NULL /\ \A j \in Keys \ {p.index} : map'[j] = map[j]
      /\ \A s \in Readers : rd'[s].pc = "idle"
  BY <1>1, <1>3, <1>4, <1>8, ForgetAlone
<1>10. StructInv'
  <2>1. CASE p.node = NULL
    <3>1. rnode' = NULL /\ node' = node /\ Remember(0, NULL) /\ 0 \in Keys
      BY <1>3, <1>8, <2>1 DEF Store
    <3> QED
      BY <1>1, <1>3, <1>4, <1>6, <2>1, <3>1, KilledRoot
  <2>2. CASE p.node # NULL
    <3>1. p.node \in live /\ p.node[1] = 0 /\ Under(p.node, p.index)
      BY <1>7, <2>2, VisitedSlot
    <3> QED
      BY <1>1, <1>3, <1>4, <1>8, <3>1, KilledLeaf
  <2> QED
    BY <2>1, <2>2
<1>11. PICK q : q = [p EXCEPT !.pc = "next"]
  OBVIOUS
<1>12. /\ q \in IterRecs /\ q.pc = "next" /\ q.job = "kill" /\ q.index = p.index
       /\ q.next = p.next /\ q.node = p.node /\ q.offset = p.offset /\ q.last = p.last
       /\ q.owed = p.owed
  BY <1>3, <1>11 DEF IterRecs
<1>13. it \in [Readers -> IterRecs] /\ it' = [it EXCEPT ![r] = q]
  <2>1. it \in [Readers -> IterRecs]
    BY DEF IterInv, IterTypes
  <2> QED
    BY <1>2, <1>11, <2>1 DEF IterKill
<1>14. it'[r] = q /\ \A s \in Readers : s # r => it'[s] = it[s]
  BY <1>13
<1>15. TreeOK'
  BY <1>10, <1>12, <1>14 DEF TreeOK, Killing
<1>16. JobOK(r)'
  BY <1>3, <1>4, <1>5, <1>9, <1>12, <1>14 DEF JobOK, Alone
<1>17. AloneOK(r)'
  BY <1>12, <1>14 DEF AloneOK
<1>18. PosOK(q, live)
  <2>1. CASE p.node = NULL
    BY <1>8, <1>12, <2>1, RootNext
  <2>2. CASE p.node # NULL
    <3>1. Leaf(q) /\ q.node \in live
      BY <1>7, <1>12, <2>2 DEF Visiting, Leaf
    <3>2. q.last <= q.index /\ \A k \in q.owed : k > q.index
      BY <1>8, <1>12, Kinds DEF IterRecs
    <3> QED
      BY <1>12, <3>1, <3>2, LeafNext
  <2> QED
    BY <2>1, <2>2
<1>19. PositionOK(r)'
  <2>1. \A k \in q.owed : map'[k] # NULL
    <3> SUFFICES ASSUME NEW k \in p.owed
                 PROVE  map'[k] # NULL
      BY <1>12
    <3>1. k \in Keys /\ k \in 0 .. ULONG - 1 /\ p.index \in 0 .. ULONG - 1 /\ k > p.index
      BY <1>8, Kinds DEF IterRecs
    <3>2. k # p.index
      BY <3>1, Kinds
    <3> QED
      BY <1>1, <1>2, <1>9, <3>1, <3>2
  <2>2. live' \cup {} = live /\ {} \in SUBSET retired'
    BY <1>3
  <2>3. PosOK(q, live' \cup {})
    BY <1>18, <2>2
  <2> QED
    BY <1>14, <2>1, <2>2, <2>3 DEF PositionOK, Stays, Still
<1>20. ASSUME NEW s \in Readers \ {r}
       PROVE  it[s].job \notin Alone /\ rd'[s].pc = rd[s].pc /\ PositionOK(s)'
  <2>1. it'[s] = it[s]
    BY <1>14
  <2>2. it[s].pc = "idle" /\ it[s].job = "each" /\ it[s].owed = {}
    BY <1>4 DEF IterInv, JobOK
  <2>3. PosOK(it[s], live' \cup {})
    BY <2>2 DEF PosOK
  <2>4. PositionOK(s)'
    BY <2>1, <2>2, <2>3 DEF PositionOK, Stays, Still
  <2> QED
    BY <1>4, <1>9, <2>4
<1>21. aborted' \in BOOLEAN
  BY <1>3 DEF IterInv, IterTypes
<1> QED
  BY <1>12, <1>13, <1>15, <1>16, <1>17, <1>19, <1>20, <1>21, OwnStep

\* Nothing happens.
LEMMA IterStutter ==
  ASSUME IterInv, DeleteAbsent = FALSE, UNCHANGED iterVars
  PROVE  IterInv'
<1>1. UNCHANGED <<rnode, node, live, grace, wr, rd, smashed, map, failed>>
  BY DEF iterVars, vars
<1>2. it' = it /\ aborted' = aborted
  BY DEF iterVars
<1>3. retired' = retired
  BY <1>1 DEF retired
<1>4. StructInv'
  <2>1. wr' \in WriterRecs /\ rd' \in [Readers -> ReaderRecs] /\ Awaited \subseteq Awaited'
    BY <1>1 DEF IterInv, TreeOK, StructInv, Types, Awaited
  <2>2. StructInv
    BY DEF IterInv, TreeOK
  <2> QED
    BY <1>1, <2>1, <2>2, StructSame
<1>5. TreeOK'
  <2>1. ASSUME RadixInv
        PROVE  RadixInv'
    <3>1. [Next]_vars
      BY DEF iterVars
    <3> QED
      BY <2>1, <3>1, NextInv
  <2>2. Killing' <=> Killing
    BY <1>2 DEF Killing
  <2> QED
    BY <1>2, <1>4, <2>1, <2>2 DEF IterInv, TreeOK
<1>6. ASSUME NEW r \in Readers
      PROVE  JobOK(r)' /\ PositionOK(r)' /\ AloneOK(r)'
  <2>1. JobOK(r) /\ PositionOK(r) /\ AloneOK(r)
    BY DEF IterInv
  <2>2. JobOK(r)' /\ AloneOK(r)'
    BY <1>1, <1>2, <2>1 DEF JobOK, AloneOK, Gone
  <2>3. PositionOK(r)'
    <3>1. PICK p : p = it[r]
      OBVIOUS
    <3>2. PICK S \in SUBSET retired : Stays(r, S) /\ Still(p, S) /\ PosOK(p, live \cup S)
      BY <2>1, <3>1 DEF PositionOK
    <3>3. S \in SUBSET retired' /\ Stays(r, S)' /\ it'[r] = p
      BY <1>1, <1>2, <1>3, <3>1, <3>2 DEF Stays
    <3>4. \A n \in S : \A k \in p.owed : Under(n, k) => Entry(n, k)' # NULL
      BY <1>1, <3>2 DEF Still, Entry
    <3>5. PosOK(p, live' \cup S)
      BY <1>1, <3>2
    <3>6. \A k \in p.owed : map'[k] # NULL
      BY <1>1, <2>1, <3>1 DEF PositionOK
    <3> QED
      BY <3>3, <3>4, <3>5, <3>6 DEF PositionOK, Still
  <2> QED
    BY <2>2, <2>3
<1> QED
  BY <1>2, <1>5, <1>6 DEF IterInv, IterTypes

\* A new tree, and nobody iterates.
LEMMA IterInitInv ==
  ASSUME IterInit
  PROVE  IterInv
<1>1. RadixInv
  BY InitInv DEF IterInit
<1>2. KeysOnly
  <2>1. rnode \in NodeIds
    <3>1. live = {rnode} /\ live \subseteq NodeIds
      BY <1>1 DEF IterInit, Init, RadixInv, Types
    <3> QED
      BY <3>1
  <2>2. rnode \notin Items
    BY <2>1, Kinds
  <2>3. \A n \in NodeIds : \A s \in Slots : node[n].slots[s] = NULL
    BY DEF IterInit, Init, Blank
  <2>4. live \subseteq NodeIds
    BY <1>1 DEF RadixInv, Types
  <2> QED
    BY <2>2, <2>3, <2>4 DEF KeysOnly
<1>3. TreeOK
  BY <1>1, <1>2 DEF TreeOK, RadixInv, TreeInv, StructInv
<1>4. IterTypes
  BY IdleIterator DEF IterInit, IterTypes
<1>5. ASSUME NEW r \in Readers
      PROVE  JobOK(r) /\ PositionOK(r) /\ AloneOK(r)
  <2>1. it[r] = IterIdle /\ rd[r].pc = "idle"
    BY DEF IterInit, Init, ReaderIdle
  <2>2. it[r].pc = "idle" /\ it[r].job = "each" /\ it[r].owed = {}
    BY <2>1, IdleIterator
  <2>3. JobOK(r) /\ AloneOK(r)
    BY <2>1, <2>2 DEF JobOK, AloneOK, Alone
  <2>4. PosOK(it[r], live \cup {}) /\ {} \in SUBSET retired
    BY <2>1, IdleIterator
  <2>5. PositionOK(r)
    BY <2>2, <2>4 DEF PositionOK, Stays, Still
  <2> QED
    BY <2>3, <2>5
<1> QED
  BY <1>3, <1>4, <1>5 DEF IterInv

\* Every step keeps the invariant.
LEMMA IterNextInv ==
  ASSUME IterInv, DeleteAbsent = FALSE, [IterNext]_iterVars
  PROVE  IterInv'
<1>1. CASE UNCHANGED iterVars
  BY <1>1, IterStutter
<1>2. CASE IterNext
  <2>1. ~aborted
    BY <1>2 DEF IterNext
  <2>2. CASE WriterTurn
    BY <2>1, <2>2, WriterTurnStep
  <2>3. ASSUME NEW r \in Readers, NEW job \in {"each", "lookup", "delete", "kill"},
               NEW start \in Starts, IterStart(r, job, start)
        PROVE  IterInv'
    BY <2>1, <2>3, IterStartStep
  <2>4. ASSUME NEW r \in Readers, IterStep(r)
        PROVE  IterInv'
    <3>1. CASE IterSearch(r)
      BY <3>1, IterSearchStep
    <3>2. CASE IterLook(r)
      BY <3>2, IterLookStep
    <3>3. CASE IterRetry(r)
      BY <3>3, IterRetryStep
    <3>4. CASE IterResume(r)
      BY <2>1, <3>4, IterResumeStep
    <3>5. CASE IterBreak(r)
      BY <2>1, <3>5, IterLeaveStep
    <3>6. CASE IterDelete(r)
      BY <2>1, <3>6, IterDeleteStep
    <3>7. CASE IterDeleted(r)
      BY <3>7, IterDeletedStep
    <3>8. CASE IterKill(r)
      BY <3>8, IterKillStep
    <3>9. CASE IterEnd(r) /\ it[r].job # "kill"
      BY <2>1, <3>9, IterLeaveStep
    <3>10. CASE IterEnd(r) /\ it[r].job = "kill"
      BY <3>10, IterKilledStep
    <3> QED
      BY <2>4, <3>1, <3>2, <3>3, <3>4, <3>5, <3>6, <3>7, <3>8, <3>9, <3>10 DEF IterStep
  <2> QED
    BY <1>2, <2>2, <2>3, <2>4 DEF IterNext
<1> QED
  BY <1>1, <1>2

----------------------------------------------------------------------------
(* The theorems.  Like those of RadixTree they are about programs that     *)
(* delete only what is there.                                              *)

\* IterInv holds in every reachable state: where each iterator may be, what
\* it still owes and which loops have the tree to themselves.
THEOREM IterInvTheorem ==
  ASSUME DeleteAbsent = FALSE
  PROVE  IterSpec => []IterInv
<1>1. IterInit => IterInv
  BY IterInitInv
<1>2. IterInv /\ [IterNext]_iterVars => IterInv'
  BY IterNextInv
<1> QED
  BY <1>1, <1>2, PTL DEF IterSpec

\* radix_tree_for_each_slot() visits every index from its start that is
\* present from its beginning to its end, whatever the writer extends, prunes
\* and shrinks meanwhile, and also when the loop deletes what it visits.
THEOREM NothingSkippedTheorem ==
  ASSUME DeleteAbsent = FALSE
  PROVE  IterSpec => []NothingSkipped
<1>1. ASSUME IterInv
      PROVE  NothingSkipped
  <2> SUFFICES ASSUME NEW r \in Readers
               PROVE  /\ it[r].pc = "body" => \A k \in it[r].owed : k > it[r].index
                      /\ it[r].pc = "done" => it[r].owed = {}
    BY DEF NothingSkipped
  <2>1. PICK N : PosOK(it[r], N)
    BY <1>1 DEF IterInv, PositionOK
  <2> QED
    BY <2>1 DEF PosOK, Visiting
<1> QED
  BY <1>1, IterInvTheorem, PTL

\* No iterator loads from a node that was given back to the allocator.
THEOREM LiveNodeTheorem ==
  ASSUME DeleteAbsent = FALSE
  PROVE  IterSpec => []IteratorInLiveNode
<1>1. ASSUME IterInv
      PROVE  IteratorInLiveNode
  <2> SUFFICES ASSUME NEW r \in Readers
               PROVE  /\ it[r].pc = "descend" => it[r].child \notin free
                      /\ \/ it[r].pc \in {"hole", "reload", "body"}
                         \/ it[r].pc = "next" /\ radix_tree_chunk_size(it[r]) > 1
                         => it[r].node \notin free
    BY DEF IteratorInLiveNode
  <2>1. PICK S \in SUBSET retired : PosOK(it[r], live \cup S)
    BY <1>1 DEF IterInv, PositionOK
  <2>2. NULL \notin free /\ \A n \in live \cup S : n \notin free
    BY Kinds DEF free
  <2> QED
    BY <2>1, <2>2 DEF PosOK
<1> QED
  BY <1>1, IterInvTheorem, PTL

\* A step that visits an index: which one, and that it has an item.
Visits(r) ==
  it'[r].pc = "body" /\ it[r].pc # "body" =>
    /\ it'[r].index > it[r].last
    /\ map[it'[r].index] # NULL
    /\ it[r].job = "lookup" => it'[r].index = it[r].last + 1

\* A step of the search visits an index that comes after the last one.
LEMMA SearchVisitsNext ==
  ASSUME IterInv, NEW r \in Readers, IterSearch(r)
  PROVE  Visits(r)
<1>1. it[r] \in IterRecs /\ AloneOK(r) /\ JobOK(r)
  BY Running
<1>2. PICK S \in SUBSET retired :
        PosOK(it[r], live \cup S) /\ Ground(live \cup S, it[r].owed)
  BY Running
<1>3. PICK p \in IterRecs : p = it[r]
  BY <1>1
<1>4. PICK N : N = live \cup S
  OBVIOUS
<1>5. p.pc \in SearchPcs
  BY <1>3 DEF IterSearch, SearchPcs
<1>6. PICK q : q = Searched(p)
  OBVIOUS
<1>7. Stepped(p, q, N)
  <2>1. Ground(N, p.owed) /\ PosOK(p, N)
    BY <1>2, <1>3, <1>4
  <2> QED
    BY <1>5, <1>6, <2>1, SearchStep
<1>8. it'[r] = q
  <2>1. it \in [Readers -> IterRecs]
    BY DEF IterInv, IterTypes
  <2> QED
    BY <1>3, <1>6, <2>1 DEF IterSearch
<1>9. ASSUME q.pc = "body"
      PROVE  /\ q.index > p.last
             /\ map[q.index] # NULL
             /\ p.job = "lookup" => q.index = p.last + 1
  <2>1. /\ Rising(p, q.index) /\ map[q.index] # NULL
        /\ p.job = "lookup" => q.index = p.last + 1
        /\ q.index \in Keys
    BY <1>7, <1>9 DEF Stepped, PosOK, Visiting
  <2>2. ~(p.job = "delete" /\ p.owed = {})
    <3>1. p.pc \notin {"body", "deleting"}
      BY <1>5 DEF SearchPcs
    <3>2. p.job = "delete" => \A k \in Keys : map[k] # NULL => k \in p.owed
      BY <1>1, <1>3, <3>1 DEF AloneOK
    <3> QED
      BY <2>1, <3>2
  <2>3. q.index > p.last
    BY <2>1, <2>2 DEF Rising
  <2> QED
    BY <2>1, <2>3
<1> QED
  BY <1>3, <1>8, <1>9 DEF Visits

\* No other step visits anything.
LEMMA VisitsNext ==
  ASSUME IterInv, [IterNext]_iterVars, NEW r \in Readers
  PROVE  Visits(r)
<1>0. it \in [Readers -> IterRecs]
  BY DEF IterInv, IterTypes
<1>1. CASE UNCHANGED iterVars
  BY <1>1 DEF iterVars, Visits
<1>2. CASE WriterTurn
  <2>1. it'[r] = [it[r] EXCEPT !.owed = {k \in @ : map'[k] # NULL}]
    BY <1>2 DEF WriterTurn
  <2>2. it[r] \in IterRecs
    BY <1>0
  <2>3. it'[r].pc = it[r].pc
    BY <2>1, <2>2 DEF IterRecs
  <2> QED
    BY <2>3 DEF Visits
<1>3. ASSUME NEW s \in Readers, it'[s].pc # "body", r # s => it'[r] = it[r]
      PROVE  Visits(r)
  BY <1>3 DEF Visits
<1>4. ASSUME NEW s \in Readers, NEW job \in {"each", "lookup", "delete", "kill"},
             NEW start \in Starts, IterStart(s, job, start)
      PROVE  Visits(r)
  <2>1. PICK y : y = [IterIdle EXCEPT !.job = job, !.last = start - 1,
                        !.owed = IF job = "lookup" THEN Present \cap {start}
                                 ELSE {k \in Present : k >= start}]
    OBVIOUS
  <2>2. it' = [it EXCEPT ![s] = radix_tree_iter_init(y, start)]
    BY <1>4, <2>1 DEF IterStart
  <2>3. radix_tree_iter_init(y, start).pc = "chunk"
    BY <2>1 DEF radix_tree_iter_init, IterIdle
  <2> QED
    BY <1>0, <1>3, <2>2, <2>3
<1>5. ASSUME NEW s \in Readers, IterSearch(s)
      PROVE  Visits(r)
  <2>1. CASE r = s
    BY <1>5, <2>1, SearchVisitsNext
  <2>2. CASE r # s
    BY <1>0, <1>5, <2>2 DEF IterSearch, Visits
  <2> QED
    BY <2>1, <2>2
<1>6. ASSUME NEW s \in Readers, IterLook(s) \/ IterRetry(s) \/ IterResume(s) \/ IterKill(s)
      PROVE  Visits(r)
  <2>1. it'[s].pc = "next" /\ (r # s => it'[r] = it[r])
    BY <1>0, <1>6 DEF IterLook, IterRetry, IterResume, IterKill, IterRecs
  <2> QED
    BY <1>3, <2>1
<1>7. ASSUME NEW s \in Readers, IterBreak(s) \/ IterEnd(s)
      PROVE  Visits(r)
  <2>1. it' = [it EXCEPT ![s] = IterIdle]
    BY <1>7 DEF IterBreak, IterEnd
  <2> QED
    BY <1>0, <1>3, <2>1, IdleIterator
<1>8. ASSUME NEW s \in Readers, IterDelete(s)
      PROVE  Visits(r)
  <2>1. it'[s].pc = "deleting" /\ (r # s => it'[r] = it[r])
    BY <1>0, <1>8 DEF IterDelete, IterRecs
  <2> QED
    BY <1>3, <2>1
<1>9. ASSUME NEW s \in Readers, IterDeleted(s)
      PROVE  Visits(r)
  <2>1. PICK x : x = AfterDelete(it[s])
    OBVIOUS
  <2>2. x \in IterRecs
    <3>1. PICK p \in IterRecs : p = it[s]
      BY <1>0
    <3>2. p.next \in 0 .. ULONG - 1
      BY DEF IterRecs
    <3> QED
      BY <2>1, <3>1, <3>2 DEF AfterDelete, IterRecs
  <2>3. it' = [it EXCEPT ![s] = [x EXCEPT !.pc = "next", !.nodes = {}]]
    BY <1>0, <1>9, <2>1 DEF IterDeleted
  <2>4. it'[s].pc = "next" /\ (r # s => it'[r] = it[r])
    BY <1>0, <2>2, <2>3 DEF IterRecs
  <2> QED
    BY <1>3, <2>4
<1> QED
  BY <1>1, <1>2, <1>4, <1>5, <1>6, <1>7, <1>8, <1>9 DEF IterNext, IterStep

\* Visits are in strictly ascending order, so that none is repeated and ~0UL is
\* the last one unless radix_tree_iter_resume() starts over there, and the index
\* visited has an item when its slot is read.
THEOREM AscendingTheorem ==
  ASSUME DeleteAbsent = FALSE
  PROVE  IterSpec => AscendingAndPresent
<1>1. ASSUME IterInv, [IterNext]_iterVars
      PROVE  [\A r \in Readers :
                it'[r].pc = "body" /\ it[r].pc # "body" =>
                  /\ it'[r].index > it[r].last
                  /\ map[it'[r].index] # NULL
                  /\ it[r].job = "lookup" => it'[r].index = it[r].last + 1]_iterVars
  BY <1>1, VisitsNext DEF Visits
<1>2. IterInv /\ [IterNext]_iterVars =>
        [\A r \in Readers :
           it'[r].pc = "body" /\ it[r].pc # "body" =>
             /\ it'[r].index > it[r].last
             /\ map[it'[r].index] # NULL
             /\ it[r].job = "lookup" => it'[r].index = it[r].last + 1]_iterVars
  BY <1>1
<1> QED
  BY <1>2, IterInvTheorem, PTL DEF IterSpec, AscendingAndPresent
=============================================================================
