----------------------------- MODULE RadixTree -----------------------------
(***************************************************************************)
(* radix_tree/radix-tree.c: a tree of nodes of MAP_SIZE slots that maps an *)
(* unsigned long to an item.  One writer inserts, deletes and replaces;    *)
(* readers look up concurrently inside RCU read-side critical sections.    *)
(* A step of the writer ends with one store readers can see (rnode or a    *)
(* slot); the fields only the writer reads (count, parent, offset) change  *)
(* in the same step.  A reader makes one load per step.                    *)
(*                                                                         *)
(* A shift is counted in units of RADIX_TREE_MAP_SHIFT bits, so a node of  *)
(* shift 0 is a leaf.  Freed nodes wait for a grace period (liburcu).      *)
(* Tags, nr_values and root->height are written but never read.            *)
(***************************************************************************)
EXTENDS Integers, FiniteSets, FiniteSetsExt

CONSTANTS MAP_SIZE,  \* RADIX_TREE_MAP_SIZE, 64 in the source
          ULONG,     \* 2^64 in the source: values of an unsigned long
          UINT,      \* 2^32 in the source: values of node->count
          TopShift,  \* shift of the highest root there can be, 10 in the source
          Keys,      \* indices the clients use
          Items,     \* data pointers the clients store
          Readers,
          Copies,    \* bound: nodes of one place of the tree, the one in the
                     \* tree and the unlinked ones not yet reclaimed
          MaxRetired, \* bound: no delete starts while more unlinked nodes wait
          NULL,
          DeleteAbsent \* whether the writer deletes an index that is not
                       \* present; the programs of the repository do not

\* calloc may return any free address.  Naming nodes by the place in the tree
\* they are made for, and a number, keeps equal trees equal.
NodeIds ==
  UNION {{s} \X (0 .. (ULONG - 1) \div MAP_SIZE^(s + 1)) \X (1 .. Copies) :
           s \in 0 .. TopShift}
Slots == 0 .. MAP_SIZE - 1

ASSUME RadixTreeAssumption ==
  /\ MAP_SIZE \in Nat \ {0, 1} /\ TopShift \in Nat /\ Copies \in Nat \ {0}
  /\ MaxRetired \in Nat
  /\ ULONG \in Nat /\ MAP_SIZE^TopShift < ULONG
  /\ MAP_SIZE^(TopShift + 1) % ULONG = 0
  /\ UINT \in Nat /\ MAP_SIZE < UINT
  /\ Keys \subseteq 0 .. ULONG - 1
  /\ Items \cap NodeIds = {} /\ NULL \notin Items \cup NodeIds
  /\ DeleteAbsent \in BOOLEAN

\* What ^ means and that it grows, which the provers do not know.
ASSUME PowerAssumption ==
  /\ MAP_SIZE^0 = 1
  /\ \A s \in 0 .. TopShift :
       /\ MAP_SIZE^s \in Nat /\ 0 < MAP_SIZE^s /\ MAP_SIZE^s < ULONG
       /\ MAP_SIZE^(s + 1) = MAP_SIZE * MAP_SIZE^s

VARIABLES rnode,    \* root->rnode: NULL, a node or, for index 0, an item
          node,     \* node id -> struct radix_tree_node
          live,     \* nodes allocated and not handed to call_rcu
          grace,    \* node handed to call_rcu -> readers it waits for
          wr,       \* the writer's locals
          rd,       \* each reader's locals
          smashed,  \* whether the item at index 0 was written to as a node
          map,      \* history: what the completed stores put at each index
          failed    \* history: calloc failed since the tree was last empty

vars == <<rnode, node, live, grace, wr, rd, smashed, map, failed>>

Entries == NodeIds \cup Items \cup {NULL}
retired == DOMAIN grace
IsNode(entry) == entry \in NodeIds     \* radix_tree_is_internal_node

Blank == [shift |-> 0, offset |-> 0, count |-> 0, parent |-> NULL,
          slots |-> [s \in Slots |-> NULL]]

WriterIdle == [pc |-> "idle", index |-> 0, item |-> NULL, node |-> NULL,
               child |-> NULL, shift |-> 0, top |-> 0]
ReaderIdle == [pc |-> "idle", index |-> 0, node |-> NULL, child |-> NULL,
               seen |-> {}]

\* radix_tree_root_alloc: the tree starts with one empty leaf.
Init ==
  /\ rnode = <<0, 0, 1>>
  /\ node = [n \in NodeIds |-> Blank]
  /\ live = {<<0, 0, 1>>}
  /\ grace = [n \in {} |-> {}]
  /\ wr = WriterIdle
  /\ rd = [r \in Readers |-> ReaderIdle]
  /\ smashed = FALSE
  /\ map = [i \in Keys |-> NULL]
  /\ failed = FALSE
----------------------------------------------------------------------------
(* Indices and slots.                                                      *)

\* shift_maxindex; at the highest shift the product wraps to 0.
shift_maxindex(shift) == (((MAP_SIZE * MAP_SIZE^shift) % ULONG) - 1) % ULONG

\* radix_tree_descend: the slot of a node of this shift index belongs in.
Offset(index, shift) == (index \div MAP_SIZE^shift) % MAP_SIZE

\* radix_tree_descend: what that slot of node n holds.
Below(n, index) == node[n].slots[Offset(index, node[n].shift)]

\* radix_tree_load_root: the largest index the tree has room for.
RootMax == IF IsNode(rnode) THEN shift_maxindex(node[rnode].shift) ELSE 0

\* radix_tree_load_root: the shift a parent of the root would have.
RootShift == IF IsNode(rnode) THEN node[rnode].shift + 1 ELSE 0

\* radix_tree_extend: the shift the root needs to have room for index.
ShiftFor(index, shift) ==
  Min({s \in shift .. TopShift : index <= shift_maxindex(s)})

\* Store entry in the slot of index in node n, or in rnode, and add to the
\* count of n; function nodes is the heap before the store.
Store(nodes, n, index, entry, add) ==
  IF n = NULL
  THEN rnode' = entry /\ node' = nodes
  ELSE /\ node' = [nodes EXCEPT
                     ![n].slots[Offset(index, nodes[n].shift)] = entry,
                     ![n].count = (@ + add) % UINT]
       /\ UNCHANGED rnode

\* History: index now maps to item, and every reader looking it up may
\* return item.  An item overwritten while it was the root leaves the tree.
Remember(index, item) ==
  /\ map' = [map EXCEPT ![index] = item]
  /\ smashed' = (smashed /\ index # 0)
  /\ rd' = [r \in Readers |->
              IF rd[r].pc # "idle" /\ rd[r].index = index
              THEN [rd[r] EXCEPT !.seen = @ \cup {item}] ELSE rd[r]]

Return == wr' = WriterIdle
----------------------------------------------------------------------------
(* liburcu.                                                                *)

\* Mutant of Awaited: the node is freed without waiting.
Awaited_Nobody == {}

\* call_rcu: the callback waits for every reader now in a critical section.
Awaited == {r \in Readers : rd[r].pc # "idle"}

\* radix_tree_node_rcu_free: the slots are cleared and the memory given back.
Cleared(nodes, gone) ==
  [n \in NodeIds |-> IF n \in gone THEN Blank ELSE nodes[n]]

\* radix_tree_node_free; nodes is the heap after the caller's own stores.
\* Nobody can reach a node whose grace period is over, so the callback runs
\* as soon as it may.
Retire(nodes, n) ==
  /\ live' = live \ {n}
  /\ IF Awaited = {}
     THEN node' = Cleared(nodes, {n}) /\ UNCHANGED grace
     ELSE /\ node' = nodes
          /\ grace' = [m \in retired \cup {n} |->
                         IF m = n THEN Awaited ELSE grace[m]]

\* rcu_read_unlock: no callback waits for r any longer.
Released(r) == [n \in retired |-> grace[n] \ {r}]

\* The grace periods that ended only waited for r.
LeaveSection(r) ==
  LET over == {n \in retired : Released(r)[n] = {}} IN
  /\ grace' = [n \in retired \ over |-> Released(r)[n]]
  /\ node' = Cleared(node, over)
----------------------------------------------------------------------------
(* radix_tree_insert.                                                      *)

free == NodeIds \ (live \cup retired)

\* What calloc may return for a node of this shift on the path of index; the
\* bound Copies makes it empty.
Fresh(shift, index) ==
  LET copies == {c \in 1 .. Copies :
                   <<shift, index \div MAP_SIZE^(shift + 1), c>> \in free}
  IN  IF copies = {} THEN {}
      ELSE {<<shift, index \div MAP_SIZE^(shift + 1), Min(copies)>>}

\* calloc returns NULL: -ENOMEM, and what was built so far stays.
NoMemory ==
  /\ Return
  /\ failed' = TRUE
  /\ UNCHANGED <<rnode, node, live, grace, rd, smashed, map>>

\* __radix_tree_create loads the root and decides whether the tree is high
\* enough; an empty tree is extended without a node.
Insert(index, item) ==
  /\ wr.pc = "idle"
  /\ wr' = [WriterIdle EXCEPT
              !.pc = IF index > RootMax /\ rnode # NULL THEN "extend"
                                                        ELSE "create",
              !.index = index,
              !.item = item,
              !.child = rnode,
              !.shift = IF index > RootMax /\ rnode = NULL
                        THEN ShiftFor(index, 0) + 1 ELSE RootShift,
              !.top = IF index > RootMax /\ rnode # NULL
                      THEN ShiftFor(index, RootShift) ELSE 0]
  /\ UNCHANGED <<rnode, node, live, grace, rd, smashed, map, failed>>

\* Mutant of NewRoot: the old root is forgotten.
NewRoot_Empty(shift, old) == [Blank EXCEPT !.shift = shift, !.count = 1]

\* radix_tree_extend: the node put above the old root.
NewRoot(shift, old) ==
  [Blank EXCEPT !.shift = shift, !.count = 1, !.slots[0] = old]

\* One turn of the loop of radix_tree_extend.  The old root's parent is set
\* even if the old root is an item.
ExtendNode ==
  \E n \in Fresh(wr.shift, 0) :
    /\ rnode' = n
    /\ live' = live \cup {n}
    /\ node' = [m \in NodeIds |->
                  IF m = n THEN NewRoot(wr.shift, rnode)
                  ELSE IF m = rnode THEN [node[m] EXCEPT !.parent = n]
                  ELSE node[m]]
    /\ smashed' = (smashed \/ ~IsNode(rnode))
    /\ wr' = IF wr.shift < wr.top
             THEN [wr EXCEPT !.shift = @ + 1]
             ELSE [wr EXCEPT !.pc = "create", !.shift = @ + 1, !.top = 0,
                             !.child = n]
    /\ UNCHANGED <<grace, rd, map, failed>>

Extend == wr.pc = "extend" /\ (ExtendNode \/ NoMemory)

\* One turn of the loop of __radix_tree_create where the child is missing.
CreateChild ==
  \E n \in Fresh(wr.shift - 1, wr.index) :
    LET new == [Blank EXCEPT
                  !.shift = wr.shift - 1,
                  !.parent = wr.node,
                  !.offset = IF wr.node = NULL THEN 0
                             ELSE Offset(wr.index, node[wr.node].shift)]
    IN /\ Store([node EXCEPT ![n] = new], wr.node, wr.index, n, 1)
       /\ live' = live \cup {n}
       /\ wr' = [wr EXCEPT !.node = n, !.child = NULL, !.shift = @ - 1]
       /\ UNCHANGED <<grace, rd, smashed, map, failed>>

\* One turn of the loop where the child is there.
FollowChild ==
  /\ wr' = [wr EXCEPT !.node = wr.child, !.child = Below(wr.child, wr.index),
                      !.shift = @ - 1]
  /\ UNCHANGED <<rnode, node, live, grace, rd, smashed, map, failed>>

Create ==
  /\ wr.pc = "create" /\ wr.shift > 0
  /\ \/ wr.child = NULL /\ (CreateChild \/ NoMemory)
     \/ wr.child # NULL /\ FollowChild

\* insert_entries: -EEXIST if the slot is taken.
InsertEntry ==
  /\ wr.pc = "create" /\ wr.shift = 0
  /\ Return
  /\ IF wr.child # NULL
     THEN UNCHANGED <<rnode, node, rd, smashed, map>>
     ELSE /\ Store(node, wr.node, wr.index, wr.item, 1)
          /\ Remember(wr.index, wr.item)
  /\ UNCHANGED <<live, grace, failed>>
----------------------------------------------------------------------------
(* __radix_tree_lookup, by the writer (on behalf of radix_tree_delete_item *)
(* and radix_tree_lookup_slot) and by the readers.                         *)

\* One turn of the loop: the caller's locals p after loading slot next of
\* its node p.child.
Deeper(p, next) ==
  [p EXCEPT !.node = p.child, !.child = next,
            !.pc = IF node[p.child].shift = 0 \/ ~IsNode(next)
                   THEN "done" ELSE @]

ReaderLookup(r, index) ==
  /\ rd[r].pc = "idle"
  /\ rd' = [rd EXCEPT ![r] =
              [pc |-> IF index <= RootMax /\ IsNode(rnode) THEN "descend"
                                                           ELSE "done",
               index |-> index,
               node |-> NULL,
               child |-> IF index <= RootMax THEN rnode ELSE NULL,
               seen |-> {map[index]}]]
  /\ UNCHANGED <<rnode, node, live, grace, wr, smashed, map, failed>>

ReaderDescend(r) ==
  /\ rd[r].pc = "descend"
  /\ rd' = [rd EXCEPT ![r] = Deeper(@, Below(@.child, @.index))]
  /\ UNCHANGED <<rnode, node, live, grace, wr, smashed, map, failed>>

\* radix_tree_lookup returns rd[r].child and the reader leaves its section.
ReaderReturn(r) ==
  /\ rd[r].pc = "done"
  /\ rd' = [rd EXCEPT ![r] = ReaderIdle]
  /\ LeaveSection(r)
  /\ UNCHANGED <<rnode, live, wr, smashed, map, failed>>

\* radix_tree_delete_item(index, item) with item = NULL for
\* radix_tree_delete; beyond RootMax there is no slot and it returns NULL.
Delete(index, item) ==
  /\ wr.pc = "idle"
  /\ Cardinality(retired) <= MaxRetired
  /\ DeleteAbsent \/ map[index] # NULL
  /\ index <= RootMax
  /\ wr' = [WriterIdle EXCEPT
              !.pc = IF IsNode(rnode) THEN "delete_find" ELSE "delete",
              !.index = index, !.item = item, !.child = rnode]
  /\ UNCHANGED <<rnode, node, live, grace, rd, smashed, map, failed>>

\* radix_tree_lookup_slot, for a radix_tree_replace_slot with item.
LookupSlot(index, item) ==
  /\ wr.pc = "idle"
  /\ index <= RootMax
  /\ wr' = [WriterIdle EXCEPT
              !.pc = IF IsNode(rnode) THEN "replace_find" ELSE "replace",
              !.index = index, !.item = item, !.child = rnode]
  /\ UNCHANGED <<rnode, node, live, grace, rd, smashed, map, failed>>

WriterDescend ==
  /\ wr.pc \in {"delete_find", "replace_find"}
  /\ LET p == Deeper(wr, Below(wr.child, wr.index)) IN
       wr' = IF p.pc # "done" THEN p
             ELSE [p EXCEPT !.pc = IF wr.pc = "delete_find" THEN "delete"
                                                            ELSE "replace"]
  /\ UNCHANGED <<rnode, node, live, grace, rd, smashed, map, failed>>

\* radix_tree_replace_slot: node is NULL, so no count changes; the caller
\* has no slot to pass if the lookup found nothing.
ReplaceSlot ==
  /\ wr.pc = "replace"
  /\ Return
  /\ IF wr.child = NULL
     THEN UNCHANGED <<rnode, node, rd, smashed, map>>
     ELSE /\ Store(node, wr.node, wr.index, wr.item, 0)
          /\ Remember(wr.index, wr.item)
  /\ UNCHANGED <<live, grace, failed>>
----------------------------------------------------------------------------
(* radix_tree_delete_item, once it has the slot.                           *)

\* The test of the expected item, then replace_slot; an entry that is not
\* there is deleted too.
DeleteEntry ==
  /\ wr.pc = "delete"
  /\ IF wr.item # NULL /\ wr.child # wr.item
     THEN Return /\ UNCHANGED <<rnode, node, rd, smashed, map>>
     ELSE /\ Store(node, wr.node, wr.index, NULL, -1)
          /\ Remember(wr.index, NULL)
          /\ wr' = IF wr.node = NULL THEN WriterIdle
                   ELSE [WriterIdle EXCEPT !.pc = "unlink", !.node = wr.node]
  /\ UNCHANGED <<live, grace, failed>>

\* Mutant of AfterUnlink: the tree keeps its height.
AfterUnlink_NoShrink(n) == WriterIdle

\* delete_node: n is not empty; only the root is shrunk.
AfterUnlink(n) ==
  IF n = rnode THEN [WriterIdle EXCEPT !.pc = "shrink"] ELSE WriterIdle

\* One turn of the loop of delete_node.
Unlink ==
  /\ wr.pc = "unlink"
  /\ LET n == wr.node
         p == node[n].parent
     IN  \/ /\ node[n].count # 0
            /\ wr' = AfterUnlink(n)
            /\ UNCHANGED <<rnode, node, live, grace, failed>>
         \/ /\ node[n].count = 0
            /\ IF p = NULL
               THEN rnode' = NULL /\ Retire(node, n) /\ failed' = FALSE
               ELSE /\ Retire([node EXCEPT
                                 ![p].slots[node[n].offset] = NULL,
                                 ![p].count = (@ - 1) % UINT], n)
                    /\ UNCHANGED <<rnode, failed>>
            /\ wr' = IF p = NULL THEN WriterIdle ELSE [wr EXCEPT !.node = p]
  /\ UNCHANGED <<rd, smashed, map>>

\* radix_tree_shrink: the root has one child, leftmost, and is no leaf.
CanShrink ==
  /\ IsNode(rnode)
  /\ node[rnode].count = 1
  /\ node[rnode].slots[0] # NULL
  /\ node[rnode].shift # 0

\* radix_tree_shrink: the child that becomes the root has no parent.
Orphaned(child) ==
  IF IsNode(child) THEN [node EXCEPT ![child].parent = NULL] ELSE node

\* Mutant of Discarded: the slots are cleared at once.
Discarded_Cleared(nodes, n) == [nodes EXCEPT ![n] = Blank]

\* radix_tree_shrink: the old root is left as it is for the readers in it.
Discarded(nodes, n) == [nodes EXCEPT ![n].count = 0]

\* One turn of the loop of radix_tree_shrink.
Shrink ==
  /\ wr.pc = "shrink"
  /\ IF CanShrink
     THEN LET child == node[rnode].slots[0] IN
          /\ rnode' = child
          /\ Retire(Discarded(Orphaned(child), rnode), rnode)
          /\ UNCHANGED wr
     ELSE Return /\ UNCHANGED <<rnode, node, live, grace>>
  /\ UNCHANGED <<rd, smashed, map, failed>>
----------------------------------------------------------------------------
WriterStep ==
  \/ Extend \/ Create \/ InsertEntry
  \/ WriterDescend \/ ReplaceSlot \/ DeleteEntry \/ Unlink \/ Shrink

ReaderStep(r) == ReaderDescend(r) \/ ReaderReturn(r)

Next ==
  \/ \E index \in Keys :
       \/ \E item \in Items : Insert(index, item) \/ LookupSlot(index, item)
       \/ \E item \in Items \cup {NULL} : Delete(index, item)
       \/ \E r \in Readers : ReaderLookup(r, index)
  \/ WriterStep
  \/ \E r \in Readers : ReaderStep(r)

Spec == Init /\ [][Next]_vars

----------------------------------------------------------------------------
(***************************************************************************)
(* Properties.                                                             *)
(***************************************************************************)

\* Every variable of the writer, the readers and the heap has its type.
TypeOK ==
  /\ rnode \in Entries
  /\ live \subseteq NodeIds
  /\ retired \subseteq NodeIds \ live
  /\ \A n \in retired : grace[n] \subseteq Readers
  /\ \A n \in NodeIds :
       /\ node[n].shift \in 0 .. TopShift
       /\ node[n].offset \in Slots
       /\ node[n].count \in 0 .. UINT - 1
       /\ node[n].parent \in NodeIds \cup {NULL}
       /\ node[n].slots \in [Slots -> Entries]
  /\ wr.index \in 0 .. ULONG - 1 /\ wr.item \in Items \cup {NULL}
  /\ wr.shift \in 0 .. TopShift + 1 /\ wr.top \in 0 .. TopShift
  /\ {wr.node, wr.child} \subseteq Entries
  /\ wr.pc \in {"idle", "extend", "create", "delete_find", "delete",
                "replace_find", "replace", "unlink", "shrink"}
  /\ \A r \in Readers :
       /\ rd[r].pc \in {"idle", "descend", "done"}
       /\ {rd[r].node, rd[r].child} \subseteq Entries
       /\ rd[r].seen \subseteq Items \cup {NULL}
  /\ smashed \in BOOLEAN /\ failed \in BOOLEAN
  /\ map \in [Keys -> Items \cup {NULL}]

\* What __radix_tree_lookup(index) returns if nobody interferes.
Find(index) ==
  LET walk[d \in 0 .. TopShift + 1] ==
        IF d = 0 THEN rnode
        ELSE IF IsNode(walk[d - 1]) THEN Below(walk[d - 1], index)
        ELSE walk[d - 1]
  IN  IF index > RootMax THEN NULL ELSE walk[TopShift + 1]

\* Between any two stores of an insert, a delete or a replace the tree maps
\* every index to exactly the item the finished stores put there: growing,
\* pruning and shrinking the tree are invisible.
MapExact == \A index \in Keys : Find(index) = map[index]

\* A lookup that runs while the writer extends, prunes or shrinks the tree
\* returns an item its index had at some moment of the lookup, or NULL if it
\* had none at some moment.
LookupLinearizable ==
  \A r \in Readers : rd[r].pc = "done" => rd[r].child \in rd[r].seen

\* Neither a reader nor the writer is about to load from a node that was
\* given back to the allocator.
NoUseAfterFree ==
  /\ \A r \in Readers : rd[r].pc = "descend" => rd[r].child \notin free
  /\ wr.pc # "idle" => {wr.node, wr.child} \cap free = {}

\* count is the number of slots in use, on which delete_node and
\* radix_tree_shrink decide what to free.
CountExact ==
  \A n \in live :
    node[n].count = Cardinality({s \in Slots : node[n].slots[s] # NULL})

\* Every allocated node hangs in the tree where its parent and offset say,
\* one level below its parent: nothing leaks, and delete_node climbs to the
\* slot that points at it.
Linked ==
  \A n \in live :
    LET p == node[n].parent IN
    IF p = NULL THEN rnode = n
    ELSE /\ p \in live
         /\ node[p].slots[node[n].offset] = n
         /\ node[p].shift = node[n].shift + 1

\* When no call is running the tree is of minimum height, unless an insert
\* ran out of memory: a root above the leaves has more than a leftmost child.
MinHeight ==
  ~failed /\ wr.pc = "idle" /\ IsNode(rnode) /\ node[rnode].shift > 0
    => \E s \in Slots \ {0} : node[rnode].slots[s] # NULL

\* A lookup goes one level down in every turn, also through nodes that were
\* unlinked under it and a tree that changes height, so it ends after at
\* most TopShift + 1 turns whatever the writer does.
LookupsGoDown ==
  \A r \in Readers :
    rd[r].pc = "descend" /\ rd[r].node # NULL
      => node[rd[r].child].shift = node[rd[r].node].shift - 1

\* An unlinked node is kept back only by readers that have been in their
\* critical section ever since, so the rcu_barrier that ends benchmark_size
\* waits for lookups alone.
HeldByReadersOnly ==
  \A n \in retired : grace[n] # {} /\ grace[n] \subseteq Awaited

\* The structure the calls rely on from one to the next, between any two
\* stores: exact counts, parents and offsets that lead back, minimum height
\* when no call runs, lookups that only go down and unlinked nodes held back
\* by readers alone.
TreeWellFormed ==
  TypeOK /\ CountExact /\ Linked /\ MinHeight /\ LookupsGoDown
    /\ HeldByReadersOnly

(***************************************************************************)
(* What comments and assertions say and the code does not do.              *)
(***************************************************************************)

\* radix_tree_delete: "Remove the entry at @index ... or %NULL if it was not
\* present".  Deleting an absent index decrements the count of a node.
DeleteRemovesOnlyIndex == MapExact

\* item_sanity: the item found under an index has that index.  Extending a
\* tree whose root is an item overwrites item->index with a node pointer.
ItemSanity == ~smashed
=============================================================================
