----------------------------- MODULE RadixIter -----------------------------
(***************************************************************************)
(* The iterator of radix_tree/radix-tree.c and .h over the tree of         *)
(* RadixTree: radix_tree_for_each_slot under the RCU lock while the writer *)
(* inserts, replaces and deletes, radix_tree_iter_lookup, _find, _retry    *)
(* and _resume, and the two loops that change the tree as they go and have *)
(* it to themselves: one that calls radix_tree_iter_delete on every slot,  *)
(* and item_kill_tree of test.c.                                           *)
(*                                                                         *)
(* Every step of an iterator makes one load of rnode or of a slot.  A slot *)
(* pointer is the node and the offset of the slot (node NULL for rnode).   *)
(***************************************************************************)
EXTENDS RadixTree

CONSTANT Starts     \* indices iterations start from

ASSUME StartsAssumption == Starts \subseteq 0 .. ULONG - 1

\* A node below the highest level covers a part of the indices that divides
\* 2^64, and a leaf is not all there can be.
ASSUME WidthAssumption ==
  TopShift > 0 /\ \A s \in 0 .. TopShift : ULONG % MAP_SIZE^s = 0

VARIABLES it,       \* each reader's struct radix_tree_iter and locals
          aborted   \* whether the assertion of item_kill_tree failed

iterVars == <<vars, it, aborted>>

\* index, next and node are the fields of the iterator; child, offset and i
\* (index) are locals of radix_tree_next_chunk.  History: last is the index
\* visited last, owed the indices present ever since the start and not yet
\* visited, nodes the nodes there were when radix_tree_iter_delete began.
IterIdle == [pc |-> "idle", job |-> "each", index |-> 0, next |-> 0,
             node |-> NULL, child |-> NULL, offset |-> 0, i |-> 0,
             last |-> 0, owed |-> {}, nodes |-> {}]

IterInit ==
  /\ Init
  /\ it = [r \in Readers |-> IterIdle]
  /\ aborted = FALSE

\* A loop that changes the tree runs: nobody else may.
Exclusive == \E r \in Readers : it[r].job \in {"delete", "kill"}
Present == {k \in Keys : map[k] # NULL}
TreeUnchanged == UNCHANGED <<rnode, node, live, smashed, map, failed>>

radix_tree_iter_init(p, start) ==
  [p EXCEPT !.index = 0, !.next = start, !.pc = "chunk"]

\* The start of a loop, or of radix_tree_iter_lookup; radix_tree_iter_find
\* is a loop left at its first visit.  Loops that change the tree take no
\* RCU lock.
IterStart(r, job, start) ==
  /\ rd[r].pc = "idle" /\ it[r].pc = "idle" /\ ~Exclusive
  /\ job \in {"delete", "kill"} =>
       wr.pc = "idle" /\ start = 0 /\ \A q \in Readers : rd[q].pc = "idle"
  /\ it' = [it EXCEPT ![r] =
              radix_tree_iter_init(
                [IterIdle EXCEPT
                   !.job = job, !.last = start - 1,
                   !.owed = IF job = "lookup" THEN Present \cap {start}
                            ELSE {k \in Present : k >= start}], start)]
  /\ rd' = IF job \in {"delete", "kill"} THEN rd
           ELSE [rd EXCEPT ![r] = [ReaderIdle EXCEPT !.pc = "iterate",
                                                     !.index = NULL]]
  /\ TreeUnchanged /\ UNCHANGED <<grace, wr, aborted>>
----------------------------------------------------------------------------
(* radix_tree_next_chunk.                                                  *)

node_maxindex(n) == shift_maxindex(node[n].shift)

\* index &~ node_maxindex(node); at the highest shift nothing is left.
ChunkBase(n, i) == i - (i % (node_maxindex(n) + 1))

\* "Update the iterator state": slot offset of p.node is visited.
Visit(p) ==
  LET index == ChunkBase(p.node, p.i) + p.offset IN
  [p EXCEPT !.pc = "body",
            !.index = index,
            !.next = (ChunkBase(p.node, p.i) + node_maxindex(p.node) + 1)
                       % ULONG,
            !.child = NULL, !.i = 0,
            !.last = index, !.owed = @ \ {index}]

Over(p) == [p EXCEPT !.pc = "done", !.child = NULL, !.node = NULL,
                     !.index = 0, !.next = 0, !.i = 0, !.offset = 0]

\* goto restart.
Restart(p) == [p EXCEPT !.pc = "restart", !.node = NULL, !.child = NULL,
                        !.offset = 0]

\* Mutant of Descended: a slot emptied since it was found ends the search.
Descended_GivesUp(p, child) ==
  IF child = NULL THEN Over(p)
  ELSE IF node[p.node].shift # 0 /\ IsNode(child)
  THEN [p EXCEPT !.pc = "descend", !.child = child]
  ELSE Visit(p)

\* The end of the loop's body, with child the slot at p.offset: the chunk is
\* found, or a level down.
Descended(p, child) ==
  IF child = NULL THEN Restart(p)
  ELSE IF node[p.node].shift # 0 /\ IsNode(child)
  THEN [p EXCEPT !.pc = "descend", !.child = child]
  ELSE Visit(p)

\* Mutant of Overflown: the test after ~0UL is missing.
Overflown_Unchecked(p) == FALSE

\* Catch next_index overflow after ~0UL.
Overflown(p) == p.pc = "chunk" /\ p.next = 0 /\ p.index # 0

\* radix_tree_load_root and the single-slot tree.
LoadRoot(p) ==
  LET i == IF p.pc = "chunk" THEN p.next ELSE p.i IN
  IF Overflown(p) \/ i > RootMax \/ rnode = NULL THEN Over(p)
  ELSE IF IsNode(rnode)
  THEN [p EXCEPT !.pc = "descend", !.i = i, !.child = rnode, !.node = NULL,
                 !.offset = 0]
  ELSE [p EXCEPT !.pc = "body", !.index = i, !.next = 1 % ULONG,
                 !.node = NULL, !.offset = 0, !.i = 0, !.last = i,
                 !.owed = @ \ {i}]

\* One turn of the do loop up to the test for a hole.
Descend(p) ==
  LET q == [p EXCEPT !.node = p.child,
                     !.offset = Offset(p.i, node[p.child].shift)]
      child == node[p.child].slots[q.offset]
  IN  IF child # NULL THEN Descended(q, child)
      ELSE IF p.job = "lookup" THEN Over(q)      \* RADIX_TREE_ITER_CONTIG
      ELSE [q EXCEPT !.pc = "hole", !.child = NULL]

\* The first index of slot offset of node n.
Advanced(n, i, offset) ==
  (ChunkBase(n, i) + offset * MAP_SIZE^node[n].shift) % ULONG

\* One turn of the search for a slot in use after a hole.
Hole(p) ==
  LET offset == p.offset + 1
      q == [p EXCEPT !.offset = offset, !.i = Advanced(p.node, p.i, offset)]
  IN  IF offset < MAP_SIZE /\ node[p.node].slots[offset] = NULL
      THEN [p EXCEPT !.offset = offset]
      ELSE IF q.i = 0 THEN Over(q)
      ELSE IF offset = MAP_SIZE THEN Restart(q)
      ELSE [q EXCEPT !.pc = "reload"]

\* The slot found in use is loaded again.
Reload(p) == Descended(p, node[p.node].slots[p.offset])

\* radix_tree_chunk_size.
radix_tree_chunk_size(p) == (p.next - p.index) % ULONG

\* One turn of the loop of radix_tree_next_slot.
NextSlot(p) ==
  LET q == [p EXCEPT !.offset = @ + 1, !.index = @ + 1] IN
  IF node[q.node].slots[q.offset] = NULL THEN q
  ELSE [q EXCEPT !.pc = "body", !.last = q.index, !.owed = @ \ {q.index}]

\* radix_tree_for_each_slot: next_slot, and next_chunk when it finds no more.
Searched(p) ==
  CASE p.pc \in {"chunk", "restart"} -> LoadRoot(p)
    [] p.pc = "descend" -> Descend(p)
    [] p.pc = "hole" -> Hole(p)
    [] p.pc = "reload" -> Reload(p)
    [] p.pc = "next" -> IF radix_tree_chunk_size(p) > 1 THEN NextSlot(p)
                        ELSE LoadRoot([p EXCEPT !.pc = "chunk"])

IterSearch(r) ==
  /\ it[r].pc \in {"chunk", "restart", "descend", "hole", "reload", "next"}
  /\ it' = [it EXCEPT ![r] = Searched(@)]
  /\ TreeUnchanged /\ UNCHANGED <<grace, wr, rd, aborted>>
----------------------------------------------------------------------------
(* The body of the loop.                                                   *)

\* benchmark_iter: the loop only looks at the slot.
IterLook(r) ==
  /\ it[r].pc = "body" /\ it[r].job = "each"
  /\ it' = [it EXCEPT ![r].pc = "next"]
  /\ TreeUnchanged /\ UNCHANGED <<grace, wr, rd, aborted>>

\* radix_tree_iter_retry: the chunk is read again from this index on.
IterRetry(r) ==
  /\ it[r].pc = "body" /\ it[r].job = "each"
  /\ it' = [it EXCEPT ![r].next = it[r].index, ![r].pc = "next",
                      ![r].last = it[r].index - 1,
                      ![r].owed = @ \cup ({it[r].index} \cap Present)]
  /\ TreeUnchanged /\ UNCHANGED <<grace, wr, rd, aborted>>

\* radix_tree_iter_resume: the lock is released and taken again.  After ~0UL
\* index is 0, as at the beginning of a loop.
IterResume(r) ==
  /\ it[r].pc = "body" /\ it[r].job = "each"
  /\ LET index == (it[r].index + 1) % ULONG IN
       it' = [it EXCEPT ![r].index = index, ![r].next = index,
                        ![r].node = NULL, ![r].offset = 0, ![r].pc = "next",
                        ![r].last = index - 1]
  /\ LeaveSection(r)
  /\ UNCHANGED <<rnode, live, smashed, map, failed, wr, rd, aborted>>

\* The loop is left at this slot, as radix_tree_iter_find and _lookup are.
IterBreak(r) ==
  /\ it[r].pc = "body" /\ it[r].job \in {"each", "lookup"}
  /\ it' = [it EXCEPT ![r] = IterIdle]
  /\ rd' = [rd EXCEPT ![r] = ReaderIdle]
  /\ LeaveSection(r)
  /\ UNCHANGED <<rnode, live, smashed, map, failed, wr, aborted>>

\* radix_tree_iter_delete: __radix_tree_delete at the slot of the iterator,
\* which DeleteEntry, Unlink and Shrink carry out.
IterDelete(r) ==
  /\ it[r].pc = "body" /\ it[r].job = "delete"
  /\ it' = [it EXCEPT ![r].pc = "deleting", ![r].nodes = live]
  /\ wr' = [WriterIdle EXCEPT !.pc = "delete", !.index = it[r].index,
                              !.node = it[r].node,
                              !.child = IF it[r].node = NULL THEN rnode
                                        ELSE Below(it[r].node, it[r].index)]
  /\ TreeUnchanged /\ UNCHANGED <<grace, rd, aborted>>

\* Mutant of AfterDelete: the iterator stays where it is.
AfterDelete_Stays(p) == p

\* radix_tree_iter_delete: delete_node freed a node.
AfterDelete(p) == IF live # p.nodes THEN [p EXCEPT !.index = p.next] ELSE p

IterDeleted(r) ==
  /\ it[r].pc = "deleting" /\ wr.pc = "idle"
  /\ it' = [it EXCEPT ![r] = [AfterDelete(@) EXCEPT !.pc = "next",
                                                    !.nodes = {}]]
  /\ TreeUnchanged /\ UNCHANGED <<grace, wr, rd, aborted>>

\* item_kill_tree: the item is freed and its slot set to NULL through
\* radix_tree_replace_slot, which does not know the node and its count.
IterKill(r) ==
  /\ it[r].pc = "body" /\ it[r].job = "kill"
  /\ Store(node, it[r].node, it[r].index, NULL, 0)
  /\ Remember(it[r].index, NULL)
  /\ it' = [it EXCEPT ![r].pc = "next"]
  /\ UNCHANGED <<live, failed, grace, wr, aborted>>

\* The end of a loop; item_kill_tree asserts that the tree is empty.
IterEnd(r) ==
  /\ it[r].pc = "done"
  /\ it' = [it EXCEPT ![r] = IterIdle]
  /\ rd' = [rd EXCEPT ![r] = ReaderIdle]
  /\ LeaveSection(r)
  /\ aborted' = (it[r].job = "kill" /\ rnode # NULL)
  /\ UNCHANGED <<rnode, live, smashed, map, failed, wr>>
----------------------------------------------------------------------------
\* A step of the writer of RadixTree; indices it deletes are owed no longer.
WriterTurn ==
  /\ \/ /\ ~Exclusive
        /\ \E index \in Keys :
             \/ \E item \in Items : Insert(index, item) \/ LookupSlot(index, item)
             \/ \E item \in Items \cup {NULL} : Delete(index, item)
     \/ WriterStep
  /\ it' = [r \in Readers |->
              [it[r] EXCEPT !.owed = {k \in @ : map'[k] # NULL}]]
  /\ UNCHANGED aborted

IterStep(r) ==
  \/ IterSearch(r) \/ IterLook(r) \/ IterRetry(r) \/ IterResume(r)
  \/ IterBreak(r) \/ IterDelete(r) \/ IterDeleted(r) \/ IterKill(r)
  \/ IterEnd(r)

IterNext ==
  /\ ~aborted
  /\ \/ WriterTurn
     \/ \E r \in Readers :
          \/ \E job \in {"each", "lookup", "delete", "kill"}, start \in Starts :
               IterStart(r, job, start)
          \/ IterStep(r)

IterSpec == IterInit /\ [][IterNext]_iterVars
----------------------------------------------------------------------------
\* An iteration visits every index from its start that is present from its
\* beginning to its end, whatever the writer extends, prunes and shrinks in
\* the meantime and also when the loop itself deletes what it visits: nothing
\* smaller is owed at a visit, and nothing at all when next_chunk returns NULL.
NothingSkipped ==
  \A r \in Readers :
    /\ it[r].pc = "body" => \A k \in it[r].owed : k > it[r].index
    /\ it[r].pc = "done" => it[r].owed = {}

\* Visits are in strictly ascending order from the start, hence none is
\* repeated, and ~0UL ends the loop.  One call is excepted: at the visit of
\* ~0UL radix_tree_iter_resume sets index and next_index to 0, and the order
\* is that of a loop that starts there (IterResume resets last).  The index
\* visited has an item when its slot is read; radix_tree_iter_lookup visits
\* its own only.
AscendingAndPresent ==
  [][\A r \in Readers :
       it'[r].pc = "body" /\ it[r].pc # "body" =>
         /\ it'[r].index > it[r].last
         /\ map[it'[r].index] # NULL
         /\ it[r].job = "lookup" => it'[r].index = it[r].last + 1]_iterVars

\* No iterator loads from a node that was given back to the allocator: nodes
\* unlinked under it wait for its critical section, and after
\* radix_tree_iter_delete it does not return to the leaf it was in.
IteratorInLiveNode ==
  \A r \in Readers :
    /\ it[r].pc = "descend" => it[r].child \notin free
    /\ \/ it[r].pc \in {"hole", "reload", "body"}
       \/ it[r].pc = "next" /\ radix_tree_chunk_size(it[r]) > 1
       => it[r].node \notin free
=============================================================================
