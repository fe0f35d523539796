------------------------------- MODULE Lists -------------------------------
(***************************************************************************)
(* A client of chaining_hash/list.h and of the hlist of hotring/list.h:    *)
(* every sequence of calls that keeps to what their comments ask for.  An  *)
(* entry is added only when it is in no list and deleted only when it is   *)
(* in one, and a list emptied by list_splice is initialised before it is   *)
(* used again.                                                             *)
(***************************************************************************)
EXTENDS ListHead, SequencesExt

CONSTANTS Heads, Nodes

VARIABLES mem,      \* next and prev of every head and node
          hmem,     \* the hlist: first, next and pprev
          lists,    \* history: the entries each list_head should have
          hlist,    \* history: the nodes each hlist should have
          loop,     \* a list_for_each_safe that is under way
          kind      \* the kind of list this client uses

vars == <<mem, hmem, lists, hlist, loop, kind>>

Cells == Heads \cup Nodes
Places == ({"first"} \X Heads) \cup ({"next"} \X Nodes)
NoLoop == [head |-> NIL, pos |-> NIL, n |-> NIL, left |-> <<>>]
Unused == <<POISON>>  \* the list of a head after list_splice: no list of nodes

Init ==
  /\ mem = [next |-> [c \in Cells |-> IF c \in Heads THEN c ELSE POISON],
            prev |-> [c \in Cells |-> IF c \in Heads THEN c ELSE POISON]]
  /\ hmem = [at |-> [p \in Places |-> NIL], pprev |-> [n \in Nodes |-> NIL]]
  /\ lists = [h \in Heads |-> <<>>]
  /\ hlist = [h \in Heads |-> <<>>]
  /\ loop = NoLoop
  /\ kind \in {"list", "hlist"}

Usable == {h \in Heads : lists[h] # Unused}
In(h) == ToSet(lists[h])
Linked == UNION {In(h) : h \in Usable}
Hashed == UNION {ToSet(hlist[h]) : h \in Heads}
Without(s, x) ==
  IF x \in ToSet(s) THEN RemoveAt(s, CHOOSE i \in DOMAIN s : s[i] = x) ELSE s
\* The entries of every list once n has left it.
Taken(n) ==
  [h \in Heads |-> IF h \in Usable THEN Without(lists[h], n) ELSE lists[h]]
HTaken(n) == [h \in Heads |-> Without(hlist[h], n)]
Outside ==
  kind = "list" /\ loop = NoLoop /\ UNCHANGED <<hmem, hlist, loop, kind>>
----------------------------------------------------------------------------
\* list_add and list_add_tail of a new entry.
Add(n, h) ==
  /\ Outside /\ n \notin Linked /\ h \in Usable
  /\ \/ /\ mem' = list_add(mem, n, h)
        /\ lists' = [lists EXCEPT ![h] = <<n>> \o @]
     \/ /\ mem' = list_add_tail(mem, n, h)
        /\ lists' = [lists EXCEPT ![h] = Append(@, n)]

\* list_del and list_del_init.
Del(n) ==
  /\ Outside /\ n \in Linked
  /\ mem' \in {list_del(mem, n), list_del_init(mem, n)}
  /\ lists' = Taken(n)

\* list_move and list_move_tail, also within a list.
Move(n, h) ==
  /\ Outside /\ n \in Linked /\ h \in Usable
  /\ \/ /\ mem' = list_move(mem, n, h)
        /\ lists' = [Taken(n) EXCEPT ![h] = <<n>> \o @]
     \/ /\ mem' = list_move_tail(mem, n, h)
        /\ lists' = [Taken(n) EXCEPT ![h] = Append(@, n)]

\* list_splice leaves list as it was, list_splice_init makes it empty.
Splice(list, h) ==
  /\ Outside /\ {list, h} \subseteq Usable /\ list # h
  /\ \/ /\ mem' = list_splice(mem, list, h)
        /\ lists' = [lists EXCEPT ![h] = lists[list] \o @,
                                  ![list] = IF @ = <<>> THEN @ ELSE Unused]
     \/ /\ mem' = list_splice_init(mem, list, h)
        /\ lists' = [lists EXCEPT ![h] = lists[list] \o @, ![list] = <<>>]

\* INIT_LIST_HEAD of a list that was spliced away.
InitHead(h) ==
  /\ Outside /\ h \notin Usable
  /\ mem' = INIT_LIST_HEAD(mem, h)
  /\ lists' = [lists EXCEPT ![h] = <<>>]
----------------------------------------------------------------------------
\* list_for_each_safe: pos and n before the first turn.
SafeBegin(h) ==
  /\ kind = "list" /\ loop = NoLoop /\ h \in Usable
  /\ loop' = [head |-> h, pos |-> mem.next[h], n |-> mem.next[mem.next[h]],
              left |-> lists[h]]
  /\ UNCHANGED <<mem, hmem, lists, hlist, kind>>

\* Mutant of Following: the successor is read after the body.
Following_Late(l, m) == [l EXCEPT !.pos = m.next[l.pos]]

\* pos = n, n = pos->next, in the heap m that the body left.
Following(l, m) == [l EXCEPT !.pos = l.n, !.n = m.next[l.n]]

\* One turn: the body leaves pos alone, deletes it or moves it to another
\* list; then the loop goes on.
SafeTurn ==
  /\ loop.pos \in Nodes
  /\ \/ UNCHANGED <<mem, lists>>
     \/ mem' = list_del(mem, loop.pos) /\ lists' = Taken(loop.pos)
     \/ \E h \in Usable \ {loop.head} :
          /\ mem' = list_move(mem, loop.pos, h)
          /\ lists' = [Taken(loop.pos) EXCEPT ![h] = <<loop.pos>> \o @]
  /\ loop' = Following([loop EXCEPT !.left = Without(@, loop.pos)], mem')
  /\ UNCHANGED <<hmem, hlist, kind>>

SafeEnd ==
  /\ loop # NoLoop /\ loop.pos = loop.head
  /\ loop' = NoLoop
  /\ UNCHANGED <<mem, hmem, lists, hlist, kind>>
----------------------------------------------------------------------------
HlistOutside == kind = "hlist" /\ UNCHANGED <<mem, lists, loop, kind>>

HlistAddHead(n, h) ==
  /\ HlistOutside /\ n \notin Hashed
  /\ hmem' = hlist_add_head(hmem, n, h)
  /\ hlist' = [hlist EXCEPT ![h] = <<n>> \o @]

\* hlist_add_before and hlist_add_after.
HlistAddBeside(n, at) ==
  /\ HlistOutside /\ n \notin Hashed /\ at \in Hashed
  /\ \E h \in Heads :
       /\ at \in ToSet(hlist[h])
       /\ LET i == CHOOSE k \in DOMAIN hlist[h] : hlist[h][k] = at IN
          \/ /\ hmem' = hlist_add_before(hmem, n, at)
             /\ hlist' = [hlist EXCEPT ![h] = InsertAt(@, i, n)]
          \/ /\ hmem' = hlist_add_after(hmem, at, n)
             /\ hlist' = [hlist EXCEPT ![h] = InsertAt(@, i + 1, n)]

\* hlist_del; hlist_del_init may be called on a node in no list.
HlistDelete(n) ==
  /\ HlistOutside
  /\ \/ n \in Hashed /\ hmem' = hlist_del(hmem, n)
     \/ hmem.pprev[n] # POISON /\ hmem' = hlist_del_init(hmem, n)
  /\ hlist' = HTaken(n)
----------------------------------------------------------------------------
Next ==
  \/ \E n \in Nodes :
       \/ Del(n) \/ HlistDelete(n)
       \/ \E h \in Heads : Add(n, h) \/ Move(n, h) \/ HlistAddHead(n, h)
       \/ \E at \in Nodes : HlistAddBeside(n, at)
  \/ \E h \in Heads :
       \/ InitHead(h) \/ SafeBegin(h)
       \/ \E list \in Heads : Splice(list, h)
  \/ SafeTurn \/ SafeEnd

Spec == Init /\ [][Next]_vars
----------------------------------------------------------------------------
Bound == Cardinality(Nodes) + 1

\* Whatever was added, moved, spliced and deleted before, following next from
\* a head visits exactly the entries the list should have, in their order,
\* following prev visits them backwards, and every node of an hlist is pointed
\* at by the place its pprev names.
ListsExact ==
  /\ \A h \in Usable :
       /\ Walk(mem.next, h, Bound) = lists[h]
       /\ Walk(mem.prev, h, Bound) = Reverse(lists[h])
  /\ \A h \in Heads : HlistWalk(hmem, h, Bound) = hlist[h]
  /\ \A n \in Hashed : hmem.at[hmem.pprev[n]] = n

\* list_for_each_safe reaches the head again only when every entry that was
\* in the list at its start had its turn, although the body deletes entries
\* or moves them to another list.
SafeLoopVisitsAll ==
  loop # NoLoop =>
    /\ loop.pos = loop.head => loop.left = <<>>
    /\ loop.pos # loop.head => loop.left # <<>> /\ Head(loop.left) = loop.pos
=============================================================================
