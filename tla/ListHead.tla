------------------------------ MODULE ListHead ------------------------------
(***************************************************************************)
(* The stores of chaining_hash/list.h.  A heap m of struct list_head is a  *)
(* record of two functions, next and prev, on cells; an EXCEPT lists the   *)
(* stores of an operation in the order of the source, which matters when   *)
(* two of its arguments are the same cell.                                 *)
(*                                                                         *)
(* The heap w of an hlist maps places to nodes: <<"first", h>> is h->first *)
(* and <<"next", n>> is n->next; pprev maps a node to a place.             *)
(***************************************************************************)
EXTENDS Integers, Sequences

CONSTANTS POISON,   \* LIST_POISON1 and LIST_POISON2
          NIL       \* NULL

INIT_LIST_HEAD(m, ptr) == [m EXCEPT !.next[ptr] = ptr, !.prev[ptr] = ptr]

\* __list_add
ListAdd(m, new, prev, next) ==
  [m EXCEPT !.prev[next] = new, !.next[new] = next,
            !.prev[new] = prev, !.next[prev] = new]

list_add(m, new, head) == ListAdd(m, new, head, m.next[head])

\* Mutant of list_add_tail: the entry goes to the front.
list_add_tail_Front(m, new, head) == ListAdd(m, new, head, m.next[head])

list_add_tail(m, new, head) == ListAdd(m, new, m.prev[head], head)

\* __list_del
ListDel(m, prev, next) == [m EXCEPT !.prev[next] = prev, !.next[prev] = next]

list_del(m, entry) ==
  [ListDel(m, m.prev[entry], m.next[entry]) EXCEPT
     !.next[entry] = POISON, !.prev[entry] = POISON]

list_del_init(m, entry) ==
  INIT_LIST_HEAD(ListDel(m, m.prev[entry], m.next[entry]), entry)

list_move(m, list, head) ==
  list_add(ListDel(m, m.prev[list], m.next[list]), list, head)

list_move_tail(m, list, head) ==
  list_add_tail(ListDel(m, m.prev[list], m.next[list]), list, head)

list_empty(m, head) == m.next[head] = head

\* __list_splice
ListSplice(m, list, head) ==
  LET first == m.next[list]
      last == m.prev[list]
      at == m.next[head]
  IN  [m EXCEPT !.prev[first] = head, !.next[head] = first,
                !.next[last] = at, !.prev[at] = last]

list_splice(m, list, head) ==
  IF list_empty(m, list) THEN m ELSE ListSplice(m, list, head)

list_splice_init(m, list, head) ==
  IF list_empty(m, list) THEN m
  ELSE INIT_LIST_HEAD(ListSplice(m, list, head), list)

\* list_for_each and list_for_each_prev: the cells visited from head along
\* link, followed for at most bound turns.
Walk(link, head, bound) ==
  LET walk[k \in 0 .. bound] ==
        IF k = 0 THEN <<>>
        ELSE LET before == walk[k - 1]
                 at == IF before = <<>> THEN head ELSE before[Len(before)]
             IN  IF at \notin DOMAIN link THEN before
                 ELSE IF link[at] = head \/ Len(before) < k - 1 THEN before
                 ELSE Append(before, link[at])
  IN  walk[bound]
----------------------------------------------------------------------------
INIT_HLIST_NODE(w, n) ==
  [w EXCEPT !.at[<<"next", n>>] = NIL, !.pprev[n] = NIL]

hlist_unhashed(w, n) == w.pprev[n] = NIL

\* __hlist_del
HlistDel(w, n) ==
  LET next == w.at[<<"next", n>>]
      pprev == w.pprev[n]
      cut == [w EXCEPT !.at[pprev] = next]
  IN  IF next = NIL THEN cut ELSE [cut EXCEPT !.pprev[next] = pprev]

hlist_del(w, n) ==
  [HlistDel(w, n) EXCEPT !.at[<<"next", n>>] = POISON, !.pprev[n] = POISON]

hlist_del_init(w, n) ==
  IF hlist_unhashed(w, n) THEN w ELSE INIT_HLIST_NODE(HlistDel(w, n), n)

hlist_add_head(w, n, h) ==
  LET first == w.at[<<"first", h>>]
      on == [w EXCEPT !.at[<<"next", n>>] = first]
      back == IF first = NIL THEN on
              ELSE [on EXCEPT !.pprev[first] = <<"next", n>>]
  IN  [back EXCEPT !.at[<<"first", h>>] = n, !.pprev[n] = <<"first", h>>]

hlist_add_before(w, n, next) ==
  [w EXCEPT !.pprev[n] = w.pprev[next], !.at[<<"next", n>>] = next,
            !.pprev[next] = <<"next", n>>, !.at[w.pprev[next]] = n]

\* The node next is put after n.
hlist_add_after(w, n, next) ==
  LET on == [w EXCEPT !.at[<<"next", next>>] = w.at[<<"next", n>>],
                      !.at[<<"next", n>>] = next,
                      !.pprev[next] = <<"next", n>>]
      after == on.at[<<"next", next>>]
  IN  IF after = NIL THEN on
      ELSE [on EXCEPT !.pprev[after] = <<"next", next>>]

\* hlist_for_each.
HlistWalk(w, h, bound) ==
  LET walk[k \in 0 .. bound] ==
        IF k = 0 THEN <<>>
        ELSE LET before == walk[k - 1]
                 at == IF before = <<>> THEN w.at[<<"first", h>>]
                       ELSE w.at[<<"next", before[Len(before)]>>]
             IN  IF at \in {NIL, POISON} \/ Len(before) < k - 1 THEN before
                 ELSE Append(before, at)
  IN  walk[bound]
=============================================================================
