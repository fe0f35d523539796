---------------------------- MODULE PmemPrograms ----------------------------
(***************************************************************************)
(* The programs of pmdk_practice that keep data in a libpmemobj pool:      *)
(* hello_world/writer.c and reader.c, tx_alloc/rect_calc.c,                *)
(* ntx_alloc/rect_calc.c and lists/lists.c.  They are started one after    *)
(* another on the same path, and each may be cut off by a crash between    *)
(* any two steps.                                                          *)
(*                                                                         *)
(* libpmemobj is external: a pool is what its documentation and these      *)
(* programs take it for.  A store is durable at the latest when the        *)
(* program ends; a transaction undoes, when it aborts and when the pool is *)
(* opened after a crash, the stores to what TX_ADD and TX_MEMCPY put in    *)
(* its log and the allocations and frees it made; POBJ_NEW, POBJ_FREE and  *)
(* the list macros are atomic.                                             *)
(***************************************************************************)
EXTENDS Integers, Sequences, FiniteSets

CONSTANTS Words,     \* what the user may type, at most MAX_BUF_LEN - 1 chars
          Objects,   \* addresses of rectangles
          NIL

VARIABLES pool,      \* the file at argv[1]: NIL or its contents
          log,       \* the log of the transaction that is open, or NIL
          prog,      \* the program that runs, or NIL
          pc,        \* its next step
          typed,     \* the writer's my_buf
          output     \* what the last program that printed data printed

vars == <<pool, log, prog, pc, typed, output>>

\* The steps of the main()s, in their order.
Program ==
  [writer |-> <<"create", "root", "scanf", "begin", "memcpy", "end", "close">>,
   reader |-> <<"open", "root", "print", "close">>,
   rect_tx |-> <<"create", "root", "begin", "add", "new", "a", "b", "link",
                 "end", "area", "begin", "add", "free", "unlink", "end">>,
   rect_ntx |-> <<"create", "root", "POBJ_NEW", "area", "POBJ_FREE">>,
   lists |-> <<"create_or_open", "root", "note1", "note2", "print_all", "close">>]

\* POBJ_LAYOUT_NAME of the layout.h each program is built with.
Layout == [writer |-> "string_store", reader |-> "string_store",
           rect_tx |-> "rect_calc", rect_ntx |-> "rect_calc",
           lists |-> "lists"]

\* struct rectangle, and what create_note() may leave in the list.
Rectangles == [a : {0, 5}, b : {0, 10}]
Notes == {<<>>, <<"note1">>, <<"note2">>, <<"note2", "note1">>}

\* The contents of a pool: its layout, whether the root object is there, and
\* the fields the root objects of the layouts have, each with its zero.
Pools ==
  [layout : {Layout[p] : p \in DOMAIN Program}, root : BOOLEAN,
   buf : Words \cup {""}, rect : Objects \cup {NIL},
   heap : UNION {[D -> Rectangles] : D \in SUBSET Objects}, notes : Notes]

\* What a transaction logs: the names of what was added, the pool as it was,
\* and what it will free.
Logs == [added : SUBSET {"root", "buf"}, old : Pools, freed : SUBSET Objects]

NoRect == [a |-> 0, b |-> 0]
EmptyPool(layout) ==
  [layout |-> layout, root |-> FALSE, buf |-> "", rect |-> NIL,
   heap |-> [o \in {} |-> NoRect], notes |-> <<>>]

Init ==
  /\ pool = NIL /\ log = NIL
  /\ prog = NIL /\ pc = 0
  /\ typed = "" /\ output = NIL

At(step) == prog # NIL /\ Program[prog][pc] = step

\* The step after this one, or the end of main().
Continue ==
  IF pc = Len(Program[prog]) THEN prog' = NIL /\ pc' = 0
                             ELSE pc' = pc + 1 /\ UNCHANGED prog

Stop == prog' = NIL /\ pc' = 0

\* The pool without the effects of the open transaction: what was logged has
\* its old value, what was allocated is free, what was freed is allocated.
Undone ==
  IF log = NIL THEN pool
  ELSE [pool EXCEPT !.rect = IF "root" \in log.added THEN log.old.rect ELSE @,
                    !.buf = IF "buf" \in log.added THEN log.old.buf ELSE @,
                    !.heap = log.old.heap]
----------------------------------------------------------------------------
Start(p) ==
  /\ prog = NIL
  /\ prog' = p /\ pc' = 1
  /\ UNCHANGED <<pool, log, typed, output>>

\* A crash, at any time; recovery is part of the next pmemobj_open.
Crash ==
  /\ prog # NIL
  /\ Stop
  /\ pool' = Undone
  /\ log' = NIL
  /\ UNCHANGED <<typed, output>>

\* pmemobj_create fails if the file is there.  The writer and lists say so
\* and return 1; the rect programs go on with a NULL pool and crash.
Create ==
  /\ \/ At("create") \/ (At("create_or_open") /\ pool = NIL)
  /\ \/ pool = NIL /\ pool' = EmptyPool(Layout[prog]) /\ Continue
     \/ Stop /\ UNCHANGED pool
  /\ UNCHANGED <<log, typed, output>>

\* pmemobj_open fails if there is no file or its layout is another one.
\* lists.c opens with POBJ_LAYOUT_NAME(pi), which no program creates.
Open ==
  /\ \/ At("open") \/ (At("create_or_open") /\ pool # NIL)
  /\ LET layout == IF prog = "lists" THEN "pi" ELSE Layout[prog] IN
     IF pool # NIL /\ pool.layout = layout THEN Continue ELSE Stop
  /\ UNCHANGED <<pool, log, typed, output>>

\* POBJ_ROOT allocates a zeroed root object the first time.
Root ==
  /\ At("root")
  /\ pool' = [pool EXCEPT !.root = TRUE]
  /\ Continue
  /\ UNCHANGED <<log, typed, output>>

Scanf ==
  /\ At("scanf")
  /\ typed' \in Words
  /\ Continue
  /\ UNCHANGED <<pool, log, output>>

Close ==
  /\ At("close")
  /\ Continue
  /\ UNCHANGED <<pool, log, typed, output>>
----------------------------------------------------------------------------
(* Transactions.                                                           *)

Begin ==
  /\ At("begin")
  /\ log' = [added |-> {}, old |-> pool, freed |-> {}]
  /\ Continue
  /\ UNCHANGED <<pool, typed, output>>

\* Mutant of Added: TX_ADD is missing.
Added_Nothing(what) == log

\* TX_ADD, and the first half of TX_MEMCPY.
Added(what) == [log EXCEPT !.added = @ \cup {what}]

Add ==
  /\ At("add")
  /\ log' = Added("root")
  /\ Continue
  /\ UNCHANGED <<pool, typed, output>>

\* TX_MEMCPY of strlen(my_buf) bytes: the terminator is the zero the root
\* object was allocated with.
Memcpy ==
  /\ At("memcpy")
  /\ log' = Added("buf")
  /\ pool' = [pool EXCEPT !.buf = typed]
  /\ Continue
  /\ UNCHANGED <<typed, output>>

\* TX_NEW: a new object, or the transaction is aborted and the program goes
\* on after TX_END.
New ==
  /\ At("new")
  /\ \/ \E o \in Objects \ DOMAIN pool.heap :
          /\ pool' = [pool EXCEPT !.heap =
                        [x \in DOMAIN @ \cup {o} |->
                           IF x = o THEN NoRect ELSE @[x]]]
          /\ Continue
          /\ log' = log
     \/ /\ pool' = Undone
        /\ log' = NIL
        /\ pc' = CHOOSE i \in pc .. Len(Program[prog]) :
                   Program[prog][i] = "area"
        /\ UNCHANGED prog
  /\ UNCHANGED <<typed, output>>

\* The object this transaction allocated.
Fresh == CHOOSE o \in DOMAIN pool.heap : o \notin DOMAIN log.old.heap

Fill ==
  /\ \/ At("a") /\ pool' = [pool EXCEPT !.heap[Fresh].a = 5]
     \/ At("b") /\ pool' = [pool EXCEPT !.heap[Fresh].b = 10]
     \/ At("link") /\ pool' = [pool EXCEPT !.rect = Fresh]
  /\ Continue
  /\ UNCHANGED <<log, typed, output>>

\* TX_FREE takes effect when the transaction commits.
Free ==
  /\ At("free")
  /\ log' = [log EXCEPT !.freed = {pool.rect}]
  /\ Continue
  /\ UNCHANGED <<pool, typed, output>>

Unlink ==
  /\ At("unlink")
  /\ pool' = [pool EXCEPT !.rect = NIL]
  /\ Continue
  /\ UNCHANGED <<log, typed, output>>

\* TX_END.
End ==
  /\ At("end")
  /\ pool' = [pool EXCEPT !.heap =
                [o \in DOMAIN @ \ log.freed |-> @[o]]]
  /\ log' = NIL
  /\ Continue
  /\ UNCHANGED <<typed, output>>
----------------------------------------------------------------------------
(* Atomic operations and output.                                           *)

\* rect_construct.
Constructed == [a |-> 5, b |-> 10]

\* POBJ_NEW into root->rect; its failure is not looked at.
NewAtomic ==
  /\ At("POBJ_NEW")
  /\ \/ \E o \in Objects \ DOMAIN pool.heap :
          pool' = [pool EXCEPT
                     !.heap = [x \in DOMAIN @ \cup {o} |->
                                 IF x = o THEN Constructed ELSE @[x]],
                     !.rect = o]
     \/ UNCHANGED pool
  /\ Continue
  /\ UNCHANGED <<log, typed, output>>

\* POBJ_FREE frees what root->rect points at and sets it to NULL.
FreeAtomic ==
  /\ At("POBJ_FREE")
  /\ pool' = [pool EXCEPT !.rect = NIL,
                          !.heap = [o \in DOMAIN @ \ {pool.rect} |-> @[o]]]
  /\ Continue
  /\ UNCHANGED <<log, typed, output>>

\* area_calc of root->rect, or of POBJ_FIRST; without a rectangle the
\* program crashes, as it does with a NULL pool.
Area ==
  /\ At("area")
  /\ IF pool.rect = NIL
     THEN Stop /\ UNCHANGED output
     ELSE /\ output' = pool.heap[pool.rect].a * pool.heap[pool.rect].b
          /\ Continue
  /\ UNCHANGED <<pool, log, typed>>

\* create_note: POBJ_LIST_INSERT_NEW_HEAD; its failure is not looked at.
CreateNote ==
  /\ At("note1") \/ At("note2")
  /\ pool' \in {pool, [pool EXCEPT !.notes = <<Program[prog][pc]>> \o @]}
  /\ Continue
  /\ UNCHANGED <<log, typed, output>>

\* The reader's printf and note_print_all.
PrintData ==
  /\ At("print") \/ At("print_all")
  /\ output' = IF prog = "reader" THEN <<pool.buf>> ELSE pool.notes
  /\ Continue
  /\ UNCHANGED <<pool, log, typed>>
----------------------------------------------------------------------------
Next ==
  \/ \E p \in DOMAIN Program : Start(p)
  \/ Crash \/ Create \/ Open \/ Root \/ Scanf \/ Close
  \/ Begin \/ Add \/ Memcpy \/ New \/ Fill \/ Free \/ Unlink \/ End
  \/ NewAtomic \/ FreeAtomic \/ Area \/ CreateNote \/ PrintData

Spec == Init /\ [][Next]_vars
----------------------------------------------------------------------------
\* Whatever program was cut off where, the pool that the next pmemobj_open
\* finds is one a program finished a transaction or an atomic operation on:
\* root->rect points at the only rectangle there is, both sides of it set, or
\* there is none; the string is a whole input or empty; the notes are a
\* suffix of what a finished run leaves.
PoolConsistent ==
  LET p == Undone IN
  pool # NIL =>
    /\ DOMAIN p.heap = {p.rect} \ {NIL}
    /\ \A o \in DOMAIN p.heap : p.heap[o] = [a |-> 5, b |-> 10]
    /\ p.buf \in Words \cup {""}
    /\ p.notes \in Notes
=============================================================================
