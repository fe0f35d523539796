---------------------------- MODULE AtomicBuffer ----------------------------
(***************************************************************************)
(* What class Buffer promises its callers: a bounded stack.  A call of     *)
(* add(x) or remove() takes effect in one step between its invocation and  *)
(* its return; add waits for room, remove waits for an item and returns    *)
(* the most recent one (remove() takes the back of the deque that add()    *)
(* pushes to, so the order is last in, first out).                         *)
(***************************************************************************)
EXTENDS Integers, Sequences

CONSTANTS Producers, Consumers, Items, size_, NoItem

Threads == Producers \cup Consumers

VARIABLES stack,   \* the items, oldest first
          call,    \* "idle", "pending" (invoked) or "done" (took effect)
          item     \* argument of add(), result of remove()

atomicVars == <<stack, call, item>>

AtomicInit ==
  /\ stack = <<>>
  /\ call = [t \in Threads |-> "idle"]
  /\ item = [t \in Threads |-> NoItem]

Invoke(t, x) ==
  /\ call[t] = "idle"
  /\ call' = [call EXCEPT ![t] = "pending"]
  /\ item' = [item EXCEPT ![t] = x]
  /\ UNCHANGED stack

Push(p) ==
  /\ call[p] = "pending"
  /\ Len(stack) < size_
  /\ stack' = Append(stack, item[p])
  /\ call' = [call EXCEPT ![p] = "done"]
  /\ UNCHANGED item

Pop(c) ==
  /\ call[c] = "pending"
  /\ stack # <<>>
  /\ item' = [item EXCEPT ![c] = stack[Len(stack)]]
  /\ stack' = SubSeq(stack, 1, Len(stack) - 1)
  /\ call' = [call EXCEPT ![c] = "done"]

Return(t) ==
  /\ call[t] = "done"
  /\ call' = [call EXCEPT ![t] = "idle"]
  /\ UNCHANGED <<stack, item>>

AtomicNext ==
  \/ \E p \in Producers, x \in Items : Invoke(p, x)
  \/ \E c \in Consumers : Invoke(c, NoItem)
  \/ \E p \in Producers : Push(p)
  \/ \E c \in Consumers : Pop(c)
  \/ \E t \in Threads : Return(t)

AtomicSpec == AtomicInit /\ [][AtomicNext]_atomicVars
=============================================================================
