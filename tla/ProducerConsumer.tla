-------------------------- MODULE ProducerConsumer --------------------------
(***************************************************************************)
(* producer_consumer/example.cpp: Producer::run and Consumer::run, endless *)
(* loops around Buffer::add and Buffer::remove.  After each call a thread  *)
(* prints under cout_mu and sleeps 50 ms before it calls again.  main()    *)
(* starts one thread of each kind; the module takes any number.            *)
(***************************************************************************)
EXTENDS BoundedBuffer

VARIABLES run,      \* where each thread is in its run() loop
          cout_mu   \* owner of the mutex around std::cout, or NoThread

allVars == <<mu, buffer_, pc, num, run, cout_mu>>

(***************************************************************************)
(* "call"   about to call add(std::rand() % 100) or remove()               *)
(* "inside" inside that call; pc says where                                *)
(* "cout"   waiting for cout_mu                                            *)
(* "print"  holds cout_mu                                                  *)
(* "sleep"  in sleep_for                                                   *)
(***************************************************************************)
RunLocations == {"call", "inside", "cout", "print", "sleep"}

Init ==
  /\ BufferInit
  /\ run = [t \in Threads |-> "call"]
  /\ cout_mu = NoThread

Goto(t, l) == run' = [run EXCEPT ![t] = l]

Call(t) ==
  /\ run[t] = "call"
  /\ \/ t \in Producers /\ \E x \in Items : Add(t, x)
     \/ t \in Consumers /\ Remove(t)
  /\ Goto(t, "inside")
  /\ UNCHANGED cout_mu

\* A step inside the call; notify_all() is its last.
InCall(t) ==
  /\ run[t] = "inside"
  /\ Step(t)
  /\ Goto(t, IF pc[t] = "notify" THEN "cout" ELSE "inside")
  /\ UNCHANGED cout_mu

Spurious(t) == SpuriousWakeup(t) /\ UNCHANGED <<run, cout_mu>>

LockCout(t) ==
  /\ run[t] = "cout"
  /\ cout_mu = NoThread
  /\ cout_mu' = t
  /\ Goto(t, "print")
  /\ UNCHANGED bufferVars

\* Mutant of PrintLine: the lock is not released at the end of the block.
PrintLine_KeepsLock(t) ==
  /\ run[t] = "print"
  /\ Goto(t, "sleep")
  /\ UNCHANGED <<mu, buffer_, pc, num, cout_mu>>

\* The line is written; cout_mu is released at the end of the block.
PrintLine(t) ==
  /\ run[t] = "print"
  /\ cout_mu' = NoThread
  /\ Goto(t, "sleep")
  /\ UNCHANGED bufferVars

\* sleep_for returns and the loop starts over.
Awaken(t) ==
  /\ run[t] = "sleep"
  /\ Goto(t, "call")
  /\ UNCHANGED <<mu, buffer_, pc, num, cout_mu>>

Thread(t) ==
  \/ Call(t)
  \/ InCall(t)
  \/ LockCout(t)
  \/ PrintLine(t)
  \/ Awaken(t)

Next == \E t \in Threads : Thread(t) \/ Spurious(t)

(***************************************************************************)
(* Every thread keeps running.  A mutex that is free again and again is    *)
(* eventually granted: its last owner leaves it and sleeps 50 ms before it *)
(* comes back.  Spurious wakeups are never relied upon.                    *)
(***************************************************************************)
Fairness ==
  \A t \in Threads :
    /\ WF_allVars(Thread(t))
    /\ SF_allVars(InCall(t) /\ pc[t] = "lock")
    /\ SF_allVars(LockCout(t))

Spec == Init /\ [][Next]_allVars /\ Fairness
----------------------------------------------------------------------------
\* Types, and the two places where a thread's position is kept agree: it is
\* inside Buffer exactly when its loop says so.
TypeOK ==
  /\ BufferTypeOK
  /\ run \in [Threads -> RunLocations]
  /\ cout_mu \in Threads \cup {NoThread}
  /\ \A t \in Threads : run[t] = "inside" <=> pc[t] # "out"

\* Threads that are alone in calling add(), or alone in calling remove(), as
\* both threads of main() are.
SoleCallers ==
  {t \in Threads : (t \in Producers => Producers = {t})
                     /\ (t \in Consumers => Consumers = {t})}

\* No call of a thread without a rival of its kind blocks for ever, although
\* producers and consumers sleep on the same condition variable and nobody
\* relies on spurious wakeups.
SoleCallerReturns ==
  \A t \in SoleCallers : run[t] = "inside" ~> run[t] = "cout"

\* With any number of threads the program as a whole never stalls: consumers
\* take items for ever.  (One of several consumers may starve.)
ItemsKeepFlowing == []<>(\E c \in Consumers : pc[c] = "unlock")
=============================================================================
