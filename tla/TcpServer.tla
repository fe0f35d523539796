----------------------------- MODULE TcpServer -----------------------------
(***************************************************************************)
(* parallel_tcpip/socket_server.cpp and its client socket_client.c.        *)
(* main() accepts clients; for each it constructs a Producer p in the same *)
(* stack slot of its loop and starts a thread on &p, so every thread reads *)
(* p.client_socket each time it needs it and sees the last value stored.   *)
(* A producer thread reads one request, adds it to the Buffer of module    *)
(* BoundedBuffer, prints, sleeps, answers and closes; one consumer takes   *)
(* messages out for ever.  The threads are numbered by their place in the  *)
(* vector threads, the first being 1.                                      *)
(***************************************************************************)
EXTENDS BoundedBuffer, FiniteSets, Functions

CONSTANTS Clients,
          Garbage,   \* the uninitialised buff_rcv after a failed read()
          NoClient

ASSUME TcpServerAssumption ==
  /\ IsFiniteSet(Clients)
  /\ Producers = 1 .. Cardinality(Clients)
  /\ Cardinality(Consumers) = 1
  /\ Items = Clients \cup {Garbage}
  /\ Garbage \notin Clients /\ NoClient \notin Clients

VARIABLES main,       \* main(): "accept", "join1", "join2" or "dead"
          joined,     \* threads[0] and threads[1] have been joined
          p,          \* p.client_socket
          accepted,   \* clients in the order of accept()
          stage,      \* where each thread is in its run()
          fd,         \* the socket a thread used last
          cout_mu,
          client,     \* each client: "new", "sent" or "closed"
          unread,     \* sockets with a request nobody has read
          isopen,     \* sockets open in the server
          answer,     \* what each client received
          consumed,   \* the consumer's output
          overtaken   \* history: p was overwritten while a thread needed it

serverVars == <<main, joined, p, accepted, stage, fd, cout_mu, unread, isopen,
                consumed, overtaken>>
clientVars == <<client, answer>>
vars == <<serverVars, clientVars, bufferVars>>

Stages == {"unborn", "read", "reading", "call", "inside", "cout", "print",
           "sleep", "write", "close", "done"}

Init ==
  /\ BufferInit
  /\ main = "accept" /\ joined = FALSE
  /\ p = NoClient /\ accepted = <<>>
  /\ stage = [t \in Threads |-> IF t \in Consumers THEN "call" ELSE "unborn"]
  /\ fd = [t \in Threads |-> NoClient]
  /\ cout_mu = NoThread
  /\ client = [c \in Clients |-> "new"]
  /\ unread = {} /\ isopen = {}
  /\ answer = [c \in Clients |-> NoItem]
  /\ consumed = <<>>
  /\ overtaken = FALSE

Goto(t, s) == stage' = [stage EXCEPT ![t] = s]
----------------------------------------------------------------------------
(* socket_client.c                                                         *)

\* connect() and write("hello").
Connect(c) ==
  /\ client[c] = "new"
  /\ client' = [client EXCEPT ![c] = "sent"]
  /\ unread' = unread \cup {c}
  /\ UNCHANGED <<answer, main, joined, p, accepted, stage, fd, cout_mu, isopen,
                 consumed, overtaken, bufferVars>>

\* read() returns the answer, or the end of the stream once the server has
\* closed the socket and no thread of it is still blocked reading there.
Hangup(c) ==
  /\ client[c] = "sent"
  /\ \/ answer[c] # NoItem
     \/ /\ c \in Range(accepted) /\ c \notin isopen
        /\ \A t \in Producers : ~(stage[t] = "reading" /\ fd[t] = c)
  /\ client' = [client EXCEPT ![c] = "closed"]
  /\ UNCHANGED <<answer, serverVars, bufferVars>>
----------------------------------------------------------------------------
(* main()                                                                  *)

\* Mutant of Accept: a second Producer does not store its socket.
Accept_ForgetsSocket(c) ==
  LET t == Len(accepted) + 1
  IN  /\ main = "accept"
      /\ client[c] # "new" /\ c \notin Range(accepted)
      /\ p' = IF p = NoClient THEN c ELSE p
      /\ accepted' = Append(accepted, c)
      /\ isopen' = isopen \cup {c}
      /\ Goto(t, "read")
      /\ main' = IF t = 1 THEN "accept" ELSE "join1"
      /\ overtaken' = (overtaken \/ \E s \in 1 .. t - 1 : stage[s] # "done")
      /\ UNCHANGED <<joined, fd, cout_mu, unread, consumed, clientVars,
                     bufferVars>>

\* accept(), the constructor of p, the new thread and the test of i, which
\* is 0 only for the first client.
Accept(c) ==
  LET t == Len(accepted) + 1
  IN  /\ main = "accept"
      /\ client[c] # "new" /\ c \notin Range(accepted)
      /\ p' = c
      /\ accepted' = Append(accepted, c)
      /\ isopen' = isopen \cup {c}
      /\ Goto(t, "read")
      /\ main' = IF t = 1 THEN "accept" ELSE "join1"
      /\ overtaken' = (overtaken \/ \E s \in 1 .. t - 1 : stage[s] # "done")
      /\ UNCHANGED <<joined, fd, cout_mu, unread, consumed, clientVars,
                     bufferVars>>

\* threads[0].join(): joining a thread a second time throws, which nothing
\* catches.
JoinFirst ==
  /\ main = "join1"
  /\ \/ joined /\ main' = "dead"
     \/ ~joined /\ stage[1] = "done" /\ main' = "join2"
  /\ UNCHANGED <<joined, p, accepted, stage, fd, cout_mu, unread, isopen,
                 consumed, overtaken, clientVars, bufferVars>>

\* Mutant of JoinSecond: the loop goes on without waiting.
JoinSecond_NoWait ==
  /\ main = "join2"
  /\ main' = "accept"
  /\ joined' = TRUE
  /\ UNCHANGED <<p, accepted, stage, fd, cout_mu, unread, isopen, consumed,
                 overtaken, clientVars, bufferVars>>

\* threads[1].join()
JoinSecond ==
  /\ main = "join2"
  /\ stage[2] = "done"
  /\ main' = "accept"
  /\ joined' = TRUE
  /\ UNCHANGED <<p, accepted, stage, fd, cout_mu, unread, isopen, consumed,
                 overtaken, clientVars, bufferVars>>
----------------------------------------------------------------------------
(* Producer::run and Consumer::run                                         *)

Alive == main # "dead"

\* read(client_socket, ...) is entered; on a closed socket it fails at once.
EnterRead(t) ==
  /\ Alive /\ stage[t] = "read"
  /\ fd' = [fd EXCEPT ![t] = p]
  /\ \/ p \in isopen /\ Goto(t, "reading") /\ UNCHANGED num
     \/ /\ p \notin isopen /\ Goto(t, "call")
        /\ num' = [num EXCEPT ![t] = Garbage]
  /\ UNCHANGED <<main, joined, p, accepted, cout_mu, unread, isopen, consumed,
                 overtaken, clientVars, mu, buffer_, pc>>

\* read() returns the request, or 0 at the end of the stream.
FinishRead(t) ==
  /\ Alive /\ stage[t] = "reading"
  /\ \/ /\ fd[t] \in unread
        /\ unread' = unread \ {fd[t]}
        /\ num' = [num EXCEPT ![t] = fd[t]]
     \/ /\ fd[t] \notin unread /\ client[fd[t]] = "closed"
        /\ num' = [num EXCEPT ![t] = Garbage]
        /\ UNCHANGED unread
  /\ Goto(t, "call")
  /\ UNCHANGED <<main, joined, p, accepted, fd, cout_mu, isopen, consumed,
                 overtaken, clientVars, mu, buffer_, pc>>

\* buffer_.add(msg1), msg2 = buffer_.remove()
Call(t) ==
  /\ Alive /\ stage[t] = "call"
  /\ \/ t \in Producers /\ Add(t, num[t])
     \/ t \in Consumers /\ Remove(t)
  /\ Goto(t, "inside")
  /\ UNCHANGED <<main, joined, p, accepted, fd, cout_mu, unread, isopen,
                 consumed, overtaken, clientVars>>

InCall(t) ==
  /\ Alive /\ stage[t] = "inside"
  /\ Step(t)
  /\ Goto(t, IF pc[t] = "notify" THEN "cout" ELSE "inside")
  /\ UNCHANGED <<main, joined, p, accepted, fd, cout_mu, unread, isopen,
                 consumed, overtaken, clientVars>>

Spurious(t) == Alive /\ SpuriousWakeup(t) /\ UNCHANGED <<serverVars, clientVars>>

LockCout(t) ==
  /\ Alive /\ stage[t] = "cout"
  /\ cout_mu = NoThread
  /\ cout_mu' = t
  /\ Goto(t, "print")
  /\ UNCHANGED <<main, joined, p, accepted, fd, unread, isopen, consumed,
                 overtaken, clientVars, bufferVars>>

\* "Produced: " or "Consumed: ", then cout_mu is released.
PrintLine(t) ==
  /\ Alive /\ stage[t] = "print"
  /\ cout_mu' = NoThread
  /\ consumed' = IF t \in Consumers THEN Append(consumed, num[t]) ELSE consumed
  /\ Goto(t, "sleep")
  /\ UNCHANGED <<main, joined, p, accepted, fd, unread, isopen, overtaken,
                 clientVars, bufferVars>>

Awaken(t) ==
  /\ Alive /\ stage[t] = "sleep"
  /\ Goto(t, IF t \in Consumers THEN "call" ELSE "write")
  /\ UNCHANGED <<main, joined, p, accepted, fd, cout_mu, unread, isopen,
                 consumed, overtaken, clientVars, bufferVars>>

\* write(client_socket, buff_snd, ...): the socket is whatever p holds now.
Write(t) ==
  /\ Alive /\ stage[t] = "write"
  /\ fd' = [fd EXCEPT ![t] = p]
  /\ answer' = IF p \in isopen /\ client[p] = "sent" /\ answer[p] = NoItem
               THEN [answer EXCEPT ![p] = num[t]] ELSE answer
  /\ Goto(t, "close")
  /\ UNCHANGED <<main, joined, p, accepted, cout_mu, unread, isopen, consumed,
                 overtaken, client, bufferVars>>

\* close(client_socket); run() returns.
Close(t) ==
  /\ Alive /\ stage[t] = "close"
  /\ fd' = [fd EXCEPT ![t] = p]
  /\ isopen' = isopen \ {p}
  /\ Goto(t, "done")
  /\ UNCHANGED <<main, joined, p, accepted, cout_mu, unread, consumed,
                 overtaken, clientVars, bufferVars>>

Thread(t) ==
  \/ EnterRead(t)
  \/ FinishRead(t)
  \/ Call(t)
  \/ InCall(t)
  \/ LockCout(t)
  \/ PrintLine(t)
  \/ Awaken(t)
  \/ Write(t)
  \/ Close(t)

Next ==
  \/ \E c \in Clients : Connect(c) \/ Hangup(c) \/ Accept(c)
  \/ JoinFirst
  \/ JoinSecond
  \/ \E t \in Threads : Thread(t) \/ Spurious(t)

(***************************************************************************)
(* Threads run, mutexes that keep becoming free are granted (their owners  *)
(* sleep 50 ms between two uses), and a client whose read() can return     *)
(* goes on.  No client has to connect.                                     *)
(***************************************************************************)
Fairness ==
  /\ WF_vars(JoinFirst) /\ WF_vars(JoinSecond)
  /\ \A c \in Clients : WF_vars(Hangup(c)) /\ WF_vars(Accept(c))
  /\ \A t \in Threads : /\ WF_vars(Thread(t))
                        /\ SF_vars(InCall(t) /\ pc[t] = "lock")
                        /\ SF_vars(LockCout(t))

Spec == Init /\ [][Next]_vars /\ Fairness
----------------------------------------------------------------------------
\* Types of the server's and the clients' state.
TypeOK ==
  /\ BufferTypeOK
  /\ main \in {"accept", "join1", "join2", "dead"} /\ joined \in BOOLEAN
  /\ p \in Clients \cup {NoClient}
  /\ accepted \in Seq(Clients)
  /\ stage \in [Threads -> Stages]
  /\ fd \in [Threads -> Clients \cup {NoClient}]
  /\ cout_mu \in Threads \cup {NoThread}
  /\ client \in [Clients -> {"new", "sent", "closed"}]
  /\ unread \subseteq Clients /\ isopen \subseteq Clients
  /\ answer \in [Clients -> Items \cup {NoItem}]
  /\ consumed \in Seq(Items)
  /\ overtaken \in BOOLEAN

Occurrences(seq, x) == Cardinality({i \in DOMAIN seq : seq[i] = x})

\* Threads that hold the request of client c outside the deque: a producer
\* from read() to push_back, the consumer from pop_back to its output.
Holders(c) ==
  {t \in Threads : num[t] = c /\
     IF t \in Producers
     THEN stage[t] = "call" \/ pc[t] \in {"lock", "test", "wait", "act"}
     ELSE pc[t] \in {"unlock", "notify"} \/ stage[t] \in {"cout", "print"}}

\* Whoever reads a request, it is handed on exactly once: it is unread, with
\* one thread, in the deque, or in the consumer's output, and in one of them.
RequestInOnePlace ==
  TypeOK /\
  \A c \in Clients : client[c] # "new" =>
    (IF c \in unread THEN 1 ELSE 0) + Cardinality(Holders(c))
      + Occurrences(buffer_, c) + Occurrences(consumed, c) = 1

\* The server only dies in the third turn of its loop, when it joins the
\* first two threads again, and by then both have ended.
DiesInThirdTurn ==
  main = "dead" => Len(accepted) = 3 /\ stage[1] = "done" /\ stage[2] = "done"

\* From the third client on p is never overwritten while a thread needs it:
\* only the second accept() can disturb a running producer.
OnlySecondAcceptOvertakes ==
  [][ overtaken' # overtaken => Len(accepted) = 1 ]_vars

\* As long as p was not overwritten too early, every thread serves its own
\* client and every answer is the client's own request.
OwnClientUnlessOvertaken ==
  ~overtaken =>
    /\ \A t \in Producers : fd[t] # NoClient => fd[t] = accepted[t]
    /\ \A c \in Clients : answer[c] \in {NoItem, c}

\* The requests that were read and have not reached the consumer's output.
OnTheirWay ==
  {c \in Clients : client[c] # "new" /\ c \notin unread} \ Range(consumed)

\* Every request that was read reaches the consumer's output, unless the
\* server dies first, although remove() takes the newest message.  (A client
\* sends one request, so once none is on its way the last ones arrived.)
ReadIsConsumed == OnTheirWay # {} ~> main = "dead" \/ OnTheirWay = {}

\* README: "Server spawns producer thread per client."  Thread t serves the
\* t-th client and no other.
ThreadPerClient ==
  \A t \in Producers : fd[t] # NoClient => fd[t] = accepted[t]
=============================================================================
