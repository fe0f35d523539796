--------------------------- MODULE AverageAgents ---------------------------
(***************************************************************************)
(* producer_consumer/producer-consumer-average.cpp: a producer agent sends *)
(* count, count - 1, ..., 1 and the sentinel 0 through an unbounded_buffer *)
(* to a consumer agent, which averages them; wmain waits for both and      *)
(* prints the average.  Agents, buffer and single_assignment are the       *)
(* Concurrency Runtime's: send() never waits, receive() waits for a value. *)
(***************************************************************************)
EXTENDS Integers, Sequences

CONSTANTS Counts,    \* values of count, 100 in the source
          NONE

VARIABLES count,     \* wmain's constant
          buffer,    \* unbounded_buffer
          left,      \* producer._count
          producer,  \* "run", "done"
          sum, n,    \* the consumer's sum and count
          consumer,  \* "run", "send", "done"
          average,   \* consumer._average, a single_assignment
          main,      \* what wmain does: "producer", "consumer", "print", "end"
          printed    \* the average wmain printed

vars == <<count, buffer, left, producer, sum, n, consumer, average, main,
          printed>>

sentinel == 0

Init ==
  /\ count \in Counts
  /\ buffer = <<>>
  /\ left = count
  /\ producer = "run"
  /\ sum = 0 /\ n = 0
  /\ consumer = "run"
  /\ average = NONE
  /\ main = "producer"
  /\ printed = NONE

\* producer_agent::run: one value, or the sentinel and done().
Produce ==
  /\ producer = "run"
  /\ IF left > 0
     THEN /\ buffer' = Append(buffer, left)
          /\ left' = left - 1
          /\ UNCHANGED producer
     ELSE /\ buffer' = Append(buffer, sentinel)
          /\ producer' = "done"
          /\ UNCHANGED left
  /\ UNCHANGED <<count, sum, n, consumer, average, main, printed>>

\* Mutant of Received: the sentinel ends the loop after it was counted.
Received_Counts(v) == sum' = sum + v /\ n' = n + 1

\* The body of the consumer's loop.
Received(v) ==
  IF v = sentinel THEN UNCHANGED <<sum, n>> ELSE sum' = sum + v /\ n' = n + 1

\* consumer_agent::run: receive(_source).
Receive ==
  /\ consumer = "run" /\ buffer # <<>>
  /\ buffer' = Tail(buffer)
  /\ Received(Head(buffer))
  /\ consumer' = IF Head(buffer) = sentinel THEN "send" ELSE "run"
  /\ UNCHANGED <<count, left, producer, average, main, printed>>

\* send(_average, sum / count), then done().
SendAverage ==
  /\ consumer = "send"
  /\ average' = sum \div n
  /\ consumer' = "done"
  /\ UNCHANGED <<count, buffer, left, producer, sum, n, main, printed>>

\* wmain: agent::wait for the producer, then the consumer, then
\* consumer.average().
Main ==
  /\ \/ /\ main = "producer" /\ producer = "done"
        /\ main' = "consumer" /\ UNCHANGED printed
     \/ /\ main = "consumer" /\ consumer = "done"
        /\ main' = "print" /\ UNCHANGED printed
     \/ /\ main = "print" /\ average # NONE
        /\ main' = "end" /\ printed' = average
  /\ UNCHANGED <<count, buffer, left, producer, sum, n, consumer, average>>

Next == Produce \/ Receive \/ SendAverage \/ Main

\* The runtime schedules every agent that can run, and so the main thread.
Fairness == WF_vars(Produce) /\ WF_vars(Receive \/ SendAverage) /\ WF_vars(Main)

Spec == Init /\ [][Next]_vars /\ Fairness
----------------------------------------------------------------------------
\* However the two agents are scheduled, wmain ends, and what it prints is
\* the average of all the values sent.
AveragePrinted == <>(main = "end" /\ printed = (count + 1) \div 2)
=============================================================================
