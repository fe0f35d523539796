----------------------------- MODULE CounterFile -----------------------------
(***************************************************************************)
(* The counter files of the two file systems: JIFS/lwnfs/lwnfs.c, and      *)
(* JIFS/file.c, which repeats its operations line by line.  A file is an   *)
(* atomic counter; reading it from the start counts, reading on gives the  *)
(* rest of the same text, writing sets it.  Descriptors are used by        *)
(* concurrent processes, and the counters are static variables that every  *)
(* mount of the file system shares.                                        *)
(***************************************************************************)
EXTENDS Integers, Sequences, FiniteSets

CONSTANTS
  Procs,        \* processes, with one descriptor each
  Supers,       \* super blocks
  Base,         \* "%d" is decimal; a smaller base gives long texts sooner
  MaxCount,     \* bound: no read counts beyond this
  Written       \* the numbers processes write

VARIABLES
  counter,      \* counter and subcounter
  fd            \* fd[p]: p's open file, its offset and the read in progress

Names == {"counter", "subcounter"}
fileVars == <<counter, fd>>

\* A process without a file.  seen is (history) what was read since offset 0,
\* first the value it began with, clean that nobody else has changed the
\* counter since.
Closed == [file |-> "none", sb |-> 0, offset |-> 0, loaded |-> FALSE, v |-> 0,
           seen |-> <<>>, first |-> 0, clean |-> FALSE]

\* snprintf("%d\n")
Digits[n \in Nat] == IF n < Base THEN <<n>> ELSE Append(Digits[n \div Base], n % Base)
Text(v) == (IF v < 0 THEN <<"-">> \o Digits[0 - v] ELSE Digits[v]) \o <<"newline">>

\* What p does to a counter disturbs the reads of the others.
Disturb(p, f) ==
  [q \in Procs |-> IF q # p /\ fd[q].file = f THEN [fd[q] EXCEPT !.clean = FALSE] ELSE fd[q]]

FileInit ==
  /\ counter = [f \in Names |-> 0]
  /\ fd = [p \in Procs |-> Closed]

\* open(): private_data is the counter of the inode.
Open(p, f, s) ==
  /\ fd[p] = Closed
  /\ fd' = [fd EXCEPT ![p] = [Closed EXCEPT !.file = f, !.sb = s]]
  /\ UNCHANGED counter

Close(p) ==
  /\ fd[p] # Closed /\ ~fd[p].loaded
  /\ fd' = [fd EXCEPT ![p] = Closed]
  /\ UNCHANGED counter

\* read(): atomic_read comes first and is a step of its own.
ReadLoad(p) ==
  /\ fd[p] # Closed /\ ~fd[p].loaded
  /\ fd[p].offset = 0 => counter[fd[p].file] < MaxCount
  /\ LET v == counter[fd[p].file] IN
     fd' = [fd EXCEPT ![p].loaded = TRUE, ![p].v = v,
                      ![p].first = IF fd[p].offset = 0 THEN v ELSE @,
                      ![p].clean = @ \/ fd[p].offset = 0]
  /\ UNCHANGED counter

\* Mutant of Shown: the value is shown as it is at every offset.
Shown_Again(d) == d.v

\* The value a read shows: reading on, what offset 0 showed.
Shown(d) == IF d.offset > 0 THEN d.v - 1 ELSE d.v

\* atomic_inc, at the beginning of the file only: what others did since the
\* atomic_read is kept.
Counted(d) == IF d.offset > 0 THEN counter[d.file] ELSE counter[d.file] + 1

\* The rest of read(): nothing beyond the text, at most n characters of the
\* rest, and the offset moves only if they could be copied.
ReadRest(p, n, copied) ==
  LET d == fd[p]
      text == Text(Shown(d))
      rest == Len(text) - d.offset
      count == IF n > rest THEN rest ELSE n
      got == IF copied /\ rest >= 0 THEN SubSeq(text, d.offset + 1, d.offset + count) ELSE <<>>
  IN
  /\ d.loaded
  /\ counter' = [counter EXCEPT ![d.file] = Counted(d)]
  /\ fd' = [(IF d.offset > 0 THEN fd ELSE Disturb(p, d.file)) EXCEPT
              ![p] = [d EXCEPT !.loaded = FALSE, !.v = 0, !.offset = @ + Len(got),
                               !.seen = (IF d.offset = 0 THEN <<>> ELSE @) \o got]]

\* write(): from the beginning only; the offset stays where it is.
Write(p, w) ==
  /\ fd[p] # Closed /\ ~fd[p].loaded
  /\ fd[p].offset = 0
  /\ counter' = [counter EXCEPT ![fd[p].file] = w]
  /\ fd' = Disturb(p, fd[p].file)

FileOps ==
  \E p \in Procs :
    \/ Close(p) \/ ReadLoad(p)
    \/ \E n \in {1, 20}, copied \in BOOLEAN : ReadRest(p, n, copied)
    \/ \E w \in Written : Write(p, w)

\* "the value returned when offset was zero": a process that reads a file in
\* pieces, while nobody else touches the counter, gets the text of one value.
UndisturbedReadsWhole ==
  \A p \in Procs :
    LET d == fd[p] IN
    d.clean => \E n \in 0 .. Len(Text(d.first)) : d.seen = SubSeq(Text(d.first), 1, n)
=============================================================================
