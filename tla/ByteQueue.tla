------------------------------ MODULE ByteQueue ------------------------------
(***************************************************************************)
(* What io_handler.h promises of an I/O buffer: a queue of bytes.           *)
(***************************************************************************)
EXTENDS Integers, Sequences

CONSTANTS Bytes, Newline, MaxRequest

VARIABLES
    queue,      \* the bytes written and not yet read
    out         \* what the last read, peek or read_line delivered

vars == <<queue, out>>

Least(m, n) == IF m < n THEN m ELSE n
FirstBytes(n) == SubSeq(queue, 1, Least(n, Len(queue)))
AfterBytes(n) == SubSeq(queue, Least(n, Len(queue)) + 1, Len(queue))

Init == queue = <<>> /\ out = <<>>

\* A write appends, however much.
Write ==
    /\ Len(queue') > Len(queue)
    /\ SubSeq(queue', 1, Len(queue)) = queue
    /\ \A i \in DOMAIN queue' : queue'[i] \in Bytes
    /\ UNCHANGED out

Read(n) == out' = FirstBytes(n) /\ queue' = AfterBytes(n)

Peek(n) == out' = FirstBytes(n) /\ UNCHANGED queue

\* A line of n bytes, its newline the last of them and the first in the queue.
LineIs(n) ==
    /\ n \in DOMAIN queue /\ queue[n] = Newline
    /\ \A m \in 1 .. (n - 1) : queue[m] # Newline

\* The line is delivered if it is shorter than the caller's buffer, else it stays.
ReadLine(room) ==
    \/ \E n \in 1 .. (room - 1) : LineIs(n) /\ Read(n)
    \/ (\A n \in 1 .. (room - 1) : ~LineIs(n)) /\ out' = <<>> /\ UNCHANGED queue

Clear == queue' = <<>> /\ UNCHANGED out

Next ==
    \/ Write
    \/ \E n \in 1 .. MaxRequest : Read(n) \/ Peek(n) \/ ReadLine(n)
    \/ Clear

Spec == Init /\ [][Next]_vars
=============================================================================
