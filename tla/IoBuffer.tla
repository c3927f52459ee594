------------------------------ MODULE IoBuffer ------------------------------
(***************************************************************************)
(* The growing ring buffer md_io_buffer of src/src/io_handler.c, a          *)
(* sequential object: one action per operation.                             *)
(***************************************************************************)
EXTENDS Integers, Sequences

CONSTANTS
    Bytes,          \* the bytes written, Newline among them
    Newline,
    Junk,           \* memory never written
    InitialSize,    \* md_io_buffer_create's initial_size
    MaxRequest,     \* bound: the size argument of an operation
    MaxCapacity,    \* bound: the buffer is not grown past this
    GrowWrapped     \* whether a write may grow the buffer while its data is wrapped

ASSUME BufferAssumption ==
    /\ Newline \in Bytes /\ Junk \notin Bytes
    /\ InitialSize \in Nat \ {0} /\ MaxRequest \in Nat \ {0} /\ MaxCapacity \in Nat
    /\ GrowWrapped \in BOOLEAN

VARIABLES data, size, capacity, head, tail,
          out       \* what the last read, peek or read_line put in the caller's buffer

bufferVars == <<data, size, capacity, head, tail, out>>

-----------------------------------------------------------------------------
\* The bytes in the order a reader gets them, as has_line walks them.
Contents == [i \in 1 .. size |-> data[(head + i - 1) % capacity]]

\* The unread bytes go past the end of the memory and on from its start.
Wrapped == size > 0 /\ head + size > capacity

BufferInit ==
    /\ data = [k \in 0 .. (InitialSize - 1) |-> Junk]
    /\ size = 0 /\ capacity = InitialSize /\ head = 0 /\ tail = 0
    /\ out = <<>>

-----------------------------------------------------------------------------
\* The capacity after making room for n bytes.  (md_io_buffer_write's attempt to compact
\* first asks for capacity - size >= n inside the test that this is not so.)
CapacityFor(n) ==
    IF size + n <= capacity THEN capacity
    ELSE IF 2 * capacity < size + n THEN size + n ELSE 2 * capacity

\* realloc: what was there stays where it was, the rest is uninitialised.
Grown(c) == [k \in 0 .. (c - 1) |-> IF k < capacity THEN data[k] ELSE Junk]

\* The bytes go in at the write position, in one piece or two, into a buffer grown for them.
Write(d) ==
    LET n == Len(d)
        c == CapacityFor(n)
        old == Grown(c)
    IN  /\ c <= MaxCapacity
        /\ c > capacity => GrowWrapped \/ ~Wrapped
        /\ capacity' = c
        /\ data' = [k \in 0 .. (c - 1) |->
                        IF k >= tail /\ k < tail + n THEN d[k - tail + 1]
                        ELSE IF k + c < tail + n THEN d[k + c - tail + 1]
                        ELSE old[k]]
        /\ tail' = IF tail + n <= c THEN tail + n ELSE tail + n - c
        /\ size' = size + n
        /\ UNCHANGED <<head, out>>

\* The first n unread bytes, copied in one piece or two.
Copied(n) ==
    [i \in 1 .. n |-> IF head + i <= capacity THEN data[head + i - 1]
                      ELSE data[head + i - 1 - capacity]]

\* Mutant: an emptied buffer resets its read position only.
ReadKeepsTail(n) ==
    LET k == IF n > size THEN size ELSE n
    IN  /\ out' = Copied(k)
        /\ size' = size - k
        /\ head' = IF k = size THEN 0
                   ELSE IF head + k <= capacity THEN head + k ELSE head + k - capacity
        /\ UNCHANGED <<data, capacity, tail>>

\* The indices start over when the buffer is empty.
Read(n) ==
    LET k == IF n > size THEN size ELSE n
    IN  /\ out' = Copied(k)
        /\ size' = size - k
        /\ head' = IF k = size THEN 0
                   ELSE IF head + k <= capacity THEN head + k ELSE head + k - capacity
        /\ tail' = IF k = size THEN 0 ELSE tail
        /\ UNCHANGED <<data, capacity>>

Peek(n) ==
    /\ out' = Copied(IF n > size THEN size ELSE n)
    /\ UNCHANGED <<data, size, capacity, head, tail>>

\* md_io_buffer_has_line finds a line of n bytes.
HasLine(n) ==
    /\ n \in 1 .. size /\ Contents[n] = Newline
    /\ \A m \in 1 .. (n - 1) : Contents[m] # Newline

\* A line that does not fit with its terminator is refused and stays.
ReadLine(room) ==
    \/ \E n \in 1 .. size : HasLine(n) /\ n < room /\ Read(n)
    \/ /\ \A n \in 1 .. size : HasLine(n) => n >= room
       /\ out' = <<>>
       /\ UNCHANGED <<data, size, capacity, head, tail>>

\* Mutant: the data is moved as if it were never wrapped.
CompactUnwrapped ==
    /\ size > 0 /\ head > 0
    /\ data' = [k \in 0 .. (capacity - 1) |-> IF k < size /\ head + k < capacity
                                               THEN data[head + k] ELSE data[k]]
    /\ head' = 0
    /\ tail' = size
    /\ UNCHANGED <<size, capacity, out>>

Compact ==
    /\ size > 0 /\ head > 0
    /\ data' = [k \in 0 .. (capacity - 1) |-> IF k < size THEN Contents[k + 1] ELSE data[k]]
    /\ head' = 0
    /\ tail' = size
    /\ UNCHANGED <<size, capacity, out>>

Clear ==
    /\ size' = 0 /\ head' = 0 /\ tail' = 0
    /\ UNCHANGED <<data, capacity, out>>

-----------------------------------------------------------------------------
BufferNext ==
    \/ \E n \in 1 .. MaxRequest :
          \/ \E d \in [1 .. n -> Bytes] : Write(d)
          \/ Read(n)
          \/ Peek(n)
          \/ ReadLine(n)
    \/ Compact
    \/ Clear

BufferSpec == BufferInit /\ [][BufferNext]_bufferVars

-----------------------------------------------------------------------------
(* Properties.                                                              *)

\* The three views of the fill level agree: the write position is where the unread bytes
\* end, on whichever lap, and every unread byte was written (md_io_buffer_write,
\* _read); both indices may stand one past the end of the memory.
IndicesAgree ==
    /\ tail = head + size \/ tail = head + size - capacity
    /\ size = 0 => head = 0 /\ tail = 0
    /\ \A i \in 1 .. size : Contents[i] # Junk

\* The ring, its wrapping, its growth and its compaction are invisible: the buffer is a
\* queue of bytes (io_handler.h:93, "removes from front").
Queue == INSTANCE ByteQueue WITH queue <- Contents, out <- out
ImplementsByteQueue == Queue!Spec
=============================================================================
