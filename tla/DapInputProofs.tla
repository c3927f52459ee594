--------------------------- MODULE DapInputProofs ---------------------------
(***************************************************************************)
(* The ring buffer of io_handler.c is a queue of bytes, for every initial   *)
(* size, every request and every capacity, as long as it is not grown while *)
(* its data is wrapped: NoWrappedGrowth, the condition under which the run   *)
(* checks it (without it the property is false, see the README).            *)
(*                                                                         *)
(* The invariant Ring says which lap the write position is on; IndicesAgree *)
(* leaves that open, and so does not survive a write.                       *)
(*                                                                         *)
(* The parser hands messages over in order, for any number of messages of   *)
(* any length: what was handled comes before what is in the buffer, and     *)
(* that before what is still unread (Ordered).                              *)
(* While every read ends well it hands over all: whole messages are waiting *)
(* behind those handled, without a gap (Complete).                          *)
(*                                                                         *)
(* The dispatcher calls each callback that is due, for every set of         *)
(* descriptors and every size of the table: the invariant relates the table, *)
(* which the callbacks change, to the copy poll filled in, entry for entry   *)
(* from the place the dispatcher has reached, as long as the changes were of *)
(* one kind (Aligned), and by the number of entries answered (Counted).      *)
(***************************************************************************)
EXTENDS IoHandler, IoBuffer, DapFraming, SequenceTheorems, FiniteSetTheorems, TLAPS

NoWrappedGrowth == GrowWrapped = FALSE

\* A position less than two laps from the start of the memory, brought into it.
Place(x, c) == IF x < c THEN x ELSE x - c

\* The unread bytes, walked with a comparison in place of the remainder.
Unread == [i \in 1 .. size |-> data[Place(head + i - 1, capacity)]]

RingTyped ==
    /\ capacity \in Nat \ {0}
    /\ size \in 0 .. capacity /\ head \in 0 .. capacity /\ tail \in 0 .. capacity
    /\ data \in [0 .. (capacity - 1) -> Bytes \cup {Junk}]

\* The write position is where the unread bytes end, and on the second lap only if
\* they go past the end of the memory.
WriteFollows == tail = IF head + size <= capacity THEN head + size ELSE head + size - capacity

EmptyStartsOver == size = 0 => head = 0 /\ tail = 0

UnreadWritten == \A i \in 1 .. size : data[Place(head + i - 1, capacity)] \in Bytes

Ring == RingTyped /\ WriteFollows /\ EmptyStartsOver /\ UnreadWritten

-----------------------------------------------------------------------------
(* Positions and contents.                                                  *)

LEMMA Lap ==
    ASSUME NEW c \in Nat \ {0}, NEW x \in Nat, x < 2 * c
    PROVE  x % c = Place(x, c)
BY SMTT(30) DEF Place

LEMMA PlaceInside ==
    ASSUME NEW c \in Nat \ {0}, NEW x \in Nat, x < 2 * c
    PROVE  Place(x, c) \in 0 .. (c - 1)
BY DEF Place

\* What a reader gets is a sequence of bytes as long as the fill level says.
ContentsShape ==
    /\ Contents \in Seq(Bytes) /\ Len(Contents) = size /\ DOMAIN Contents = 1 .. size
    /\ \A i \in 1 .. size : Contents[i] = data[Place(head + i - 1, capacity)]

LEMMA ContentsUnread == Ring => ContentsShape
<1> SUFFICES ASSUME Ring PROVE ContentsShape
    OBVIOUS
<1>1. \A i \in 1 .. size : (head + i - 1) % capacity = Place(head + i - 1, capacity)
  <2> TAKE i \in 1 .. size
  <2>1. head + i - 1 \in Nat /\ head + i - 1 < 2 * capacity /\ capacity \in Nat \ {0}
        BY DEF Ring, RingTyped
  <2> QED
      BY <2>1, Lap
<1>2. Contents = Unread
      BY <1>1 DEF Contents, Unread
<1>3. size \in Nat
      BY DEF Ring, RingTyped
<1>4. \A i \in 1 .. size : Unread[i] = data[Place(head + i - 1, capacity)]
      BY DEF Unread
<1>5. \A i \in 1 .. size : Unread[i] \in Bytes
      BY <1>4 DEF Ring, UnreadWritten
<1>6. Unread \in [1 .. size -> Bytes]
      BY <1>5 DEF Unread
<1>7. Unread \in Seq(Bytes) /\ Len(Unread) = size /\ DOMAIN Unread = 1 .. size
      BY <1>3, <1>6
<1> QED
    BY <1>2, <1>4, <1>7 DEF ContentsShape

LEMMA ContentsUnreadNext == Ring' => ContentsShape'
BY ContentsUnread, PTL

\* The first bytes of the queue, in one piece or two.
LEMMA CopiedIsFront ==
    ASSUME Ring, NEW k \in 0 .. size
    PROVE  Copied(k) = SubSeq(Contents, 1, k)
<1>1. size \in Nat /\ k \in Nat /\ head \in Nat /\ capacity \in Nat
      BY DEF Ring, RingTyped
<1> DEFINE s == SubSeq(Contents, 1, k)
<1>2. \A i \in 1 .. k : Contents[i] \in Bytes
      BY <1>1, ContentsUnread DEF ContentsShape, Ring, UnreadWritten
<1>3. s \in Seq(Bytes) /\ Len(s) = k /\ \A i \in 1 .. k : s[i] = Contents[i]
  <2>1. /\ s \in Seq(Bytes)
        /\ Len(s) = IF 1 <= k THEN k - 1 + 1 ELSE 0
        /\ \A i \in 1 .. (k - 1 + 1) : s[i] = Contents[1 + i - 1]
        BY <1>1, <1>2, SubSeqProperties
  <2> QED
      BY <1>1, <2>1
<1>4. \A i \in 1 .. k : s[i] = data[Place(head + i - 1, capacity)]
      BY <1>1, <1>3, ContentsUnread DEF ContentsShape
<1>5. \A i \in 1 .. k : s[i] = Copied(k)[i]
      BY <1>1, <1>4 DEF Copied, Place
<1>6. s \in [1 .. k -> Bytes]
      BY <1>3, LenProperties
<1> QED
    BY <1>5, <1>6 DEF Copied

\* The bytes after the first k of them are the queue that a read of k leaves.
LEMMA RestIsBack ==
    ASSUME Ring, NEW k \in 0 .. size, Ring', size' = size - k,
           \A i \in 1 .. (size - k) : Contents'[i] = Contents[k + i]
    PROVE  Contents' = SubSeq(Contents, k + 1, size)
<1>1. size \in Nat /\ k \in Nat
      BY DEF Ring, RingTyped
<1> DEFINE s == SubSeq(Contents, k + 1, size)
<1>2. \A i \in (k + 1) .. size : Contents[i] \in Bytes
      BY <1>1, ContentsUnread DEF ContentsShape, Ring, UnreadWritten
<1>3. s \in Seq(Bytes) /\ Len(s) = size - k /\ \A i \in 1 .. (size - k) : s[i] = Contents[k + i]
  <2>1. /\ s \in Seq(Bytes)
        /\ Len(s) = IF k + 1 <= size THEN size - (k + 1) + 1 ELSE 0
        /\ \A i \in 1 .. (size - (k + 1) + 1) : s[i] = Contents[k + 1 + i - 1]
        BY <1>1, <1>2, SubSeqProperties
  <2> QED
      BY <1>1, <2>1
<1>4. Contents' \in Seq(Bytes) /\ Len(Contents') = size - k
      BY ContentsUnreadNext DEF ContentsShape
<1> QED
    BY <1>1, <1>3, <1>4, SeqEqual

-----------------------------------------------------------------------------
(* Each operation keeps the ring and is an operation of the queue.          *)

LEMMA ReadMaps ==
    ASSUME Ring, NEW n \in Nat, Read(n)
    PROVE  Ring' /\ Queue!Read(n)
<1> DEFINE k == IF n > size THEN size ELSE n
<1>1. /\ capacity \in Nat \ {0} /\ size \in 0 .. capacity /\ head \in 0 .. capacity
      /\ tail \in 0 .. capacity /\ k \in 0 .. size
      BY DEF Ring, RingTyped
<1>2. /\ size' = size - k /\ capacity' = capacity /\ data' = data /\ out' = Copied(k)
      /\ head' = IF k = size THEN 0
                 ELSE IF head + k <= capacity THEN head + k ELSE head + k - capacity
      /\ tail' = IF k = size THEN 0 ELSE tail
      BY DEF Read
<1>3. \A i \in 1 .. (size - k) :
          Place(head' + i - 1, capacity) = Place(head + (k + i) - 1, capacity)
      BY <1>1, <1>2 DEF Place
<1>4. Ring'
  <2>1. RingTyped'
        BY <1>1, <1>2 DEF Ring, RingTyped
  <2>2. WriteFollows' /\ EmptyStartsOver'
        BY <1>1, <1>2 DEF Ring, WriteFollows, EmptyStartsOver
  <2>3. UnreadWritten'
    <3>1. \A i \in 1 .. (size - k) : data[Place(head + (k + i) - 1, capacity)] \in Bytes
      <4> TAKE i \in 1 .. (size - k)
      <4>1. k + i \in 1 .. size
            BY <1>1
      <4> QED
          BY <4>1 DEF Ring, UnreadWritten
    <3> QED
        BY <1>2, <1>3, <3>1 DEF UnreadWritten
  <2> QED
      BY <2>1, <2>2, <2>3 DEF Ring
<1>5. \A i \in 1 .. (size - k) : Contents'[i] = Contents[k + i]
  <2>1. \A i \in 1 .. (size - k) : Contents'[i] = data[Place(head' + i - 1, capacity)]
        BY <1>2, <1>4, ContentsUnreadNext DEF ContentsShape
  <2>2. \A i \in 1 .. (size - k) : Contents[k + i] = data[Place(head + (k + i) - 1, capacity)]
        BY <1>1, ContentsUnread DEF ContentsShape
  <2> QED
      BY <1>3, <2>1, <2>2
<1>6. Contents' = SubSeq(Contents, k + 1, size)
      BY <1>1, <1>2, <1>4, <1>5, RestIsBack
<1>7. out' = SubSeq(Contents, 1, k)
      BY <1>1, <1>2, CopiedIsFront
<1>8. Len(Contents) = size /\ Queue!Least(n, Len(Contents)) = k
      BY <1>1, ContentsUnread DEF ContentsShape, Queue!Least
<1> QED
    BY <1>4, <1>6, <1>7, <1>8 DEF Queue!Read, Queue!FirstBytes, Queue!AfterBytes

LEMMA PeekMaps ==
    ASSUME Ring, NEW n \in Nat, Peek(n)
    PROVE  Ring' /\ Queue!Peek(n)
<1> DEFINE k == IF n > size THEN size ELSE n
<1>1. k \in 0 .. size /\ size \in Nat
      BY DEF Ring, RingTyped
<1>2. out' = SubSeq(Contents, 1, k)
      BY <1>1, CopiedIsFront DEF Peek
<1>3. Len(Contents) = size /\ Queue!Least(n, Len(Contents)) = k
      BY <1>1, ContentsUnread DEF ContentsShape, Queue!Least
<1>4. Ring'
      BY DEF Peek, Ring, RingTyped, WriteFollows, EmptyStartsOver, UnreadWritten
<1>5. UNCHANGED Contents
      BY DEF Peek, Contents
<1> QED
    BY <1>2, <1>3, <1>4, <1>5 DEF Queue!Peek, Queue!FirstBytes

LEMMA ReadLineMaps ==
    ASSUME Ring, NEW room \in Nat \ {0}, ReadLine(room)
    PROVE  Ring' /\ Queue!ReadLine(room)
<1>1. size \in Nat /\ DOMAIN Contents = 1 .. size
      BY ContentsUnread DEF ContentsShape, Ring, RingTyped
<1>2. \A n \in 1 .. size : HasLine(n) <=> Queue!LineIs(n)
      BY <1>1 DEF HasLine, Queue!LineIs
<1>3. ASSUME NEW n \in 1 .. size, HasLine(n), n < room, Read(n)
      PROVE  Ring' /\ Queue!ReadLine(room)
  <2>1. n \in Nat /\ n \in 1 .. (room - 1)
        BY <1>1, <1>3
  <2>2. Ring' /\ Queue!Read(n)
        BY <1>3, <2>1, ReadMaps
  <2> QED
      BY <1>2, <1>3, <2>1, <2>2 DEF Queue!ReadLine
<1>4. ASSUME \A n \in 1 .. size : HasLine(n) => n >= room, out' = <<>>,
             UNCHANGED <<data, size, capacity, head, tail>>
      PROVE  Ring' /\ Queue!ReadLine(room)
  <2>1. Ring' /\ UNCHANGED Contents
        BY <1>4 DEF Ring, RingTyped, WriteFollows, EmptyStartsOver, UnreadWritten, Contents
  <2>2. \A n \in 1 .. (room - 1) : ~Queue!LineIs(n)
        BY <1>1, <1>2, <1>4 DEF Queue!LineIs
  <2> QED
      BY <1>4, <2>1, <2>2 DEF Queue!ReadLine
<1> QED
    BY <1>3, <1>4 DEF ReadLine

LEMMA CompactMaps ==
    ASSUME Ring, Compact
    PROVE  Ring' /\ UNCHANGED Contents
<1>1. capacity \in Nat \ {0} /\ size \in 1 .. capacity /\ head \in 0 .. capacity
      BY DEF Ring, RingTyped, Compact
<1>2. /\ size' = size /\ capacity' = capacity /\ head' = 0 /\ tail' = size /\ out' = out
      /\ data' = [k \in 0 .. (capacity - 1) |-> IF k < size THEN Contents[k + 1] ELSE data[k]]
      BY DEF Compact
<1>3. \A i \in 1 .. size : Contents[i] \in Bytes
      BY ContentsUnread DEF ContentsShape, Ring, UnreadWritten
<1>4. \A i \in 1 .. size : data'[Place(head' + i - 1, capacity')] = Contents[i]
      BY <1>1, <1>2 DEF Place
<1>5. RingTyped'
  <2>1. \A k \in 0 .. (capacity - 1) : k < size => Contents[k + 1] \in Bytes
        BY <1>1, <1>3
  <2>2. \A k \in 0 .. (capacity - 1) : data[k] \in Bytes \cup {Junk}
        BY DEF Ring, RingTyped
  <2>3. data' \in [0 .. (capacity' - 1) -> Bytes \cup {Junk}]
        BY <1>2, <2>1, <2>2
  <2>4. capacity' \in Nat \ {0} /\ size' \in 0 .. capacity' /\ head' \in 0 .. capacity'
        /\ tail' \in 0 .. capacity'
    <3>1. capacity' = capacity /\ size' = size /\ head' = 0 /\ tail' = size
          BY <1>2
    <3> QED
        BY <1>1, <3>1
  <2> QED
      BY <2>3, <2>4 DEF RingTyped
<1>6. Ring'
  <2>1. WriteFollows' /\ EmptyStartsOver'
        BY <1>1, <1>2 DEF WriteFollows, EmptyStartsOver
  <2>2. UnreadWritten'
        BY <1>2, <1>3, <1>4 DEF UnreadWritten
  <2> QED
      BY <1>5, <2>1, <2>2 DEF Ring
<1>7. \A i \in 1 .. size : Contents'[i] = Contents[i]
      BY <1>2, <1>4, <1>6, ContentsUnreadNext DEF ContentsShape
<1>8. /\ Contents \in Seq(Bytes) /\ Contents' \in Seq(Bytes)
      /\ Len(Contents) = size /\ Len(Contents') = size
      BY <1>2, <1>6, ContentsUnread, ContentsUnreadNext DEF ContentsShape
<1> QED
    BY <1>6, <1>7, <1>8, SeqEqual

LEMMA ClearMaps ==
    ASSUME Ring, Clear
    PROVE  Ring' /\ Queue!Clear
<1>1. Ring' /\ size' = 0 /\ UNCHANGED out
      BY DEF Clear, Ring, RingTyped, WriteFollows, EmptyStartsOver, UnreadWritten
<1>2. Contents' \in Seq(Bytes) /\ Len(Contents') = 0
      BY <1>1, ContentsUnreadNext DEF ContentsShape
<1> QED
    BY <1>1, <1>2, EmptySeq DEF Queue!Clear

\* What a write leaves at a position: the new byte if it falls on it, else what the
\* memory held before it was grown.
LEMMA WriteTakes ==
    ASSUME Ring, NoWrappedGrowth, NEW n \in Nat \ {0}, NEW d \in [1 .. n -> Bytes], Write(d)
    PROVE  /\ capacity' \in Nat \ {0} /\ capacity <= capacity' /\ size + n <= capacity'
           /\ capacity' > capacity => head + size <= capacity
           /\ capacity' > capacity \/ capacity' = capacity
           /\ data' = [k \in 0 .. (capacity' - 1) |->
                        IF k >= tail /\ k < tail + n THEN d[k - tail + 1]
                        ELSE IF k + capacity' < tail + n THEN d[k + capacity' - tail + 1]
                        ELSE IF k < capacity THEN data[k] ELSE Junk]
           /\ tail' = IF tail + n <= capacity' THEN tail + n ELSE tail + n - capacity'
           /\ size' = size + n /\ head' = head /\ out' = out
<1>1. Len(d) = n
      BY LenProperties, d \in Seq(Bytes)
<1>2. /\ capacity \in Nat \ {0} /\ size \in 0 .. capacity
      /\ head \in 0 .. capacity /\ tail \in 0 .. capacity
      BY DEF Ring, RingTyped
<1> DEFINE c == CapacityFor(n)
<1>3. c \in Nat \ {0} /\ capacity <= c /\ size + n <= c
      BY <1>2 DEF CapacityFor
<1>4. capacity' = c /\ (c > capacity => ~Wrapped)
      BY <1>1 DEF Write, NoWrappedGrowth
<1>5. c > capacity => head + size <= capacity
      BY <1>2, <1>4 DEF Wrapped, Ring, EmptyStartsOver
<1>6. \A k \in 0 .. (c - 1) : Grown(c)[k] = IF k < capacity THEN data[k] ELSE Junk
      BY DEF Grown
<1>7. data' = [k \in 0 .. (c - 1) |->
                   IF k >= tail /\ k < tail + n THEN d[k - tail + 1]
                   ELSE IF k + c < tail + n THEN d[k + c - tail + 1]
                   ELSE IF k < capacity THEN data[k] ELSE Junk]
      BY <1>1, <1>6 DEF Write
<1>8. /\ tail' = IF tail + n <= c THEN tail + n ELSE tail + n - c
      /\ size' = size + n /\ head' = head /\ out' = out
      BY <1>1 DEF Write
<1> HIDE DEF c
<1> QED
    BY <1>2, <1>3, <1>4, <1>5, <1>7, <1>8

LEMMA WriteMaps ==
    ASSUME Ring, NoWrappedGrowth, NEW n \in Nat \ {0}, NEW d \in [1 .. n -> Bytes], Write(d)
    PROVE  Ring' /\ Queue!Write
<1> DEFINE c == capacity'
<1>1. /\ capacity \in Nat \ {0} /\ size \in 0 .. capacity
      /\ head \in 0 .. capacity /\ tail \in 0 .. capacity
      /\ c \in Nat \ {0} /\ capacity <= c /\ size + n <= c
      /\ c > capacity => head + size <= capacity
      /\ size' = size + n /\ head' = head
      /\ tail' = IF tail + n <= c THEN tail + n ELSE tail + n - c
      /\ tail = IF head + size <= capacity THEN head + size ELSE head + size - capacity
      /\ size = 0 => head = 0
      BY WriteTakes DEF Ring, RingTyped, WriteFollows, EmptyStartsOver
<1>2. data' = [k \in 0 .. (c - 1) |->
                   IF k >= tail /\ k < tail + n THEN d[k - tail + 1]
                   ELSE IF k + c < tail + n THEN d[k + c - tail + 1]
                   ELSE IF k < capacity THEN data[k] ELSE Junk]
      BY WriteTakes
<1> HIDE DEF c
<1>3. ASSUME NEW i \in 1 .. size
      PROVE  data'[Place(head + i - 1, c)] = data[Place(head + i - 1, capacity)]
  <2> DEFINE k == Place(head + i - 1, capacity)
  <2>1. Place(head + i - 1, c) = k
        BY <1>1 DEF Place
  <2>2. k \in 0 .. (c - 1) /\ k < capacity
        BY <1>1 DEF Place
  <2>3. ~(k >= tail /\ k < tail + n) /\ ~(k + c < tail + n)
        BY <1>1 DEF Place
  <2> HIDE DEF k
  <2> QED
      BY <1>2, <2>1, <2>2, <2>3 DEF k
<1>4. ASSUME NEW i \in (size + 1) .. (size + n)
      PROVE  data'[Place(head + i - 1, c)] = d[i - size]
  <2> DEFINE k == Place(head + i - 1, c)
  <2>1. k \in 0 .. (c - 1)
        BY <1>1 DEF Place
  <2>2. \/ k >= tail /\ k < tail + n /\ k - tail + 1 = i - size
        \/ ~(k >= tail /\ k < tail + n) /\ k + c < tail + n /\ k + c - tail + 1 = i - size
        BY <1>1 DEF Place
  <2> HIDE DEF k
  <2> QED
      BY <1>2, <2>1, <2>2 DEF k
<1>5. Ring'
  <2>1. RingTyped'
    <3>1. \A k \in 0 .. (c - 1) : data'[k] \in Bytes \cup {Junk}
      <4> TAKE k \in 0 .. (c - 1)
      <4>1. k >= tail /\ k < tail + n => d[k - tail + 1] \in Bytes
            BY <1>1
      <4>2. ~(k >= tail) /\ k + c < tail + n => d[k + c - tail + 1] \in Bytes
            BY <1>1
      <4>3. k < capacity => data[k] \in Bytes \cup {Junk}
            BY <1>1 DEF Ring, RingTyped
      <4> QED
          BY <1>1, <1>2, <4>1, <4>2, <4>3
    <3>2. data' \in [0 .. (c - 1) -> Bytes \cup {Junk}]
          BY <1>2, <3>1
    <3>3. size' \in 0 .. c /\ head' \in 0 .. c /\ tail' \in 0 .. c
          BY <1>1
    <3> QED
        BY <1>1, <3>2, <3>3 DEF RingTyped, c
  <2>2. WriteFollows' /\ EmptyStartsOver'
    <3>1. tail' = IF head + (size + n) <= c THEN head + (size + n) ELSE head + (size + n) - c
          BY <1>1
    <3>2. size + n # 0
          BY <1>1
    <3> QED
        BY <1>1, <3>1, <3>2 DEF WriteFollows, EmptyStartsOver, c
  <2>3. \A i \in 1 .. (size + n) : data'[Place(head + i - 1, c)] \in Bytes
    <3> TAKE i \in 1 .. (size + n)
    <3>1. CASE i \in 1 .. size
          BY <1>3, <3>1 DEF Ring, UnreadWritten
    <3>2. CASE i \in (size + 1) .. (size + n)
      <4>1. i - size \in 1 .. n
            BY <1>1, <3>2
      <4> QED
          BY <1>4, <3>2, <4>1
    <3> QED
        BY <1>1, <3>1, <3>2
  <2> QED
      BY <1>1, <2>1, <2>2, <2>3 DEF Ring, UnreadWritten, c
<1>6. /\ Contents \in Seq(Bytes) /\ Len(Contents) = size
      /\ \A i \in 1 .. size : Contents[i] = data[Place(head + i - 1, capacity)]
      BY ContentsUnread DEF ContentsShape
<1>7. /\ Contents' \in Seq(Bytes) /\ Len(Contents') = size + n
      /\ \A i \in 1 .. (size + n) : Contents'[i] = data'[Place(head + i - 1, c)]
      BY <1>1, <1>5, ContentsUnreadNext DEF ContentsShape, c
<1>8. SubSeq(Contents', 1, size) = Contents
  <2>1. ASSUME NEW i \in 1 .. size
        PROVE  Contents'[i] = Contents[i]
    <3>1. i \in 1 .. (size + n)
          BY <1>1
    <3>2. Contents'[i] = data'[Place(head + i - 1, c)]
          BY <1>7, <3>1
    <3>3. Contents[i] = data[Place(head + i - 1, capacity)]
          BY <1>6
    <3> QED
        BY <1>3, <3>2, <3>3
  <2>2. \A i \in 1 .. size : Contents'[i] \in Bytes
        BY <1>1, <1>7, ElementOfSeq
  <2> DEFINE s == SubSeq(Contents', 1, size)
  <2>3. /\ s \in Seq(Bytes) /\ Len(s) = IF 1 <= size THEN size - 1 + 1 ELSE 0
        /\ \A i \in 1 .. (size - 1 + 1) : s[i] = Contents'[1 + i - 1]
        BY <1>1, <2>2, SubSeqProperties
  <2>4. Len(s) = size /\ \A i \in 1 .. size : s[i] = Contents'[i]
        BY <1>1, <2>3
  <2> QED
      BY <1>6, <2>1, <2>3, <2>4, SeqEqual
<1>9. \A i \in DOMAIN Contents' : Contents'[i] \in Bytes
      BY <1>7, LenProperties, ElementOfSeq
<1> QED
    BY <1>1, <1>5, <1>6, <1>7, <1>8, <1>9, WriteTakes DEF Queue!Write

-----------------------------------------------------------------------------
LEMMA RingStarts == BufferInit => Ring /\ Queue!Init
<1> SUFFICES ASSUME BufferInit PROVE Ring /\ Queue!Init
    OBVIOUS
<1>1. Ring
      BY BufferAssumption
      DEF BufferInit, Ring, RingTyped, WriteFollows, EmptyStartsOver, UnreadWritten
<1>2. Contents \in Seq(Bytes) /\ Len(Contents) = 0
      BY <1>1, ContentsUnread DEF ContentsShape, BufferInit
<1> QED
    BY <1>1, <1>2, EmptySeq DEF Queue!Init, BufferInit

LEMMA RingStep ==
    ASSUME NoWrappedGrowth
    PROVE  Ring /\ [BufferNext]_bufferVars => Ring' /\ [Queue!Next]_(Queue!vars)
<1> SUFFICES ASSUME Ring, [BufferNext]_bufferVars
             PROVE  Ring' /\ (Queue!Next \/ UNCHANGED Queue!vars)
    OBVIOUS
<1>1. ASSUME NEW n \in 1 .. MaxRequest, NEW d \in [1 .. n -> Bytes], Write(d)
      PROVE  Ring' /\ Queue!Next
      BY <1>1, WriteMaps, BufferAssumption DEF Queue!Next
<1>2. ASSUME NEW n \in 1 .. MaxRequest, Read(n) \/ Peek(n) \/ ReadLine(n)
      PROVE  Ring' /\ Queue!Next
      BY <1>2, ReadMaps, PeekMaps, ReadLineMaps, BufferAssumption DEF Queue!Next
<1>3. CASE Compact
      BY <1>3, CompactMaps DEF Queue!vars, Compact
<1>4. CASE Clear
      BY <1>4, ClearMaps DEF Queue!Next
<1>5. CASE UNCHANGED bufferVars
      BY <1>5 DEF bufferVars, Ring, RingTyped, WriteFollows, EmptyStartsOver, UnreadWritten,
          Contents, Queue!vars
<1> QED
    BY <1>1, <1>2, <1>3, <1>4, <1>5 DEF BufferNext

\* The fill level, the read position and the write position agree, and a reader meets no
\* byte that nobody wrote: for every initial size and every sequence of requests.
THEOREM FillLevelTrue ==
    ASSUME NoWrappedGrowth
    PROVE  BufferSpec => []IndicesAgree
<1>1. Ring => IndicesAgree
  <2> SUFFICES ASSUME Ring PROVE IndicesAgree
      OBVIOUS
  <2>1. \A i \in 1 .. size : Contents[i] # Junk
        BY ContentsUnread, BufferAssumption DEF ContentsShape, Ring, UnreadWritten
  <2> QED
      BY <2>1 DEF Ring, RingTyped, WriteFollows, EmptyStartsOver, IndicesAgree
<1> QED
    BY <1>1, RingStarts, RingStep, PTL DEF BufferSpec

\* The buffer is a queue of bytes: its ring, its wrapping, its growth and its compaction
\* are invisible to a caller.
THEOREM BufferIsQueue ==
    ASSUME NoWrappedGrowth
    PROVE  BufferSpec => ImplementsByteQueue
BY RingStarts, RingStep, PTL DEF BufferSpec, ImplementsByteQueue, Queue!Spec

-----------------------------------------------------------------------------
(* The parser over the queue.                                               *)

Tokens == [part : {"length", "lineEnd", "blank", "body", "noise", "noiseText"}, of : Nat, at : Nat]

\* The headers of messages in a row of bytes.
Starts(s) == {k \in DOMAIN s : s[k].part = "length"}

InOrder(s) == \A j, k \in Starts(s) : j < k => s[j].of < s[k].of
Ahead(s, t) == \A j \in Starts(s), k \in Starts(t) : s[j].of < t[k].of

\* Of the first n messages these are later ones than those done.
Unhandled(s, n, done) ==
    \A k \in Starts(s) : s[k].of <= n /\ \A i \in DOMAIN done : done[i] < s[k].of

\* What has been handled comes before what is in the buffer, and that before what has not
\* been read.
Ordered ==
    /\ buffer \in Seq(Tokens) /\ stdout \in Seq(Tokens)
    /\ sent \in Nat /\ processed \in Seq(Nat)
    /\ InOrder(buffer) /\ InOrder(stdout) /\ Ahead(buffer, stdout)
    /\ Unhandled(buffer, sent, processed) /\ Unhandled(stdout, sent, processed)
    /\ HandledInOrder

\* t is a part of s that begins after the first m.
PartOf(t, s, m) ==
    /\ t \in Seq(Tokens) /\ m \in Nat
    /\ \A k \in DOMAIN t : k \in Nat /\ k + m \in DOMAIN s /\ t[k] = s[k + m]

LEMMA PartsKeep ==
    ASSUME NEW s, NEW t, NEW m, PartOf(t, s, m)
    PROVE  /\ InOrder(s) => InOrder(t)
           /\ \A n, done : Unhandled(s, n, done) => Unhandled(t, n, done)
           /\ \A u : Ahead(s, u) => Ahead(t, u)
           /\ \A u : Ahead(u, s) => Ahead(u, t)
<1>1. \A k \in Starts(t) : k \in Nat /\ k + m \in Starts(s) /\ t[k] = s[k + m]
      BY DEF PartOf, Starts
<1>2. m \in Nat
      BY DEF PartOf
<1>3. InOrder(s) => InOrder(t)
  <2> SUFFICES ASSUME InOrder(s), NEW j \in Starts(t), NEW k \in Starts(t), j < k
               PROVE  t[j].of < t[k].of
      BY DEF InOrder
  <2>1. j + m < k + m
        BY <1>1, <1>2
  <2> QED
      BY <1>1, <2>1 DEF InOrder
<1> QED
    BY <1>1, <1>3 DEF Unhandled, Ahead

LEMMA DropIsPart ==
    ASSUME NEW s \in Seq(Tokens), NEW n \in 0 .. Len(s)
    PROVE  PartOf(Drop(s, n), s, n)
<1> DEFINE t == Drop(s, n)
<1>1. Len(s) \in Nat /\ DOMAIN s = 1 .. Len(s) /\ \A k \in 1 .. Len(s) : s[k] \in Tokens
      BY LenProperties, ElementOfSeq
<1>2. n + 1 \in 1 .. (Len(s) + 1) /\ n \in Nat
      BY <1>1
<1>3. /\ t \in Seq(Tokens)
      /\ Len(t) = IF n + 1 <= Len(s) THEN Len(s) - (n + 1) + 1 ELSE 0
      /\ \A k \in 1 .. (Len(s) - (n + 1) + 1) : t[k] = s[n + 1 + k - 1]
      BY <1>1, <1>2, SubSeqProperties DEF Drop
<1> HIDE DEF t
<1>4. Len(t) = Len(s) - n /\ DOMAIN t = 1 .. Len(t)
  <2>1. DOMAIN t = 1 .. Len(t)
        BY <1>3, LenProperties
  <2>2. (IF n + 1 <= Len(s) THEN Len(s) - (n + 1) + 1 ELSE 0) = Len(s) - n
    <3>1. Len(s) \in Nat /\ n \in Nat /\ n <= Len(s)
          BY <1>1
    <3> QED
        BY ONLY <3>1
  <2> QED
      BY <1>3, <2>1, <2>2
<1>5. ASSUME NEW k \in DOMAIN t
      PROVE  k \in Nat /\ k + n \in DOMAIN s /\ t[k] = s[k + n]
  <2>1. k \in 1 .. Len(t)
        BY <1>4, <1>5
  <2>2. /\ k \in 1 .. (Len(s) - (n + 1) + 1) /\ n + 1 + k - 1 = k + n
        /\ k \in Nat /\ k + n \in 1 .. Len(s)
        BY <1>1, <1>2, <1>4, <2>1
  <2>3. t[k] = s[n + 1 + k - 1]
        BY <1>3, <2>2
  <2> QED
      BY <1>1, <2>2, <2>3
<1> QED
    BY <1>2, <1>3, <1>5 DEF PartOf, t

LEMMA FrontIsPart ==
    ASSUME NEW s \in Seq(Tokens), NEW n \in 1 .. Len(s)
    PROVE  /\ PartOf(SubSeq(s, 1, n), s, 0)
           /\ \A k \in DOMAIN SubSeq(s, 1, n) : k <= n
<1> DEFINE t == SubSeq(s, 1, n)
<1>1. Len(s) \in Nat /\ DOMAIN s = 1 .. Len(s) /\ \A k \in 1 .. Len(s) : s[k] \in Tokens
      BY LenProperties, ElementOfSeq
<1>2. /\ t \in Seq(Tokens)
      /\ Len(t) = IF 1 <= n THEN n - 1 + 1 ELSE 0
      /\ \A k \in 1 .. (n - 1 + 1) : t[k] = s[1 + k - 1]
      BY <1>1, SubSeqProperties
<1> HIDE DEF t
<1>3. n \in Nat /\ DOMAIN t = 1 .. n
      BY <1>1, <1>2, LenProperties
<1>4. ASSUME NEW k \in DOMAIN t
      PROVE  k \in Nat /\ k + 0 \in DOMAIN s /\ t[k] = s[k + 0] /\ k <= n
  <2>1. k \in 1 .. (n - 1 + 1) /\ 1 + k - 1 = k /\ k + 0 = k /\ k \in DOMAIN s
        BY <1>1, <1>3
  <2> QED
      BY <1>2, <1>3, <2>1
<1> QED
    BY <1>2, <1>4 DEF PartOf, t

LEMMA PartOfPart ==
    ASSUME NEW s, NEW t, NEW u, NEW m, NEW n, PartOf(t, s, m), PartOf(u, t, n)
    PROVE  PartOf(u, s, n + m)
<1>1. m \in Nat /\ n \in Nat /\ n + m \in Nat /\ u \in Seq(Tokens)
      BY DEF PartOf
<1>2. ASSUME NEW k \in DOMAIN u
      PROVE  k \in Nat /\ k + (n + m) \in DOMAIN s /\ u[k] = s[k + (n + m)]
  <2>1. k \in Nat /\ k + n \in DOMAIN t /\ u[k] = t[k + n]
        BY <1>2 DEF PartOf
  <2>2. (k + n) + m \in DOMAIN s /\ t[k + n] = s[(k + n) + m]
        BY <2>1 DEF PartOf
  <2>3. (k + n) + m = k + (n + m)
        BY <1>1, <2>1
  <2> QED
      BY <2>1, <2>2, <2>3
<1> QED
    BY <1>1, <1>2 DEF PartOf

\* One row of bytes after another.
LEMMA JoinedKeep ==
    ASSUME NEW s \in Seq(Tokens), NEW t \in Seq(Tokens), NEW w, w = s \o t
    PROVE  /\ w \in Seq(Tokens)
           /\ InOrder(s) /\ InOrder(t) /\ Ahead(s, t) => InOrder(w)
           /\ \A n, done : Unhandled(s, n, done) /\ Unhandled(t, n, done) => Unhandled(w, n, done)
           /\ \A u : Ahead(s, u) /\ Ahead(t, u) => Ahead(w, u)
           /\ \A u : Ahead(u, s) /\ Ahead(u, t) => Ahead(u, w)
<1>1. /\ Len(s) \in Nat /\ DOMAIN s = 1 .. Len(s)
      /\ Len(t) \in Nat /\ DOMAIN t = 1 .. Len(t)
      BY LenProperties
<1>2. /\ w \in Seq(Tokens) /\ Len(w) = Len(s) + Len(t)
      /\ \A k \in 1 .. (Len(s) + Len(t)) : w[k] = IF k <= Len(s) THEN s[k] ELSE t[k - Len(s)]
      BY ConcatProperties
<1>3. DOMAIN w = 1 .. (Len(s) + Len(t))
      BY <1>2, LenProperties
<1>4. ASSUME NEW k \in Starts(w)
      PROVE  /\ k \in Nat
             /\ \/ k \in Starts(s) /\ w[k] = s[k] /\ k <= Len(s)
                \/ k - Len(s) \in Starts(t) /\ w[k] = t[k - Len(s)] /\ k > Len(s)
  <2>1. k \in 1 .. (Len(s) + Len(t)) /\ w[k].part = "length" /\ k \in Nat
        BY <1>1, <1>3, <1>4 DEF Starts
  <2>2. CASE k <= Len(s)
    <3>1. k \in DOMAIN s /\ w[k] = s[k]
          BY <1>1, <1>2, <2>1, <2>2
    <3> QED
        BY <2>1, <2>2, <3>1 DEF Starts
  <2>3. CASE k > Len(s)
    <3>1. k - Len(s) \in DOMAIN t /\ ~(k <= Len(s))
          BY <1>1, <2>1, <2>3
    <3>2. w[k] = t[k - Len(s)]
          BY <1>2, <2>1, <3>1
    <3> QED
        BY <2>1, <2>3, <3>1, <3>2 DEF Starts
  <2> QED
      BY <1>1, <2>1, <2>2, <2>3
<1>5. ASSUME InOrder(s), InOrder(t), Ahead(s, t), NEW j \in Starts(w), NEW k \in Starts(w), j < k
      PROVE  w[j].of < w[k].of
  <2> DEFINE l == Len(s)
  <2>1. /\ j \in Nat /\ k \in Nat /\ l \in Nat
        /\ \/ j \in Starts(s) /\ w[j] = s[j] /\ j <= l
           \/ j - l \in Starts(t) /\ w[j] = t[j - l] /\ j > l
        /\ \/ k \in Starts(s) /\ w[k] = s[k] /\ k <= l
           \/ k - l \in Starts(t) /\ w[k] = t[k - l] /\ k > l
        BY <1>1, <1>4, <1>5
  <2> HIDE DEF l
  <2>2. CASE j \in Starts(s) /\ w[j] = s[j] /\ k \in Starts(s) /\ w[k] = s[k]
        BY <1>5, <2>2 DEF InOrder
  <2>3. CASE j - l \in Starts(t) /\ w[j] = t[j - l] /\ k - l \in Starts(t) /\ w[k] = t[k - l]
    <3>1. j - l < k - l
          BY <1>5, <2>1
    <3> QED
        BY <1>5, <2>3, <3>1 DEF InOrder
  <2>4. CASE j \in Starts(s) /\ w[j] = s[j] /\ k - l \in Starts(t) /\ w[k] = t[k - l]
        BY <1>5, <2>4 DEF Ahead
  <2>5. ~(j > l /\ k <= l)
        BY <1>5, <2>1
  <2> QED
      BY <2>1, <2>2, <2>3, <2>4, <2>5
<1>6. InOrder(s) /\ InOrder(t) /\ Ahead(s, t) => InOrder(w)
      BY <1>5 DEF InOrder
<1>7. \A n, done : Unhandled(s, n, done) /\ Unhandled(t, n, done) => Unhandled(w, n, done)
      BY <1>4 DEF Unhandled
<1>8. ASSUME NEW u
      PROVE  /\ Ahead(s, u) /\ Ahead(t, u) => Ahead(w, u)
             /\ Ahead(u, s) /\ Ahead(u, t) => Ahead(u, w)
      BY <1>4 DEF Ahead
<1> QED
    BY <1>2, <1>6, <1>7, <1>8

LEMMA JoinedInOrder ==
    ASSUME NEW s \in Seq(Tokens), NEW t \in Seq(Tokens), NEW w, w = s \o t,
           InOrder(s), InOrder(t), Ahead(s, t)
    PROVE  w \in Seq(Tokens) /\ InOrder(w)
BY JoinedKeep

LEMMA JoinedUnhandled ==
    ASSUME NEW s \in Seq(Tokens), NEW t \in Seq(Tokens), NEW w, w = s \o t, NEW n, NEW done,
           Unhandled(s, n, done), Unhandled(t, n, done)
    PROVE  Unhandled(w, n, done)
BY JoinedKeep

LEMMA JoinedAhead ==
    ASSUME NEW s \in Seq(Tokens), NEW t \in Seq(Tokens), NEW w, w = s \o t, NEW u
    PROVE  /\ Ahead(s, u) /\ Ahead(t, u) => Ahead(w, u)
           /\ Ahead(u, s) /\ Ahead(u, t) => Ahead(u, w)
BY JoinedKeep

\* What the debugger writes of a message has one header, its own.
LEMMA MessageStarts ==
    ASSUME NEW m \in Nat
    PROVE  /\ Header(m) \in Seq(Tokens) /\ BodyOf(m) \in Seq(Tokens)
           /\ \A k \in Starts(Header(m)) : k = 1 /\ Header(m)[k].of = m
           /\ Starts(BodyOf(m)) = {}
<1>1. Length(m) \in Tokens /\ LineEnd(m) \in Tokens /\ Blank(m) \in Tokens
      BY DEF Tokens, Length, LineEnd, Blank
<1>2. Header(m) \in Seq(Tokens) /\ DOMAIN Header(m) = 1 .. 3
      BY <1>1 DEF Header
<1>3. \A k \in Starts(Header(m)) : k = 1 /\ Header(m)[k].of = m
  <2>1. /\ Header(m)[1] = Length(m) /\ Header(m)[2] = LineEnd(m) /\ Header(m)[3] = Blank(m)
        /\ Length(m).of = m /\ LineEnd(m).part # "length" /\ Blank(m).part # "length"
        BY DEF Header, Length, LineEnd, Blank
  <2> QED
      BY <1>2, <2>1 DEF Starts
<1>4. \A i \in 1 .. BodySize : Body(m, i) \in Tokens /\ Body(m, i).part # "length"
      BY FramingAssumption DEF Body, Tokens
<1>5. BodyOf(m) \in Seq(Tokens) /\ Starts(BodyOf(m)) = {}
      BY <1>4, FramingAssumption DEF BodyOf, Starts
<1> QED
    BY <1>2, <1>3, <1>5

\* The messages announced have numbers.
LEMMA StartsNumbered ==
    ASSUME NEW s \in Seq(Tokens)
    PROVE  \A k \in Starts(s) : s[k].of \in Nat
<1>1. \A k \in DOMAIN s : s[k] \in Tokens
      BY LenProperties, ElementOfSeq
<1>2. \A x \in Tokens : x.of \in Nat
      BY DEF Tokens
<1> QED
    BY <1>1, <1>2 DEF Starts

LEMMA HandledNumbered == Ordered => \A i \in DOMAIN processed : processed[i] \in Nat
BY LenProperties, ElementOfSeq DEF Ordered

LEMMA NoStarts ==
    ASSUME NEW s, Starts(s) = {}
    PROVE  /\ InOrder(s) /\ \A n, done : Unhandled(s, n, done)
           /\ \A u : Ahead(s, u) /\ Ahead(u, s)
BY DEF InOrder, Unhandled, Ahead

LEMMA WriteOrdered ==
    ASSUME Ordered, WriteMessage
    PROVE  Ordered'
<1> DEFINE m == sent + 1
           h == Header(m)
           b == BodyOf(m)
           w == stdout \o h
<1>1. /\ buffer \in Seq(Tokens) /\ stdout \in Seq(Tokens) /\ sent \in Nat /\ processed \in Seq(Nat)
      /\ m \in Nat /\ \A i \in DOMAIN processed : processed[i] \in Nat
      BY HandledNumbered DEF Ordered
<1>2. /\ sent' = m /\ stdout' = w \o b /\ buffer' = buffer /\ processed' = processed
      BY DEF WriteMessage
<1>3. /\ h \in Seq(Tokens) /\ b \in Seq(Tokens) /\ Starts(b) = {}
      /\ \A k \in Starts(h) : k = 1 /\ h[k].of = m
      BY <1>1, MessageStarts
<1> HIDE DEF h, b
<1>4. ASSUME NEW s \in Seq(Tokens), Unhandled(s, sent, processed)
      PROVE  Unhandled(s, m, processed) /\ Ahead(s, h)
  <2>1. \A k \in Starts(s) : s[k].of \in Nat /\ s[k].of <= sent
        BY <1>4, StartsNumbered DEF Unhandled
  <2>2. \A k \in Starts(s) : s[k].of <= m /\ s[k].of < m
        BY <1>1, <2>1
  <2> HIDE DEF m
  <2> QED
      BY <1>3, <1>4, <2>2 DEF Unhandled, Ahead
<1>5. InOrder(h)
      BY <1>3 DEF InOrder
<1>6. Unhandled(h, m, processed) /\ HandledInOrder'
  <2>1. \A i \in DOMAIN processed : processed[i] < m /\ processed[i] <= m
        BY <1>1 DEF Ordered, HandledInOrder
  <2>2. m <= m
        BY <1>1
  <2> HIDE DEF m
  <2> QED
      BY <1>2, <1>3, <2>1, <2>2 DEF Unhandled, Ordered, HandledInOrder
<1> HIDE DEF m
<1>7. /\ w \in Seq(Tokens) /\ InOrder(w) /\ Unhandled(w, m, processed) /\ Ahead(buffer, w)
  <2>1. InOrder(stdout) /\ Unhandled(stdout, m, processed) /\ Ahead(stdout, h)
        /\ Ahead(buffer, stdout) /\ Ahead(buffer, h)
        BY <1>1, <1>4 DEF Ordered
  <2>2. w \in Seq(Tokens) /\ InOrder(w)
        BY <1>1, <1>3, <1>5, <2>1, JoinedInOrder
  <2>3. Unhandled(w, m, processed)
        BY <1>1, <1>3, <1>6, <2>1, JoinedUnhandled
  <2>4. Ahead(buffer, w)
        BY <1>1, <1>3, <2>1, JoinedAhead
  <2> QED
      BY <2>2, <2>3, <2>4
<1> HIDE DEF w
<1>8. /\ stdout' \in Seq(Tokens) /\ InOrder(stdout') /\ Unhandled(stdout', m, processed)
      /\ Ahead(buffer, stdout')
  <2>1. InOrder(b) /\ Unhandled(b, m, processed) /\ Ahead(w, b) /\ Ahead(buffer, b)
        BY <1>3, NoStarts
  <2>2. stdout' \in Seq(Tokens) /\ InOrder(stdout')
        BY <1>2, <1>3, <1>7, <2>1, JoinedInOrder
  <2>3. Unhandled(stdout', m, processed)
        BY <1>2, <1>3, <1>7, <2>1, JoinedUnhandled
  <2>4. Ahead(buffer, stdout')
        BY <1>2, <1>3, <1>7, <2>1, JoinedAhead
  <2> QED
      BY <2>2, <2>3, <2>4
<1>9. m \in Nat /\ Unhandled(buffer, m, processed) /\ InOrder(buffer)
      BY <1>1, <1>4 DEF Ordered, m
<1> QED
    BY <1>1, <1>2, <1>6, <1>8, <1>9 DEF Ordered

LEMMA ReadStdoutOrdered ==
    ASSUME Ordered, ReadStdout
    PROVE  Ordered'
<1>1. PICK n \in 1 .. Len(stdout) :
          buffer' = buffer \o SubSeq(stdout, 1, n) /\ stdout' = Drop(stdout, n)
      BY DEF ReadStdout
<1> DEFINE f == SubSeq(stdout, 1, n)
<1>2. /\ buffer \in Seq(Tokens) /\ stdout \in Seq(Tokens) /\ InOrder(buffer) /\ InOrder(stdout)
      /\ Ahead(buffer, stdout)
      /\ Unhandled(buffer, sent, processed) /\ Unhandled(stdout, sent, processed)
      /\ n \in 0 .. Len(stdout) /\ n \in Nat
      BY LenProperties DEF Ordered
<1>3. PartOf(f, stdout, 0) /\ \A k \in DOMAIN f : k <= n
      BY <1>2, FrontIsPart
<1>4. PartOf(stdout', stdout, n)
      BY <1>1, <1>2, DropIsPart
<1> HIDE DEF f
<1>5. /\ InOrder(f) /\ Unhandled(f, sent, processed) /\ Ahead(buffer, f) /\ f \in Seq(Tokens)
      BY <1>2, <1>3, PartsKeep DEF PartOf
<1>6. /\ InOrder(stdout') /\ Unhandled(stdout', sent, processed) /\ Ahead(buffer, stdout')
      /\ stdout' \in Seq(Tokens)
      BY <1>2, <1>4, PartsKeep DEF PartOf
<1>7. Ahead(f, stdout')
  <2> SUFFICES ASSUME NEW j \in Starts(f), NEW k \in Starts(stdout')
               PROVE  f[j].of < stdout'[k].of
      BY DEF Ahead
  <2>1. j \in Nat /\ j + 0 \in Starts(stdout) /\ f[j] = stdout[j + 0] /\ j <= n
        BY <1>3 DEF Starts, PartOf
  <2>2. k \in Nat /\ k \in DOMAIN stdout' /\ k + n \in Starts(stdout) /\ stdout'[k] = stdout[k + n]
        BY <1>4 DEF Starts, PartOf
  <2>3. k > 0
        BY <1>6, <2>2, LenProperties
  <2>4. j + 0 < k + n
        BY <1>2, <2>1, <2>2, <2>3
  <2> QED
      BY <1>2, <2>1, <2>2, <2>4 DEF InOrder
<1>8. /\ buffer' \in Seq(Tokens) /\ InOrder(buffer') /\ Unhandled(buffer', sent, processed)
      /\ Ahead(buffer', stdout')
  <2>1. buffer' = buffer \o f
        BY <1>1 DEF f
  <2>2. buffer' \in Seq(Tokens) /\ InOrder(buffer')
        BY <1>2, <1>5, <2>1, JoinedInOrder
  <2>3. Unhandled(buffer', sent, processed)
        BY <1>2, <1>5, <2>1, JoinedUnhandled
  <2>4. Ahead(buffer', stdout')
        BY <1>2, <1>5, <1>6, <1>7, <2>1, JoinedAhead
  <2> QED
      BY <2>2, <2>3, <2>4
<1>9. sent' = sent /\ processed' = processed
      BY DEF ReadStdout
<1> QED
    BY <1>6, <1>8, <1>9 DEF Ordered, HandledInOrder

LEMMA ReadStderrOrdered ==
    ASSUME Ordered, ReadStderr
    PROVE  Ordered'
<1>1. PICK x \in Noise : buffer' = Append(buffer, x)
      BY DEF ReadStderr
<1>2. x \in Tokens /\ x.part # "length"
      BY DEF Noise, Tokens
<1>3. buffer \in Seq(Tokens) /\ Len(buffer) \in Nat /\ DOMAIN buffer = 1 .. Len(buffer)
      BY LenProperties DEF Ordered
<1>4. /\ buffer' \in Seq(Tokens) /\ Len(buffer') = Len(buffer) + 1
      /\ \A k \in 1 .. Len(buffer) : buffer'[k] = buffer[k]
      /\ buffer'[Len(buffer) + 1] = x
      BY <1>1, <1>2, <1>3, AppendProperties
<1>5. DOMAIN buffer' = 1 .. (Len(buffer) + 1)
      BY <1>3, <1>4, LenProperties
<1>6. Starts(buffer') = Starts(buffer) /\ \A k \in Starts(buffer) : buffer'[k] = buffer[k]
  <2>1. \A k \in DOMAIN buffer' : k \in DOMAIN buffer \/ k = Len(buffer) + 1
        BY <1>3, <1>5
  <2>2. \A k \in DOMAIN buffer : k \in DOMAIN buffer' /\ buffer'[k] = buffer[k]
        BY <1>3, <1>4, <1>5
  <2> QED
      BY <1>2, <1>4, <2>1, <2>2 DEF Starts
<1>7. sent' = sent /\ processed' = processed /\ stdout' = stdout
      BY DEF ReadStderr
<1>8. InOrder(buffer') /\ Unhandled(buffer', sent, processed) /\ Ahead(buffer', stdout)
      BY <1>6 DEF Ordered, InOrder, Unhandled, Ahead
<1> QED
    BY <1>4, <1>7, <1>8 DEF Ordered, HandledInOrder

\* The parser takes something off the front of the buffer and handles nothing.
LEMMA TakenOrdered ==
    ASSUME Ordered, NEW m, PartOf(buffer', buffer, m),
           stdout' = stdout, sent' = sent, processed' = processed
    PROVE  Ordered'
<1>1. /\ InOrder(buffer') /\ Unhandled(buffer', sent, processed) /\ Ahead(buffer', stdout)
      /\ buffer' \in Seq(Tokens)
      BY PartsKeep DEF Ordered, PartOf
<1> QED
    BY <1>1 DEF Ordered, HandledInOrder

\* It takes the first message off with its header, and hands it over.
LEMMA HandedOrdered ==
    ASSUME Ordered, NEW m \in Nat \ {0}, PartOf(buffer', buffer, m), 1 \in Starts(buffer),
           stdout' = stdout, sent' = sent, processed' = Append(processed, buffer[1].of)
    PROVE  Ordered'
<1> DEFINE h == buffer[1].of
<1>1. /\ buffer \in Seq(Tokens) /\ stdout \in Seq(Tokens) /\ sent \in Nat /\ processed \in Seq(Nat)
      /\ InOrder(buffer) /\ InOrder(stdout) /\ Ahead(buffer, stdout)
      /\ Unhandled(buffer, sent, processed) /\ Unhandled(stdout, sent, processed)
      /\ HandledInOrder
      BY DEF Ordered
<1>2. /\ h \in Nat /\ h <= sent /\ \A i \in DOMAIN processed : processed[i] < h
      BY <1>1, StartsNumbered DEF Unhandled
<1>3. /\ InOrder(buffer') /\ Unhandled(buffer', sent, processed) /\ Ahead(buffer', stdout)
      /\ buffer' \in Seq(Tokens)
      BY <1>1, PartsKeep DEF PartOf
<1>4. /\ Len(processed) \in Nat /\ DOMAIN processed = 1 .. Len(processed)
      /\ processed' \in Seq(Nat) /\ Len(processed') = Len(processed) + 1
      /\ \A i \in 1 .. Len(processed) : processed'[i] = processed[i]
      /\ processed'[Len(processed) + 1] = h
      BY <1>1, <1>2, AppendProperties, LenProperties
<1>5. DOMAIN processed' = 1 .. (Len(processed) + 1)
      BY <1>4, LenProperties
<1>6. ASSUME NEW i \in DOMAIN processed'
      PROVE  \/ i \in DOMAIN processed /\ processed'[i] = processed[i]
             \/ i = Len(processed) + 1 /\ processed'[i] = h
      BY <1>4, <1>5, <1>6
<1>7. \A k \in Starts(buffer') : h < buffer'[k].of
  <2> TAKE k \in Starts(buffer')
  <2>1. k \in Nat /\ k \in DOMAIN buffer' /\ k + m \in Starts(buffer) /\ buffer'[k] = buffer[k + m]
        BY DEF PartOf, Starts
  <2>2. k > 0
        BY <1>3, <2>1, LenProperties
  <2>3. 1 < k + m
        BY <2>1, <2>2
  <2> QED
      BY <1>1, <2>1, <2>3 DEF InOrder
<1>8. \A k \in Starts(stdout) : h < stdout[k].of
      BY <1>1 DEF Ahead
<1> HIDE DEF h
<1>9. Unhandled(buffer', sent, processed') /\ Unhandled(stdout, sent, processed')
  <2>1. ASSUME NEW s, Unhandled(s, sent, processed), \A k \in Starts(s) : h < s[k].of
        PROVE  Unhandled(s, sent, processed')
        BY <1>6, <2>1 DEF Unhandled
  <2> QED
      BY <1>1, <1>3, <1>7, <1>8, <2>1
<1>10. \A i \in DOMAIN processed' : processed'[i] <= sent
       BY <1>1, <1>2, <1>6 DEF HandledInOrder
<1>11. ASSUME NEW i \in DOMAIN processed', NEW j \in DOMAIN processed', i < j
       PROVE  processed'[i] < processed'[j]
  <2>1. i \in DOMAIN processed /\ processed'[i] = processed[i]
        BY <1>4, <1>5, <1>6, <1>11
  <2>2. CASE j \in DOMAIN processed /\ processed'[j] = processed[j]
        BY <1>1, <1>11, <2>1, <2>2 DEF HandledInOrder
  <2>3. CASE processed'[j] = h
        BY <1>2, <2>1, <2>3
  <2> QED
      BY <1>6, <1>11, <2>2, <2>3
<1>12. HandledInOrder'
       BY <1>10, <1>11 DEF HandledInOrder
<1> QED
    BY <1>1, <1>3, <1>4, <1>9, <1>12 DEF Ordered

\* Without its line, and the empty one after it, the buffer begins with the body.
LEMMA AfterLine ==
    ASSUME NEW s \in Seq(Tokens), NEW n \in 1 .. Len(s), NEW t, t = AfterBlank(Drop(s, n))
    PROVE  \E m \in Nat \ {0} : PartOf(t, s, m)
<1> DEFINE u == Drop(s, n)
<1>1. n \in 0 .. Len(s) /\ n \in Nat \ {0}
      BY LenProperties
<1>2. PartOf(u, s, n) /\ u \in Seq(Tokens)
      BY <1>1, DropIsPart DEF PartOf
<1> HIDE DEF u
<1>3. CASE t = u
      BY <1>1, <1>2, <1>3
<1>4. CASE u # <<>> /\ t = Tail(u)
  <2>1. /\ Len(u) \in Nat /\ DOMAIN u = 1 .. Len(u)
        /\ Tail(u) \in Seq(Tokens) /\ Len(Tail(u)) = Len(u) - 1
        /\ \A k \in 1 .. Len(Tail(u)) : Tail(u)[k] = u[k + 1]
        BY <1>2, <1>4, HeadTailProperties, LenProperties
  <2>2. DOMAIN Tail(u) = 1 .. (Len(u) - 1)
        BY <2>1, LenProperties
  <2>3. PartOf(t, u, 1)
        BY <1>4, <2>1, <2>2 DEF PartOf
  <2>4. PartOf(t, s, 1 + n) /\ 1 + n \in Nat \ {0}
        BY <1>1, <1>2, <2>3, PartOfPart
  <2> QED
      BY <2>4
<1> QED
    BY <1>3, <1>4 DEF AfterBlank, u

LEMMA BadLineOrdered ==
    ASSUME Ordered, BadLine
    PROVE  Ordered'
<1>1. PICK n \in 1 .. HeaderRoom : LineIs(buffer, n) /\ buffer' = Drop(buffer, n)
      BY DEF BadLine
<1>2. buffer \in Seq(Tokens) /\ n \in 0 .. Len(buffer)
      BY <1>1, LenProperties DEF Ordered, LineIs
<1>3. PartOf(buffer', buffer, n)
      BY <1>1, <1>2, DropIsPart
<1> QED
    BY <1>3, TakenOrdered DEF BadLine

LEMMA GoodLineOrdered ==
    ASSUME Ordered, GoodLine
    PROVE  Ordered'
<1>1. PICK n \in 1 .. HeaderRoom :
          /\ LineIs(buffer, n) /\ buffer[1].part = "length"
          /\ LET rest == AfterBlank(Drop(buffer, n))
             IN  \/ /\ Len(rest) < BodySize
                    /\ buffer' = rest
                    /\ processed' = processed
                 \/ /\ Len(rest) >= BodySize
                    /\ buffer' = Drop(rest, BodySize)
                    /\ processed' = IF IsBody(rest, buffer[1].of)
                                    THEN Append(processed, buffer[1].of) ELSE processed
      BY DEF GoodLine
<1> DEFINE rest == AfterBlank(Drop(buffer, n))
<1>2. /\ buffer \in Seq(Tokens) /\ n \in 1 .. Len(buffer) /\ 1 \in Starts(buffer)
      BY <1>1, LenProperties DEF Ordered, LineIs, Starts
<1>3. PICK m \in Nat \ {0} : PartOf(rest, buffer, m)
      BY <1>2, AfterLine
<1>4. stdout' = stdout /\ sent' = sent
      BY DEF GoodLine
<1>5. \/ buffer' = rest /\ processed' = processed
      \/ /\ Len(rest) >= BodySize /\ buffer' = Drop(rest, BodySize)
         /\ processed' \in {processed, Append(processed, buffer[1].of)}
      BY <1>1
<1> HIDE DEF rest
<1>6. CASE buffer' = rest /\ processed' = processed
      BY <1>3, <1>4, <1>6, TakenOrdered
<1>7. CASE /\ Len(rest) >= BodySize /\ buffer' = Drop(rest, BodySize)
           /\ processed' \in {processed, Append(processed, buffer[1].of)}
  <2>1. rest \in Seq(Tokens) /\ BodySize \in 0 .. Len(rest) /\ BodySize \in Nat
        BY <1>3, <1>7, FramingAssumption, LenProperties DEF PartOf
  <2>2. PartOf(buffer', rest, BodySize)
        BY <1>7, <2>1, DropIsPart
  <2>3. PartOf(buffer', buffer, BodySize + m)
        BY <1>3, <2>2, PartOfPart
  <2>4. BodySize + m \in Nat \ {0}
        BY <2>1
  <2>5. CASE processed' = processed
        BY <1>4, <2>3, <2>5, TakenOrdered
  <2>6. CASE processed' = Append(processed, buffer[1].of)
        BY <1>2, <1>4, <2>3, <2>4, <2>6, HandedOrdered
  <2> QED
      BY <1>7, <2>5, <2>6
<1> QED
    BY <1>5, <1>6, <1>7

LEMMA OrderedAtFirst == Init => Ordered
<1> SUFFICES ASSUME Init PROVE Ordered
    OBVIOUS
<1>1. <<>> \in Seq(Tokens) /\ <<>> \in Seq(Nat) /\ DOMAIN <<>> = {}
      OBVIOUS
<1>2. Starts(<<>>) = {}
      BY <1>1 DEF Starts
<1>3. sent = 0 /\ stdout = <<>> /\ buffer = <<>> /\ processed = <<>>
      BY DEF Init
<1> QED
    BY <1>1, <1>2, <1>3, NoStarts DEF Ordered, HandledInOrder

LEMMA OrderedKept == Ordered /\ [Next]_vars => Ordered'
<1> SUFFICES ASSUME Ordered, [Next]_vars PROVE Ordered'
    OBVIOUS
<1>1. CASE UNCHANGED <<sent, stdout, buffer, processed>>
      BY <1>1 DEF Ordered, HandledInOrder
<1>2. CASE PrintError \/ NoLine \/ UNCHANGED vars
      BY <1>1, <1>2 DEF PrintError, NoLine, vars
<1> QED
    BY <1>2, WriteOrdered, ReadStdoutOrdered, ReadStderrOrdered, BadLineOrdered, GoodLineOrdered
    DEF Next, ParseStep

\* However the bytes are cut and whatever stderr puts between them, the client handles only
\* messages the debugger wrote, each at most once and in the order written
\* (parse_messages_from_buffer).
THEOREM HandledAlwaysInOrder == Spec => []HandledInOrder
<1>1. Ordered => HandledInOrder
      BY DEF Ordered
<1> QED
    BY <1>1, OrderedAtFirst, OrderedKept, PTL DEF Spec

-----------------------------------------------------------------------------
(* What is handled while every read ends well.                              *)

\* From each header on comes the rest of its message and then the next one, up to message n.
Laid(s, n) ==
    \A k \in Starts(s) : LET m == s[k].of IN
        /\ m > 0 /\ k + 2 + BodySize \in 1 .. Len(s)
        /\ s[k] = Length(m) /\ s[k + 1] = LineEnd(m) /\ s[k + 2] = Blank(m)
        /\ \A i \in 1 .. BodySize : s[k + 2 + i] = Body(m, i)
        /\ IF k + 2 + BodySize < Len(s) THEN s[k + 3 + BodySize] = Length(m + 1) ELSE m = n

\* What the debugger has written and the client has not handled.
Waiting == buffer \o stdout

Handled(m) == \E i \in DOMAIN processed : processed[i] = m
Awaits(s, m) == \E k \in Starts(s) : s[k].of = m

\* Whole messages are waiting, and none is missing between them and those handled; what has
\* been read of them ends well, and is no more than a header's beginning when parsed.
Complete ==
    clean =>
        /\ Laid(Waiting, sent)
        /\ Waiting # <<>> => 1 \in Starts(Waiting)
        /\ \A m \in 1 .. sent : Handled(m) \/ Awaits(Waiting, m)
        /\ buffer # <<>> => GoodEnd(buffer[Len(buffer)])
        /\ ~parsing => Len(buffer) <= 1

LEMMA LaidAfter ==
    ASSUME NEW s \in Seq(Tokens), NEW t \in Seq(Tokens), NEW d \in Nat, NEW n, Laid(s, n),
           Len(s) = Len(t) + d, \A k \in 1 .. Len(t) : t[k] = s[k + d]
    PROVE  Laid(t, n)
<1>1. Len(s) \in Nat /\ Len(t) \in Nat /\ DOMAIN s = 1 .. Len(s) /\ DOMAIN t = 1 .. Len(t)
      BY LenProperties
<1>2. BodySize \in Nat
      BY FramingAssumption
<1> SUFFICES ASSUME NEW k \in Starts(t)
             PROVE  LET m == t[k].of IN
                    /\ m > 0 /\ k + 2 + BodySize \in 1 .. Len(t)
                    /\ t[k] = Length(m) /\ t[k + 1] = LineEnd(m) /\ t[k + 2] = Blank(m)
                    /\ \A i \in 1 .. BodySize : t[k + 2 + i] = Body(m, i)
                    /\ IF k + 2 + BodySize < Len(t) THEN t[k + 3 + BodySize] = Length(m + 1) ELSE m = n
    BY DEF Laid
<1> DEFINE j == k + d
           m == t[k].of
<1>3. /\ k \in 1 .. Len(t) /\ k \in Nat /\ t[k] = s[j] /\ t[k].part = "length"
      /\ j \in 1 .. Len(s)
      BY <1>1 DEF Starts
<1>4. j \in Starts(s) /\ s[j].of = m
      BY <1>1, <1>3 DEF Starts
<1>5. /\ m > 0 /\ j + 2 + BodySize \in 1 .. Len(s)
      /\ s[j] = Length(m) /\ s[j + 1] = LineEnd(m) /\ s[j + 2] = Blank(m)
      /\ \A i \in 1 .. BodySize : s[j + 2 + i] = Body(m, i)
      /\ IF j + 2 + BodySize < Len(s) THEN s[j + 3 + BodySize] = Length(m + 1) ELSE m = n
      BY <1>4 DEF Laid
<1> HIDE DEF m
<1>6. /\ k \in Nat /\ d \in Nat /\ Len(t) \in Nat /\ Len(s) \in Nat /\ BodySize \in Nat
      /\ j = k + d /\ Len(s) = Len(t) + d /\ k >= 1 /\ j + 2 + BodySize <= Len(s)
      BY <1>1, <1>2, <1>3, <1>5
<1> HIDE DEF j
<1>7. k + 2 + BodySize \in 1 .. Len(t) /\ (k + 2 + BodySize < Len(t) <=> j + 2 + BodySize < Len(s))
      BY ONLY <1>6
<1>8. ASSUME NEW i \in 1 .. (2 + BodySize) PROVE t[k + i] = s[j + i]
  <2>1. k + i \in 1 .. Len(t) /\ (k + i) + d = j + i
        BY ONLY <1>6, <1>8
  <2> QED
      BY <2>1
<1>9. t[k + 1] = LineEnd(m) /\ t[k + 2] = Blank(m)
      BY <1>2, <1>5, <1>8
<1>10. ASSUME NEW i \in 1 .. BodySize PROVE t[k + 2 + i] = Body(m, i)
  <2>1. 2 + i \in 1 .. (2 + BodySize) /\ k + (2 + i) = k + 2 + i /\ j + (2 + i) = j + 2 + i
        BY ONLY <1>6, <1>10
  <2>2. t[k + (2 + i)] = s[j + (2 + i)]
        BY <1>8, <2>1
  <2> QED
      BY <1>5, <2>1, <2>2
<1>11. ASSUME k + 2 + BodySize < Len(t) PROVE t[k + 3 + BodySize] = Length(m + 1)
  <2>1. k + 3 + BodySize \in 1 .. Len(t) /\ (k + 3 + BodySize) + d = j + 3 + BodySize
        BY ONLY <1>6, <1>7, <1>11
  <2>2. s[j + 3 + BodySize] = Length(m + 1)
        BY <1>5, <1>7, <1>11
  <2> QED
      BY <2>1, <2>2
<1> QED
    BY <1>3, <1>5, <1>7, <1>9, <1>10, <1>11 DEF m

\* One more message is written.
LEMMA LaidMore ==
    ASSUME NEW s \in Seq(Tokens), NEW t \in Seq(Tokens), NEW n \in Nat, Laid(s, n),
           Len(t) = Len(s) + 3 + BodySize, \A k \in 1 .. Len(s) : t[k] = s[k],
           t[Len(s) + 1] = Length(n + 1), t[Len(s) + 2] = LineEnd(n + 1),
           t[Len(s) + 3] = Blank(n + 1),
           \A i \in 1 .. BodySize : t[Len(s) + 3 + i] = Body(n + 1, i)
    PROVE  /\ Laid(t, n + 1) /\ Starts(t) = Starts(s) \cup {Len(s) + 1}
<1>1. Len(s) \in Nat /\ Len(t) \in Nat /\ DOMAIN s = 1 .. Len(s) /\ DOMAIN t = 1 .. Len(t)
      BY LenProperties
<1>2. BodySize \in Nat /\ Len(t) = Len(s) + 3 + BodySize
      BY FramingAssumption
<1>3. ASSUME NEW k \in Starts(t) PROVE k \in Nat /\ (k \in Starts(s) \/ k = Len(s) + 1)
  <2>1. k \in 1 .. Len(t) /\ t[k].part = "length"
        BY <1>1, <1>3 DEF Starts
  <2>2. CASE k <= Len(s)
        BY <1>1, <2>1, <2>2 DEF Starts
  <2>3. CASE k = Len(s) + 2 \/ k = Len(s) + 3
        BY <2>1, <2>3 DEF LineEnd, Blank
  <2>4. CASE k > Len(s) + 3
    <3>1. k - (Len(s) + 3) \in 1 .. BodySize /\ Len(s) + 3 + (k - (Len(s) + 3)) = k
          BY ONLY <1>1, <1>2, <2>1, <2>4
    <3>2. t[k] = Body(n + 1, k - (Len(s) + 3))
          BY <3>1
    <3> QED
        BY <2>1, <3>2 DEF Body
  <2> QED
      BY <1>1, <2>1, <2>2, <2>3, <2>4
<1>4. Starts(s) \subseteq Starts(t) /\ Len(s) + 1 \in Starts(t)
  <2>1. ASSUME NEW k \in Starts(s) PROVE k \in Starts(t)
    <3>1. k \in 1 .. Len(s) /\ k \in 1 .. Len(t)
          BY <1>1, <1>2, <2>1 DEF Starts
    <3> QED
        BY <1>1, <2>1, <3>1 DEF Starts
  <2>2. Len(s) + 1 \in 1 .. Len(t)
        BY <1>1, <1>2
  <2> QED
      BY <1>1, <2>1, <2>2 DEF Starts, Length
<1>5. ASSUME NEW k \in Starts(s)
      PROVE  LET m == t[k].of IN
             /\ m > 0 /\ k + 2 + BodySize \in 1 .. Len(t)
             /\ t[k] = Length(m) /\ t[k + 1] = LineEnd(m) /\ t[k + 2] = Blank(m)
             /\ \A i \in 1 .. BodySize : t[k + 2 + i] = Body(m, i)
             /\ IF k + 2 + BodySize < Len(t) THEN t[k + 3 + BodySize] = Length(m + 1) ELSE m = n + 1
  <2> DEFINE m == s[k].of
  <2>1. k \in 1 .. Len(s) /\ k \in Nat /\ t[k] = s[k]
        BY <1>1, <1>5 DEF Starts
  <2>2. /\ m > 0 /\ k + 2 + BodySize \in 1 .. Len(s)
        /\ s[k] = Length(m) /\ s[k + 1] = LineEnd(m) /\ s[k + 2] = Blank(m)
        /\ \A i \in 1 .. BodySize : s[k + 2 + i] = Body(m, i)
        /\ IF k + 2 + BodySize < Len(s) THEN s[k + 3 + BodySize] = Length(m + 1) ELSE m = n
        BY <1>5 DEF Laid
  <2>3. m = t[k].of
        BY <2>1
  <2> HIDE DEF m
  <2>4. k + 2 + BodySize \in 1 .. Len(s) /\ k \in 1 .. Len(s)
        BY <2>1, <2>2
  <2>5. k >= 1 /\ k \in Nat /\ k + 2 + BodySize <= Len(s)
        BY ONLY <1>1, <1>2, <2>4
  <2>6. /\ k + 1 \in 1 .. Len(s) /\ k + 2 \in 1 .. Len(s)
        /\ \A i \in 1 .. BodySize : k + 2 + i \in 1 .. Len(s)
        BY ONLY <1>1, <1>2, <2>5
  <2>7. /\ t[k + 1] = LineEnd(m) /\ t[k + 2] = Blank(m)
        /\ \A i \in 1 .. BodySize : t[k + 2 + i] = Body(m, i)
        BY <2>2, <2>6
  <2>8. k + 2 + BodySize \in 1 .. Len(t) /\ k + 2 + BodySize < Len(t)
        BY ONLY <1>1, <1>2, <2>5
  <2>9. CASE ~(k + 2 + BodySize < Len(s))
    <3>1. k + 3 + BodySize = Len(s) + 1
          BY ONLY <1>1, <1>2, <2>5, <2>9
    <3>2. m = n
          BY <2>2, <2>9
    <3> QED
        BY <2>1, <2>2, <2>3, <2>7, <2>8, <3>1, <3>2
  <2>10. CASE k + 2 + BodySize < Len(s)
    <3>1. k + 3 + BodySize \in 1 .. Len(s)
          BY ONLY <1>1, <1>2, <2>5, <2>10
    <3>2. t[k + 3 + BodySize] = Length(m + 1)
          BY <2>2, <2>10, <3>1
    <3> QED
        BY <2>1, <2>2, <2>3, <2>7, <2>8, <3>2
  <2> QED
      BY <2>9, <2>10
<1>6. LET k == Len(s) + 1
          m == t[k].of IN
      /\ m > 0 /\ k + 2 + BodySize \in 1 .. Len(t)
      /\ t[k] = Length(m) /\ t[k + 1] = LineEnd(m) /\ t[k + 2] = Blank(m)
      /\ \A i \in 1 .. BodySize : t[k + 2 + i] = Body(m, i)
      /\ IF k + 2 + BodySize < Len(t) THEN t[k + 3 + BodySize] = Length(m + 1) ELSE m = n + 1
  <2> DEFINE k == Len(s) + 1
  <2>1. k + 2 + BodySize = Len(t) /\ k + 2 + BodySize \in 1 .. Len(t) /\ t[k].of = n + 1
        BY <1>1, <1>2 DEF Length
  <2>2. /\ k + 1 = Len(s) + 2 /\ k + 2 = Len(s) + 3
        /\ \A i \in 1 .. BodySize : k + 2 + i = Len(s) + 3 + i
        BY <1>1, <1>2
  <2> QED
      BY <2>1, <2>2
<1> QED
    BY <1>3, <1>4, <1>5, <1>6 DEF Laid

\* A row of bytes before another, place by place.
LEMMA JoinedPlaces ==
    ASSUME NEW s \in Seq(Tokens), NEW t \in Seq(Tokens)
    PROVE  /\ s \o t \in Seq(Tokens) /\ Len(s \o t) = Len(s) + Len(t)
           /\ Len(s) \in Nat /\ Len(t) \in Nat /\ Len(s \o t) \in Nat
           /\ DOMAIN s = 1 .. Len(s) /\ DOMAIN t = 1 .. Len(t)
           /\ DOMAIN (s \o t) = 1 .. Len(s \o t)
           /\ \A k \in 1 .. Len(s) : (s \o t)[k] = s[k]
           /\ \A k \in 1 .. Len(t) : (s \o t)[Len(s) + k] = t[k]
<1>1. /\ s \o t \in Seq(Tokens) /\ Len(s \o t) = Len(s) + Len(t)
      /\ \A k \in 1 .. (Len(s) + Len(t)) : (s \o t)[k] = IF k <= Len(s) THEN s[k] ELSE t[k - Len(s)]
      BY ConcatProperties
<1>2. /\ Len(s) \in Nat /\ Len(t) \in Nat /\ Len(s \o t) \in Nat
      /\ DOMAIN s = 1 .. Len(s) /\ DOMAIN t = 1 .. Len(t)
      /\ DOMAIN (s \o t) = 1 .. Len(s \o t)
      BY <1>1, LenProperties
<1> DEFINE w == s \o t
<1> HIDE DEF w
<1>3. ASSUME NEW k \in 1 .. Len(s) PROVE w[k] = s[k]
  <2>1. k \in 1 .. (Len(s) + Len(t)) /\ k <= Len(s)
        BY ONLY <1>2, <1>3
  <2> QED
      BY <1>1, <2>1 DEF w
<1>4. ASSUME NEW k \in 1 .. Len(t) PROVE w[Len(s) + k] = t[k]
  <2>1. /\ Len(s) + k \in 1 .. (Len(s) + Len(t)) /\ ~(Len(s) + k <= Len(s))
        /\ (Len(s) + k) - Len(s) = k
        BY ONLY <1>2, <1>4
  <2> QED
      BY <1>1, <2>1 DEF w
<1> QED
    BY <1>1, <1>2, <1>3, <1>4 DEF w

\* Cut and put together again.
LEMMA CutAndJoined ==
    ASSUME NEW s \in Seq(Tokens), NEW n \in 0 .. Len(s)
    PROVE  /\ SubSeq(s, 1, n) \in Seq(Tokens) /\ Drop(s, n) \in Seq(Tokens)
           /\ Len(SubSeq(s, 1, n)) = n /\ Len(Drop(s, n)) = Len(s) - n
           /\ n > 0 => SubSeq(s, 1, n)[n] = s[n]
           /\ SubSeq(s, 1, n) \o Drop(s, n) = s
<1> DEFINE front == SubSeq(s, 1, n)
           back == SubSeq(s, n + 1, Len(s))
<1>1. /\ Len(s) \in Nat /\ DOMAIN s = 1 .. Len(s) /\ \A k \in 1 .. Len(s) : s[k] \in Tokens
      /\ n \in Nat /\ n <= Len(s)
      BY LenProperties, ElementOfSeq
<1>2. front \in Seq(Tokens) /\ Len(front) = n /\ \A k \in 1 .. n : front[k] = s[k]
      BY <1>1, SubSeqProperties
<1>3. /\ back \in Seq(Tokens) /\ Len(back) = Len(s) - n
      /\ \A k \in 1 .. (Len(s) - n) : back[k] = s[n + k]
  <2>1. n + 1 \in 1 .. (Len(s) + 1) /\ Len(s) \in n .. Len(s)
        BY <1>1
  <2>2. /\ back \in Seq(Tokens)
        /\ Len(back) = IF n + 1 <= Len(s) THEN Len(s) - (n + 1) + 1 ELSE 0
        /\ \A k \in 1 .. (Len(s) - (n + 1) + 1) : back[k] = s[n + 1 + k - 1]
        BY <1>1, <2>1, SubSeqProperties
  <2> HIDE DEF back
  <2>3. (IF n + 1 <= Len(s) THEN Len(s) - (n + 1) + 1 ELSE 0) = Len(s) - n
    <3>1. Len(s) \in Nat /\ n \in Nat /\ n <= Len(s)
          BY <1>1
    <3> QED
        BY ONLY <3>1
  <2>4. ASSUME NEW k \in 1 .. (Len(s) - n)
        PROVE  k \in 1 .. (Len(s) - (n + 1) + 1) /\ n + 1 + k - 1 = n + k
        BY ONLY <1>1, <2>4
  <2> QED
      BY <2>2, <2>3, <2>4
<1> HIDE DEF front, back
<1>4. front \o back = s
  <2>1. /\ front \o back \in Seq(Tokens) /\ Len(front \o back) = Len(front) + Len(back)
        /\ \A k \in 1 .. (Len(front) + Len(back)) :
              (front \o back)[k] = IF k <= Len(front) THEN front[k] ELSE back[k - Len(front)]
        BY <1>2, <1>3, ConcatProperties
  <2>2. ASSUME NEW k \in 1 .. Len(s) PROVE (front \o back)[k] = s[k]
    <3>1. CASE k <= n
          BY <1>1, <1>2, <1>3, <2>1, <3>1
    <3>2. CASE ~(k <= n)
      <4>1. k - n \in 1 .. (Len(s) - n) /\ n + (k - n) = k
            BY ONLY <1>1, <2>2, <3>2
      <4>2. k \in 1 .. (n + (Len(s) - n))
            BY ONLY <1>1, <2>2
      <4> QED
          BY <1>2, <1>3, <2>1, <3>2, <4>1, <4>2
    <3> QED
        BY <3>1, <3>2
  <2>3. Len(front \o back) = Len(s)
        BY <1>1, <1>2, <1>3, <2>1
  <2> QED
      BY <1>1, <2>1, <2>2, <2>3, SeqEqual
<1>5. n > 0 => front[n] = s[n]
      BY <1>1, <1>2
<1>6. back = Drop(s, n)
      BY DEF back, Drop
<1> QED
    BY <1>2, <1>3, <1>4, <1>5, <1>6 DEF front

\* The bytes of one message more.
LEMMA WrittenPlaces ==
    ASSUME NEW s \in Seq(Tokens), NEW m \in Nat
    PROVE  LET t == (s \o Header(m)) \o BodyOf(m) IN
           /\ t \in Seq(Tokens) /\ Len(t) = Len(s) + 3 + BodySize
           /\ \A k \in 1 .. Len(s) : t[k] = s[k]
           /\ t[Len(s) + 1] = Length(m) /\ t[Len(s) + 2] = LineEnd(m) /\ t[Len(s) + 3] = Blank(m)
           /\ \A i \in 1 .. BodySize : t[Len(s) + 3 + i] = Body(m, i)
<1> DEFINE h == Header(m)
           b == BodyOf(m)
           u == s \o h
           t == u \o b
<1>1. BodySize \in Nat
      BY FramingAssumption
<1>2. h \in Seq(Tokens) /\ b \in Seq(Tokens)
      BY MessageStarts
<1>3. Len(h) = 3 /\ h[1] = Length(m) /\ h[2] = LineEnd(m) /\ h[3] = Blank(m)
      BY DEF Header
<1>4. Len(b) = BodySize /\ \A i \in 1 .. BodySize : b[i] = Body(m, i)
  <2>1. DOMAIN b = 1 .. BodySize
        BY DEF BodyOf
  <2> QED
      BY <1>1, <1>2, <2>1, LenProperties DEF BodyOf
<1> HIDE DEF h, b
<1>5. /\ u \in Seq(Tokens) /\ Len(u) = Len(s) + 3 /\ Len(s) \in Nat
      /\ \A k \in 1 .. Len(s) : u[k] = s[k]
      /\ u[Len(s) + 1] = Length(m) /\ u[Len(s) + 2] = LineEnd(m) /\ u[Len(s) + 3] = Blank(m)
  <2>1. /\ u \in Seq(Tokens) /\ Len(u) = Len(s) + Len(h) /\ Len(s) \in Nat
        /\ \A k \in 1 .. Len(s) : u[k] = s[k]
        /\ \A k \in 1 .. Len(h) : u[Len(s) + k] = h[k]
        BY <1>2, JoinedPlaces
  <2>2. 1 \in 1 .. Len(h) /\ 2 \in 1 .. Len(h) /\ 3 \in 1 .. Len(h)
        BY <1>3
  <2> HIDE DEF u
  <2> QED
      BY <1>3, <2>1, <2>2
<1> HIDE DEF u
<1>6. /\ t \in Seq(Tokens) /\ Len(t) = Len(u) + BodySize
      /\ \A k \in 1 .. Len(u) : t[k] = u[k]
      /\ \A i \in 1 .. BodySize : t[Len(u) + i] = b[i]
      BY <1>2, <1>4, <1>5, JoinedPlaces
<1> HIDE DEF t
<1>7. \A k \in 1 .. (Len(s) + 3) : t[k] = u[k]
      BY <1>5, <1>6
<1>8. /\ 1 .. Len(s) \subseteq 1 .. (Len(s) + 3)
      /\ Len(s) + 1 \in 1 .. (Len(s) + 3) /\ Len(s) + 2 \in 1 .. (Len(s) + 3)
      /\ Len(s) + 3 \in 1 .. (Len(s) + 3)
      BY <1>5
<1>9. /\ \A k \in 1 .. Len(s) : t[k] = s[k]
      /\ t[Len(s) + 1] = Length(m) /\ t[Len(s) + 2] = LineEnd(m) /\ t[Len(s) + 3] = Blank(m)
      BY <1>5, <1>7, <1>8
<1>10. \A i \in 1 .. BodySize : t[Len(s) + 3 + i] = Body(m, i)
       BY <1>4, <1>5, <1>6
<1> QED
    BY <1>1, <1>5, <1>6, <1>9, <1>10 DEF t, u, h, b

LEMMA JoinedTwice ==
    ASSUME NEW s \in Seq(Tokens), NEW t \in Seq(Tokens), NEW u \in Seq(Tokens)
    PROVE  (s \o t) \o u = s \o (t \o u)
BY ConcatAssociative

LEMMA WriteCompletes ==
    ASSUME Ordered, Complete, WriteMessage
    PROVE  Complete'
<1> DEFINE m == sent + 1
<1>1. /\ buffer \in Seq(Tokens) /\ stdout \in Seq(Tokens) /\ sent \in Nat /\ m \in Nat
      BY DEF Ordered
<1>2. /\ sent' = m /\ stdout' = (stdout \o Header(m)) \o BodyOf(m)
      /\ UNCHANGED <<buffer, processed, parsing, clean>>
      BY DEF WriteMessage
<1>3. CASE ~clean
      BY <1>2, <1>3 DEF Complete
<1>4. CASE clean
  <2>1. /\ Laid(Waiting, sent)
        /\ Waiting # <<>> => 1 \in Starts(Waiting)
        /\ \A x \in 1 .. sent : Handled(x) \/ Awaits(Waiting, x)
        /\ buffer # <<>> => GoodEnd(buffer[Len(buffer)])
        /\ ~parsing => Len(buffer) <= 1
        BY <1>4 DEF Complete
  <2> DEFINE s == Waiting
             t == (s \o Header(m)) \o BodyOf(m)
  <2>2. s \in Seq(Tokens) /\ Len(s) \in Nat /\ DOMAIN s = 1 .. Len(s)
        BY <1>1, JoinedPlaces DEF Waiting
  <2>3. Waiting' = t
    <3>1. Header(m) \in Seq(Tokens) /\ BodyOf(m) \in Seq(Tokens)
          BY <1>1, MessageStarts
    <3>2. stdout \o Header(m) \in Seq(Tokens)
          BY <1>1, <3>1, JoinedPlaces
    <3>3. Waiting' = buffer \o ((stdout \o Header(m)) \o BodyOf(m))
          BY <1>2 DEF Waiting
    <3>4. buffer \o ((stdout \o Header(m)) \o BodyOf(m)) = (buffer \o (stdout \o Header(m))) \o BodyOf(m)
      <4>1. /\ buffer \in Seq(Tokens) /\ stdout \o Header(m) \in Seq(Tokens)
            /\ BodyOf(m) \in Seq(Tokens)
            BY <1>1, <3>1, <3>2
      <4> QED
          BY ONLY <4>1, JoinedTwice
    <3>5. buffer \o (stdout \o Header(m)) = (buffer \o stdout) \o Header(m)
      <4>1. /\ buffer \in Seq(Tokens) /\ stdout \in Seq(Tokens)
            /\ Header(m) \in Seq(Tokens)
            BY <1>1, <3>1
      <4> QED
          BY ONLY <4>1, JoinedTwice
    <3> QED
        BY <3>3, <3>4, <3>5 DEF Waiting
  <2>4. /\ t \in Seq(Tokens) /\ Len(t) = Len(s) + 3 + BodySize
        /\ \A k \in 1 .. Len(s) : t[k] = s[k]
        /\ t[Len(s) + 1] = Length(m) /\ t[Len(s) + 2] = LineEnd(m) /\ t[Len(s) + 3] = Blank(m)
        /\ \A i \in 1 .. BodySize : t[Len(s) + 3 + i] = Body(m, i)
        BY <1>1, <2>2, WrittenPlaces
  <2> HIDE DEF s, t
  <2>5. Laid(t, m) /\ Starts(t) = Starts(s) \cup {Len(s) + 1}
        BY <1>1, <2>1, <2>2, <2>4, LaidMore DEF s
  <2>6. 1 \in Starts(t)
    <3>1. CASE Waiting = <<>>
      <4>1. Len(s) = 0
            BY <3>1 DEF s
      <4> QED
          BY <2>5, <4>1
    <3> QED
        BY <2>1, <2>5, <3>1 DEF s
  <2>7. ASSUME NEW x \in 1 .. m PROVE Handled(x) \/ Awaits(t, x)
    <3>1. CASE x = m
          BY <2>4, <2>5, <3>1 DEF Awaits, Length
    <3>2. CASE x # m
      <4>1. x \in 1 .. sent
            BY <1>1, <2>7, <3>2
      <4>2. ASSUME Awaits(s, x) PROVE Awaits(t, x)
        <5>1. PICK k \in Starts(s) : s[k].of = x
              BY <4>2 DEF Awaits
        <5>2. k \in 1 .. Len(s)
              BY <2>2 DEF Starts
        <5> QED
            BY <2>4, <2>5, <5>1, <5>2 DEF Awaits
      <4> QED
          BY <2>1, <4>1, <4>2 DEF s
    <3> QED
        BY <3>1, <3>2
  <2>8. /\ Laid(Waiting', sent') /\ 1 \in Starts(Waiting')
        /\ \A x \in 1 .. sent' : Handled(x)' \/ Awaits(Waiting', x)
    <3> HIDE DEF m
    <3> QED
        BY <1>2, <2>3, <2>5, <2>6, <2>7 DEF Handled
  <2> QED
      BY <1>2, <2>1, <2>8 DEF Complete
<1> QED
    BY <1>3, <1>4

LEMMA ReadCompletes ==
    ASSUME Ordered, Complete, ReadStdout
    PROVE  Complete'
<1>1. PICK n \in 1 .. Len(stdout) :
          /\ buffer' = buffer \o SubSeq(stdout, 1, n) /\ stdout' = Drop(stdout, n)
          /\ clean' = (clean /\ GoodEnd(stdout[n]))
      BY DEF ReadStdout
<1>2. parsing' /\ sent' = sent /\ processed' = processed
      BY DEF ReadStdout
<1>3. clean' => clean /\ GoodEnd(stdout[n])
      BY <1>1
<1> DEFINE f == SubSeq(stdout, 1, n)
           b == Drop(stdout, n)
<1>4. /\ buffer \in Seq(Tokens) /\ stdout \in Seq(Tokens) /\ n \in 0 .. Len(stdout)
      /\ n \in Nat /\ n > 0
      BY LenProperties DEF Ordered
<1>5. /\ f \in Seq(Tokens) /\ b \in Seq(Tokens) /\ Len(f) = n /\ f[n] = stdout[n] /\ f \o b = stdout
      BY <1>4, CutAndJoined
<1>6. buffer' = buffer \o f /\ stdout' = b
      BY <1>1
<1> HIDE DEF f, b
<1>7. Waiting' = Waiting
  <2>1. (buffer \o f) \o b = buffer \o (f \o b)
    <3>1. buffer \in Seq(Tokens) /\ f \in Seq(Tokens) /\ b \in Seq(Tokens)
          BY <1>4, <1>5
    <3> QED
        BY ONLY <3>1, JoinedTwice
  <2> QED
      BY <1>5, <1>6, <2>1 DEF Waiting
<1>8. /\ Len(buffer') = Len(buffer) + n /\ Len(buffer) \in Nat
      /\ buffer'[Len(buffer) + n] = stdout[n]
  <2>1. /\ Len(buffer \o f) = Len(buffer) + Len(f) /\ Len(buffer) \in Nat
        /\ \A k \in 1 .. Len(f) : (buffer \o f)[Len(buffer) + k] = f[k]
        BY <1>4, <1>5, JoinedPlaces
  <2>2. n \in 1 .. Len(f)
        BY <1>4, <1>5
  <2> QED
      BY <1>5, <1>6, <2>1, <2>2
<1>9. clean' => GoodEnd(buffer'[Len(buffer')])
      BY <1>3, <1>8
<1> QED
    BY <1>2, <1>3, <1>7, <1>9 DEF Complete, Handled

\* Once a line has been read of it, a message has been read whole.
LEMMA MessageRead ==
    ASSUME Ordered, Complete, clean, buffer # <<>>
    PROVE  LET m == buffer[1].of IN
           /\ 1 \in Starts(buffer) /\ m \in Nat /\ Len(buffer) \in Nat
           /\ buffer[1] = Length(m) /\ buffer[1] = Waiting[1]
           /\ Len(buffer) > 1 =>
                 /\ Len(buffer) >= 3 + BodySize
                 /\ buffer[2] = LineEnd(m) /\ buffer[3] = Blank(m)
                 /\ \A i \in 1 .. BodySize : buffer[3 + i] = Body(m, i)
<1> DEFINE m == buffer[1].of
           l == Len(buffer)
<1>1. /\ buffer \in Seq(Tokens) /\ stdout \in Seq(Tokens) /\ BodySize \in Nat /\ BodySize > 0
      BY FramingAssumption DEF Ordered
<1>2. /\ l \in Nat /\ l > 0 /\ DOMAIN buffer = 1 .. l
      /\ \A k \in 1 .. l : Waiting[k] = buffer[k]
      /\ Len(Waiting) >= l /\ Len(Waiting) \in Nat
  <2>1. /\ Len(Waiting) = l + Len(stdout) /\ l \in Nat /\ Len(stdout) \in Nat
        /\ DOMAIN buffer = 1 .. l
        /\ \A k \in 1 .. l : Waiting[k] = buffer[k]
        BY <1>1, JoinedPlaces DEF Waiting
  <2>2. l # 0
        BY <1>1, EmptySeq
  <2> HIDE DEF l
  <2> QED
      BY <2>1, <2>2
<1>3. Laid(Waiting, sent) /\ GoodEnd(buffer[l])
      BY DEF Complete
<1>4. 1 \in Starts(Waiting)
  <2>1. Waiting # <<>>
        BY <1>2
  <2> QED
      BY <2>1 DEF Complete
<1>5. 1 \in 1 .. l /\ buffer[1] = Waiting[1] /\ Waiting[1].of = m
      BY <1>2
<1>6. 1 \in Starts(buffer) /\ m \in Nat
  <2>1. 1 \in Starts(buffer)
        BY <1>2, <1>4, <1>5 DEF Starts
  <2> QED
      BY <1>1, <2>1, StartsNumbered
<1>7. /\ Waiting[1] = Length(m) /\ Waiting[1 + 1] = LineEnd(m) /\ Waiting[1 + 2] = Blank(m)
      /\ \A i \in 1 .. BodySize : Waiting[1 + 2 + i] = Body(m, i)
      BY <1>3, <1>4, <1>5 DEF Laid
<1> HIDE DEF m, l
<1>8. ASSUME l > 1 PROVE l >= 3 + BodySize
  <2> SUFFICES ASSUME ~(l >= 3 + BodySize) PROVE FALSE
      OBVIOUS
  <2>1. l \in 1 .. l /\ Waiting[l] = buffer[l]
        BY <1>2
  <2>2. CASE l = 2 \/ l = 3
        BY <1>3, <1>7, <2>1, <2>2 DEF GoodEnd, LineEnd, Blank
  <2>3. CASE l > 3
    <3>1. l - 3 \in 1 .. BodySize /\ l - 3 # BodySize /\ 1 + 2 + (l - 3) = l
          BY <1>1, <1>2, <2>3
    <3>2. Waiting[l] = Body(m, l - 3)
          BY <1>7, <3>1
    <3> QED
        BY <1>3, <2>1, <3>1, <3>2 DEF GoodEnd, Body
  <2> QED
      BY <1>2, <1>8, <2>2, <2>3
<1>9. ASSUME l > 1
      PROVE  /\ buffer[2] = LineEnd(m) /\ buffer[3] = Blank(m)
             /\ \A i \in 1 .. BodySize : buffer[3 + i] = Body(m, i)
  <2>1. /\ 2 \in 1 .. l /\ 3 \in 1 .. l
        /\ \A i \in 1 .. BodySize : 3 + i \in 1 .. l
        BY <1>1, <1>2, <1>8, <1>9
  <2> QED
      BY <1>2, <1>7, <2>1
<1> QED
    BY <1>2, <1>5, <1>6, <1>7, <1>8, <1>9 DEF m, l

\* It is taken off whole, and what is waiting begins with the next.
LEMMA TakenCompletes ==
    ASSUME Ordered, Complete, clean, parsing', Len(buffer) > 1,
           PartOf(buffer', buffer, 3 + BodySize), Len(buffer) = Len(buffer') + (3 + BodySize),
           processed' = Append(processed, buffer[1].of),
           UNCHANGED <<stdout, sent>>
    PROVE  Complete'
<1> DEFINE m == buffer[1].of
           d == 3 + BodySize
           s == Waiting
           t == Waiting'
<1>1. /\ 1 \in Starts(buffer) /\ m \in Nat /\ Len(buffer) \in Nat
      /\ buffer[1] = Length(m) /\ buffer[1] = s[1]
      /\ buffer[2] = LineEnd(m) /\ buffer[3] = Blank(m)
      /\ \A i \in 1 .. BodySize : buffer[3 + i] = Body(m, i)
  <2>1. buffer # <<>>
        BY EmptySeq
  <2> QED
      BY <2>1, MessageRead
<1>2. /\ Laid(s, sent) /\ \A x \in 1 .. sent : Handled(x) \/ Awaits(s, x)
      /\ GoodEnd(buffer[Len(buffer)])
  <2>1. buffer # <<>>
        BY EmptySeq
  <2> QED
      BY <2>1 DEF Complete
<1>3. /\ buffer \in Seq(Tokens) /\ stdout \in Seq(Tokens) /\ processed \in Seq(Nat)
      /\ BodySize \in Nat /\ d \in Nat /\ d > 0
      BY FramingAssumption DEF Ordered
<1>4. /\ buffer' \in Seq(Tokens) /\ stdout' = stdout /\ Len(buffer) = Len(buffer') + d
      /\ \A k \in DOMAIN buffer' : buffer'[k] = buffer[k + d]
      BY DEF PartOf
<1>5. /\ s \in Seq(Tokens) /\ Len(s) = Len(buffer) + Len(stdout)
      /\ Len(buffer) \in Nat /\ Len(stdout) \in Nat /\ Len(s) \in Nat /\ DOMAIN s = 1 .. Len(s)
      /\ \A k \in 1 .. Len(buffer) : s[k] = buffer[k]
      /\ \A k \in 1 .. Len(stdout) : s[Len(buffer) + k] = stdout[k]
      BY <1>3, JoinedPlaces DEF Waiting
<1>6. /\ t \in Seq(Tokens) /\ Len(t) = Len(buffer') + Len(stdout)
      /\ Len(buffer') \in Nat /\ Len(t) \in Nat /\ DOMAIN t = 1 .. Len(t)
      /\ DOMAIN buffer' = 1 .. Len(buffer')
      /\ \A k \in 1 .. Len(buffer') : t[k] = buffer'[k]
      /\ \A k \in 1 .. Len(stdout) : t[Len(buffer') + k] = stdout[k]
  <2>1. t = buffer' \o stdout
        BY <1>4 DEF Waiting
  <2> HIDE DEF t
  <2> QED
      BY <1>3, <1>4, <2>1, JoinedPlaces
<1> HIDE DEF m, d, s, t
<1>7. Len(s) = Len(t) + d
      BY ONLY <1>3, <1>4, <1>5, <1>6
<1>8. ASSUME NEW k \in 1 .. Len(t) PROVE t[k] = s[k + d]
  <2>1. /\ k \in 1 .. Len(t) /\ d \in Nat
        /\ Len(buffer') \in Nat /\ Len(stdout) \in Nat
        /\ Len(t) = Len(buffer') + Len(stdout) /\ Len(buffer) = Len(buffer') + d
        BY <1>3, <1>4, <1>5, <1>6, Zenon
  <2>2. CASE k <= Len(buffer')
    <3>1. k \in 1 .. Len(buffer') /\ k + d \in 1 .. Len(buffer)
          BY ONLY <2>1, <2>2
    <3>2. t[k] = buffer'[k] /\ buffer'[k] = buffer[k + d] /\ s[k + d] = buffer[k + d]
          BY <1>4, <1>5, <1>6, <3>1
    <3> QED
        BY <3>2
  <2>3. CASE ~(k <= Len(buffer'))
    <3> DEFINE j == k - Len(buffer')
    <3>1. /\ j \in 1 .. Len(stdout) /\ Len(buffer') + j = k /\ Len(buffer) + j = k + d
          BY ONLY <2>1, <2>3
    <3> HIDE DEF j
    <3>2. t[Len(buffer') + j] = stdout[j] /\ s[Len(buffer) + j] = stdout[j]
          BY <1>5, <1>6, <3>1
    <3> QED
        BY <3>1, <3>2
  <2> QED
      BY <2>2, <2>3
<1>9. Laid(t, sent)
      BY <1>2, <1>3, <1>5, <1>6, <1>7, <1>8, LaidAfter
<1>10. ASSUME NEW k \in Starts(s) PROVE k = 1 \/ k - d \in Starts(t)
  <2>1. k \in 1 .. Len(s) /\ s[k].part = "length"
        BY <1>5, <1>10 DEF Starts
  <2>2. CASE k > d
    <3>1. k - d \in 1 .. Len(t) /\ (k - d) + d = k
          BY ONLY <1>3, <1>5, <1>6, <1>7, <2>1, <2>2
    <3>2. t[k - d] = s[(k - d) + d]
          BY <1>8, <3>1
    <3> QED
        BY <1>6, <2>1, <3>1, <3>2 DEF Starts
  <2>3. CASE ~(k > d) /\ k # 1
    <3>1. k \in 1 .. Len(buffer) /\ (k = 2 \/ k = 3 \/ k - 3 \in 1 .. BodySize) /\ 3 + (k - 3) = k
          BY <1>3, <1>4, <1>5, <1>6, <2>1, <2>3 DEF d
    <3>2. buffer[k].part # "length"
      <4>1. CASE k = 2 \/ k = 3
            BY <1>1, <4>1 DEF LineEnd, Blank
      <4>2. CASE k - 3 \in 1 .. BodySize
        <5>1. buffer[3 + (k - 3)] = Body(m, k - 3)
              BY <1>1, <4>2
        <5> QED
            BY <3>1, <5>1 DEF Body
      <4> QED
          BY <3>1, <4>1, <4>2
    <3> QED
        BY <1>5, <2>1, <3>1, <3>2
  <2> QED
      BY <2>2, <2>3
<1>11. Waiting' # <<>> => 1 \in Starts(Waiting')
  <2> SUFFICES ASSUME t # <<>> PROVE 1 \in Starts(t)
      BY DEF t
  <2>1. Len(t) # 0
        BY <1>6, EmptySeq
  <2>2. /\ 1 \in 1 .. Len(t) /\ 1 + d \in 1 .. Len(s) /\ 1 + 2 + BodySize < Len(s)
        /\ 1 + 3 + BodySize = 1 + d
        BY <1>3, <1>6, <1>7, <2>1 DEF d
  <2>3. 1 \in Starts(s)
    <3>1. 1 \in DOMAIN s
          BY <1>5, <2>2
    <3> QED
        BY <1>1, <3>1 DEF Starts, Length
  <2>4. s[1 + 3 + BodySize] = Length(s[1].of + 1)
        BY <1>2, <2>2, <2>3 DEF Laid
  <2>5. t[1] = s[1 + d]
        BY <1>8, <2>2
  <2> QED
      BY <1>6, <2>2, <2>4, <2>5 DEF Starts, Length
<1>12. ASSUME NEW x \in 1 .. sent PROVE Handled(x)' \/ Awaits(t, x)
  <2>1. /\ Len(processed) \in Nat /\ DOMAIN processed = 1 .. Len(processed)
        /\ DOMAIN processed' = 1 .. (Len(processed) + 1)
        /\ \A i \in 1 .. Len(processed) : processed'[i] = processed[i]
        /\ processed'[Len(processed) + 1] = m
    <3>1. processed' = Append(processed, m)
          BY DEF m
    <3>2. /\ processed' \in Seq(Nat) /\ Len(processed') = Len(processed) + 1
          /\ \A i \in 1 .. Len(processed) : processed'[i] = processed[i]
          /\ processed'[Len(processed) + 1] = m
          BY <1>1, <1>3, <3>1, AppendProperties
    <3> QED
        BY <1>3, <3>2, LenProperties
  <2>2. ASSUME Handled(x) PROVE Handled(x)'
    <3>1. PICK i \in DOMAIN processed : processed[i] = x
          BY <2>2 DEF Handled
    <3>2. i \in DOMAIN processed' /\ processed'[i] = x
          BY <2>1, <3>1
    <3> QED
        BY <3>2 DEF Handled
  <2>3. ASSUME Awaits(s, x) PROVE Handled(x)' \/ Awaits(t, x)
    <3>1. PICK k \in Starts(s) : s[k].of = x
          BY <2>3 DEF Awaits
    <3>2. CASE k = 1
      <4>1. x = m
            BY <1>1, <3>1, <3>2 DEF m
      <4>2. Len(processed) + 1 \in DOMAIN processed' /\ processed'[Len(processed) + 1] = x
            BY <2>1, <4>1
      <4> QED
          BY <4>2 DEF Handled
    <3>3. CASE k - d \in Starts(t)
      <4>1. k - d \in 1 .. Len(t) /\ (k - d) + d = k
        <5>1. k \in 1 .. Len(s)
              BY <1>5 DEF Starts
        <5> QED
            BY <1>3, <1>6, <3>3, <5>1 DEF Starts
      <4>2. t[k - d] = s[(k - d) + d]
            BY <1>8, <4>1
      <4>3. t[k - d].of = x
            BY <3>1, <4>1, <4>2
      <4> QED
          BY <3>3, <4>3 DEF Awaits
    <3> QED
        BY <1>10, <3>1, <3>2, <3>3
  <2> QED
      BY <1>2, <2>2, <2>3
<1>13. buffer' # <<>> => GoodEnd(buffer'[Len(buffer')])
  <2> SUFFICES ASSUME buffer' # <<>> PROVE GoodEnd(buffer'[Len(buffer')])
      OBVIOUS
  <2>1. Len(buffer') # 0
        BY <1>4, EmptySeq
  <2>2. Len(buffer') \in DOMAIN buffer' /\ Len(buffer') + d = Len(buffer)
        BY <1>4, <1>6, <2>1
  <2>3. buffer'[Len(buffer')] = buffer[Len(buffer') + d]
        BY <1>4, <2>2
  <2> QED
      BY <1>2, <2>2, <2>3
<1> QED
    BY <1>9, <1>11, <1>12, <1>13 DEF Complete, t

LEMMA GoodLineCompletes ==
    ASSUME Ordered, Complete, GoodLine
    PROVE  Complete'
<1>1. clean' = clean /\ stdout' = stdout /\ sent' = sent /\ parsing
      BY DEF GoodLine
<1>2. CASE ~clean
      BY <1>1, <1>2 DEF Complete
<1>3. CASE clean
  <2>1. PICK n \in 1 .. HeaderRoom :
            /\ LineIs(buffer, n) /\ buffer[1].part = "length"
            /\ LET rest == AfterBlank(Drop(buffer, n))
               IN  \/ Len(rest) < BodySize
                   \/ /\ Len(rest) >= BodySize
                      /\ buffer' = Drop(rest, BodySize)
                      /\ processed' = IF IsBody(rest, buffer[1].of)
                                      THEN Append(processed, buffer[1].of) ELSE processed
                      /\ UNCHANGED parsing
        BY DEF GoodLine
  <2> DEFINE m == buffer[1].of
             l == Len(buffer)
             u == Drop(buffer, 2)
             rest == Tail(u)
  <2>2. /\ buffer \in Seq(Tokens) /\ l \in Nat /\ DOMAIN buffer = 1 .. l
        /\ n \in 1 .. l /\ n \in Nat /\ EndsLine(buffer[n])
        /\ \A k \in 1 .. (n - 1) : ~EndsLine(buffer[k])
        /\ BodySize \in Nat /\ BodySize > 0
        BY <2>1, FramingAssumption, LenProperties DEF Ordered, LineIs
  <2>3. buffer # <<>>
        BY <2>2, EmptySeq
  <2>4. buffer[1] = Length(m)
        BY <1>3, <2>3, MessageRead
  <2>5. n # 1
        BY <2>2, <2>4 DEF EndsLine, Length
  <2>6. l > 1
        BY <2>2, <2>5
  <2>7. /\ l >= 3 + BodySize /\ m \in Nat
        /\ buffer[2] = LineEnd(m) /\ buffer[3] = Blank(m)
        /\ \A i \in 1 .. BodySize : buffer[3 + i] = Body(m, i)
        BY <1>3, <2>3, <2>6, MessageRead
  <2>8. n = 2
    <3>1. EndsLine(buffer[2])
          BY <2>7 DEF EndsLine, LineEnd
    <3>2. n > 2 => 2 \in 1 .. (n - 1)
          BY <2>2
    <3> QED
        BY <2>2, <2>5, <3>1, <3>2
  <2> HIDE DEF m, l
  <2>9. /\ u \in Seq(Tokens) /\ Len(u) = l - 2 /\ PartOf(u, buffer, 2)
        /\ DOMAIN u = 1 .. (l - 2) /\ u # <<>>
    <3>1. 2 \in 0 .. l
          BY <2>2, <2>6
    <3>2. u \in Seq(Tokens) /\ Len(u) = l - 2 /\ PartOf(u, buffer, 2)
          BY <2>2, <3>1, CutAndJoined, DropIsPart DEF l
    <3> HIDE DEF u
    <3>3. l - 2 # 0 /\ DOMAIN u = 1 .. (l - 2)
          BY <2>2, <2>7, <3>2, LenProperties
    <3> QED
        BY <3>2, <3>3, EmptySeq
  <2>10. u[1] = Blank(m)
    <3>1. 1 \in DOMAIN u
          BY <2>2, <2>7, <2>9
    <3> HIDE DEF u
    <3>2. u[1] = buffer[1 + 2]
          BY <2>9, <3>1 DEF PartOf
    <3> QED
        BY <2>7, <3>2
  <2>11. AfterBlank(Drop(buffer, n)) = rest
         BY <2>8, <2>9, <2>10 DEF AfterBlank, Blank
  <2> HIDE DEF u
  <2>12. /\ rest \in Seq(Tokens) /\ Len(rest) = l - 3 /\ PartOf(rest, buffer, 1 + 2)
    <3>1. /\ rest \in Seq(Tokens) /\ Len(rest) = Len(u) - 1
          /\ \A k \in 1 .. Len(rest) : rest[k] = u[k + 1]
          BY <2>9, HeadTailProperties
    <3> HIDE DEF rest
    <3>2. Len(rest) = l - 3 /\ DOMAIN rest = 1 .. (l - 3)
          BY <2>2, <2>9, <3>1, LenProperties
    <3>3. \A k \in DOMAIN rest : k \in Nat /\ k + 1 \in DOMAIN u /\ rest[k] = u[k + 1]
          BY <2>2, <2>9, <3>1, <3>2
    <3>4. PartOf(rest, u, 1)
          BY <3>1, <3>3 DEF PartOf
    <3> QED
        BY <2>9, <3>1, <3>2, <3>4, PartOfPart
  <2> HIDE DEF rest
  <2>13. Len(rest) >= BodySize /\ BodySize \in 0 .. Len(rest)
         BY <2>2, <2>7, <2>12
  <2>14. IsBody(rest, m)
    <3> DEFINE f == SubSeq(rest, 1, BodySize)
    <3>1. PartOf(f, rest, 0) /\ Len(f) = BodySize
          BY <2>2, <2>12, <2>13, FrontIsPart, CutAndJoined
    <3> HIDE DEF f
    <3>2. f \in Seq(Tokens) /\ DOMAIN f = 1 .. BodySize
          BY <3>1, LenProperties DEF PartOf
    <3>3. ASSUME NEW i \in 1 .. BodySize PROVE f[i] = Body(m, i)
      <4>1. f[i] = rest[i + 0] /\ i + 0 \in DOMAIN rest /\ i \in Nat
            BY <3>1, <3>2, <3>3 DEF PartOf
      <4>2. i + 0 = i /\ i + (1 + 2) = 3 + i
            BY <4>1
      <4>3. rest[i] = buffer[i + (1 + 2)]
            BY <2>12, <4>1, <4>2 DEF PartOf
      <4> QED
          BY <2>7, <4>1, <4>2, <4>3
    <3>4. f = [i \in DOMAIN f |-> f[i]]
          BY <3>2
    <3>5. f = BodyOf(m)
          BY <3>2, <3>3, <3>4 DEF BodyOf
    <3> QED
        BY <2>13, <3>5 DEF IsBody, f
  <2>15. buffer' = Drop(rest, BodySize) /\ processed' = Append(processed, m) /\ parsing' = parsing
    <3>1. \/ Len(rest) < BodySize
          \/ /\ buffer' = Drop(rest, BodySize)
             /\ processed' = IF IsBody(rest, m) THEN Append(processed, m) ELSE processed
             /\ parsing' = parsing
          BY <2>1, <2>11 DEF m
    <3>2. ~(Len(rest) < BodySize)
          BY <2>2, <2>12, <2>13
    <3> QED
        BY <2>14, <3>1, <3>2
  <2>16. PartOf(buffer', buffer, 3 + BodySize) /\ l = Len(buffer') + (3 + BodySize)
    <3>1. PartOf(buffer', rest, BodySize) /\ Len(buffer') = Len(rest) - BodySize
          BY <2>12, <2>13, <2>15, DropIsPart, CutAndJoined
    <3>2. PartOf(buffer', buffer, BodySize + (1 + 2))
          BY <2>12, <3>1, PartOfPart
    <3>3. BodySize + (1 + 2) = 3 + BodySize
          BY <2>2
    <3>4. (l - 3) - BodySize + (3 + BodySize) = l
          BY <2>2
    <3> QED
        BY <2>12, <3>1, <3>2, <3>3, <3>4
  <2>17. parsing'
         BY <1>1, <2>15
  <2> QED
      BY <1>1, <1>3, <2>6, <2>15, <2>16, <2>17, TakenCompletes DEF m, l
<1> QED
    BY <1>2, <1>3

LEMMA BadLineCompletes ==
    ASSUME Ordered, Complete, BadLine
    PROVE  Complete'
<1>1. PICK n \in 1 .. HeaderRoom : LineIs(buffer, n) /\ buffer[1].part # "length"
      BY DEF BadLine
<1>2. buffer # <<>>
      BY <1>1 DEF LineIs
<1>3. ~clean
      BY <1>1, <1>2, MessageRead DEF Length
<1> QED
    BY <1>3 DEF BadLine, Complete

LEMMA NoLineCompletes ==
    ASSUME Ordered, Complete, NoLine
    PROVE  Complete'
<1>1. UNCHANGED <<sent, stdout, buffer, processed, clean>>
      BY DEF NoLine
<1>2. ASSUME clean PROVE Len(buffer) <= 1
  <2>1. Len(buffer) \in Nat /\ DOMAIN buffer = 1 .. Len(buffer)
        BY LenProperties DEF Ordered
  <2> SUFFICES ASSUME Len(buffer) > 1 PROVE FALSE
      BY <2>1
  <2>2. buffer # <<>>
        BY <2>1, EmptySeq
  <2>3. buffer[1] = Length(buffer[1].of) /\ buffer[2] = LineEnd(buffer[1].of)
        BY <1>2, <2>2, MessageRead
  <2>4. 2 \in DOMAIN buffer /\ 2 \in 1 .. HeaderRoom
        BY <2>1, FramingAssumption
  <2>5. EndsLine(buffer[2]) /\ ~EndsLine(buffer[1])
        BY <2>3 DEF EndsLine, Length, LineEnd
  <2>6. LineIs(buffer, 2)
        BY <2>4, <2>5 DEF LineIs
  <2> QED
      BY <2>4, <2>6 DEF NoLine
<1> QED
    BY <1>1, <1>2 DEF Complete, Waiting, Handled

LEMMA CompleteAtFirst == Init => Complete
<1> SUFFICES ASSUME Init PROVE Complete
    OBVIOUS
<1>1. sent = 0 /\ stdout = <<>> /\ buffer = <<>>
      BY DEF Init
<1>2. Waiting = <<>> /\ Starts(<<>>) = {} /\ Len(<<>>) = 0
      BY <1>1 DEF Waiting, Starts
<1> QED
    BY <1>1, <1>2 DEF Complete, Laid

LEMMA CompleteKept == Ordered /\ Complete /\ [Next]_vars => Complete'
<1> SUFFICES ASSUME Ordered, Complete, [Next]_vars PROVE Complete'
    OBVIOUS
<1>1. CASE PrintError \/ UNCHANGED vars
  <2>1. UNCHANGED <<sent, stdout, buffer, parsing, processed, clean>>
        BY <1>1 DEF PrintError, vars
  <2> QED
      BY <2>1 DEF Complete, Waiting, Handled
<1>2. CASE ReadStderr
      BY <1>2 DEF ReadStderr, Complete
<1> QED
    BY <1>1, <1>2, WriteCompletes, ReadCompletes, NoLineCompletes, BadLineCompletes,
       GoodLineCompletes
    DEF Next, ParseStep

\* As long as every read ends between messages or inside a header line, every message read is
\* handled, several in one read and a header in two included (parse_messages_from_buffer).
THEOREM CleanIsAlwaysComplete == Spec => []CleanIsComplete
<1>1. Ordered /\ Complete => CleanIsComplete
  <2> SUFFICES ASSUME Ordered, Complete, clean, ~parsing
               PROVE  /\ \A m \in 1 .. sent :
                            (\E i \in DOMAIN processed : processed[i] = m)
                                \/ (\E k \in DOMAIN stdout : stdout[k] = Body(m, BodySize))
                      /\ buffer # <<>> => \E m \in 1 .. sent : buffer = <<Length(m)>>
      BY DEF CleanIsComplete
  <2>1. /\ Laid(Waiting, sent) /\ Len(buffer) <= 1
        /\ \A m \in 1 .. sent : Handled(m) \/ Awaits(Waiting, m)
        BY DEF Complete
  <2>2. /\ buffer \in Seq(Tokens) /\ stdout \in Seq(Tokens) /\ sent \in Nat
        /\ BodySize \in Nat /\ BodySize > 0
        BY FramingAssumption DEF Ordered
  <2>3. /\ Len(Waiting) = Len(buffer) + Len(stdout)
        /\ Len(buffer) \in Nat /\ Len(stdout) \in Nat /\ DOMAIN stdout = 1 .. Len(stdout)
        /\ DOMAIN buffer = 1 .. Len(buffer) /\ DOMAIN Waiting = 1 .. Len(Waiting)
        /\ \A k \in 1 .. Len(stdout) : Waiting[Len(buffer) + k] = stdout[k]
        BY <2>2, JoinedPlaces DEF Waiting
  <2>4. ASSUME NEW m \in 1 .. sent, ~Handled(m)
        PROVE  \E k \in DOMAIN stdout : stdout[k] = Body(m, BodySize)
    <3>1. PICK k \in Starts(Waiting) : Waiting[k].of = m
          BY <2>1, <2>4 DEF Awaits
    <3>2. /\ k + 2 + BodySize \in 1 .. Len(Waiting)
          /\ \A i \in 1 .. BodySize : Waiting[k + 2 + i] = Body(m, i)
          BY <2>1, <3>1 DEF Laid
    <3>3. Waiting[k + 2 + BodySize] = Body(m, BodySize) /\ k \in 1 .. Len(Waiting)
          BY <2>2, <2>3, <3>2 DEF Starts
    <3> DEFINE j == k + 2 + BodySize - Len(buffer)
    <3>4. j \in 1 .. Len(stdout) /\ Len(buffer) + j = k + 2 + BodySize
      <4>1. k + 2 + BodySize \in 1 .. Len(Waiting) /\ k \in 1 .. Len(Waiting)
            /\ Len(buffer) <= 1 /\ Len(Waiting) = Len(buffer) + Len(stdout)
            /\ Len(buffer) \in Nat /\ Len(stdout) \in Nat /\ BodySize \in Nat /\ BodySize > 0
            BY <2>1, <2>2, <2>3, <3>2, <3>3
      <4> QED
          BY ONLY <4>1
    <3> HIDE DEF j
    <3> QED
        BY <2>3, <3>3, <3>4
  <2>5. ASSUME buffer # <<>> PROVE \E m \in 1 .. sent : buffer = <<Length(m)>>
    <3> DEFINE m == buffer[1].of
    <3>1. 1 \in Starts(buffer) /\ m \in Nat /\ buffer[1] = Length(m)
          BY <2>5, MessageRead
    <3>2. Len(buffer) = 1
          BY <2>1, <2>3, <3>1 DEF Starts
    <3>3. buffer = <<Length(m)>>
          BY <2>2, <3>1, <3>2
    <3>4. m \in 1 .. sent
      <4>1. m <= sent
            BY <3>1 DEF Ordered, Unhandled
      <4>2. 1 \in Starts(Waiting) /\ Waiting[1].of = m
        <5>1. Waiting # <<>>
              BY <2>3, <3>2, EmptySeq
        <5> QED
            BY <2>5, <5>1, MessageRead DEF Complete
      <4>3. m > 0
            BY <2>1, <4>2 DEF Laid
      <4> QED
          BY <2>2, <3>1, <4>1, <4>3
    <3> QED
        BY <3>3, <3>4
  <2> QED
      BY <2>4, <2>5 DEF Handled
<1> QED
    BY <1>1, OrderedAtFirst, OrderedKept, CompleteAtFirst, CompleteKept, PTL DEF Spec

-----------------------------------------------------------------------------
(* The handler of input and output.                                         *)

Registrations == [fd : Fds, read : BOOLEAN]
Reports == [fd : Fds, revents : (SUBSET {"read", "hangup"}) \cup {{"invalid"}}]
InRound == at \in {"dispatch", "callback"}

Typed ==
    /\ at \in {"absent", "idle", "polling", "dispatch", "callback"}
    /\ table \in Seq(Registrations) /\ pfds \in Seq(Reports)
    /\ fd \in [Fds -> States]
    /\ reached \in Nat \ {0} /\ dispatched \in Nat /\ result \in Nat
    /\ churn \subseteq {"added", "own removed", "other removed"}

\* No descriptor is registered twice.
Distinct == \A k, n \in DOMAIN table : table[k].fd = table[n].fd => k = n

\* The changes so far have moved no registration the dispatcher has yet to reach.
Orderly == "other removed" \notin churn /\ ~({"own removed", "added"} \subseteq churn)

\* The rest of the table is the rest of the copy.
RestAgrees(first) ==
    \A k \in DOMAIN table : k >= first /\ k <= Len(pfds) => table[k].fd = pfds[k].fd

Aligned ==
    /\ at = "dispatch" /\ Orderly => RestAgrees(reached)
    /\ at = "callback" /\ Orderly => RestAgrees(reached + 1)
    /\ at = "callback" /\ Orderly /\ reached <= Len(pfds) =>
          /\ called.fd = called.owner
          /\ \A k \in DOMAIN table : table[k].fd = called.owner => k = reached
          /\ "own removed" \notin churn => reached \in DOMAIN table /\ table[reached].fd = called.owner

Reported == {k \in DOMAIN pfds : pfds[k].revents # {}}
Answered(n) == {k \in DOMAIN pfds : k < n /\ pfds[k].revents \cap {"read", "hangup"} # {}}

Counted ==
    InRound => /\ result = Cardinality(Reported)
               /\ dispatched >= Cardinality(Answered(reached))
               /\ "added" \notin churn => Len(table) <= Len(pfds)
               /\ churn \subseteq {"added"} => Len(table) >= Len(pfds)

-----------------------------------------------------------------------------
(* The operations on the table.                                             *)

\* The table and the copy are sequences.
LEMMA Shapes ==
    Typed => /\ table \in Seq(Registrations) /\ Len(table) \in Nat /\ DOMAIN table = 1 .. Len(table)
             /\ pfds \in Seq(Reports) /\ Len(pfds) \in Nat /\ DOMAIN pfds = 1 .. Len(pfds)
             /\ \A k \in DOMAIN table : table[k] \in Registrations
             /\ \A k \in DOMAIN pfds : pfds[k] \in Reports
<1> SUFFICES ASSUME Typed
             PROVE  /\ table \in Seq(Registrations) /\ Len(table) \in Nat /\ DOMAIN table = 1 .. Len(table)
                    /\ pfds \in Seq(Reports) /\ Len(pfds) \in Nat /\ DOMAIN pfds = 1 .. Len(pfds)
                    /\ \A k \in DOMAIN table : table[k] \in Registrations
                    /\ \A k \in DOMAIN pfds : pfds[k] \in Reports
    OBVIOUS
<1>1. table \in Seq(Registrations) /\ pfds \in Seq(Reports)
      BY DEF Typed
<1> QED
    BY <1>1, LenProperties, ElementOfSeq

\* A registration is appended, if there is room and the descriptor has none.
LEMMA RegisterTable ==
    ASSUME Typed, Distinct, NEW f \in Fds, NEW read \in BOOLEAN,
           ~Registered(f), table' = Append(table, [fd |-> f, read |-> read])
    PROVE  /\ table' \in Seq(Registrations) /\ Len(table') = Len(table) + 1
           /\ \A k \in DOMAIN table : k \in DOMAIN table' /\ table'[k] = table[k]
           /\ \A k \in DOMAIN table' : k \notin DOMAIN table => k = Len(table) + 1 /\ table'[k].fd = f
           /\ \A k, n \in DOMAIN table' : table'[k].fd = table'[n].fd => k = n
<1>1. [fd |-> f, read |-> read] \in Registrations
      BY DEF Registrations
<1>2. /\ table' \in Seq(Registrations) /\ Len(table') = Len(table) + 1
      /\ \A k \in 1 .. Len(table) : table'[k] = table[k]
      /\ table'[Len(table) + 1] = [fd |-> f, read |-> read]
      BY <1>1, Shapes, AppendProperties
<1>3. DOMAIN table = 1 .. Len(table) /\ Len(table) \in Nat /\ DOMAIN table' = 1 .. (Len(table) + 1)
      BY <1>2, Shapes, LenProperties
<1>4. \A k \in DOMAIN table : k \in DOMAIN table' /\ table'[k] = table[k]
      BY <1>2, <1>3
<1>5. \A k \in DOMAIN table' : k \notin DOMAIN table => k = Len(table) + 1 /\ table'[k].fd = f
      BY <1>2, <1>3
<1>6. \A k \in DOMAIN table : table[k].fd # f
      BY DEF Registered
<1>7. ASSUME NEW k \in DOMAIN table', NEW n \in DOMAIN table', table'[k].fd = table'[n].fd
      PROVE  k = n
      BY <1>4, <1>5, <1>6, <1>7 DEF Distinct
<1> QED
    BY <1>2, <1>4, <1>5, <1>7

\* A registration is removed and the last one takes its place.
LEMMA UnregisterTable ==
    ASSUME Typed, Distinct, NEW k \in DOMAIN table,
           table' = [n \in 1 .. (Len(table) - 1) |-> IF n = k THEN Last(table) ELSE table[n]]
    PROVE  /\ table' \in Seq(Registrations) /\ Len(table') = Len(table) - 1
           /\ \A n \in DOMAIN table' : n \in DOMAIN table /\ (n # k => table'[n] = table[n])
           /\ \A n \in DOMAIN table' : \E m \in DOMAIN table : m # k /\ table'[n] = table[m]
           /\ \A m, n \in DOMAIN table' : table'[m].fd = table'[n].fd => m = n
<1>1. /\ Len(table) \in Nat /\ DOMAIN table = 1 .. Len(table) /\ k \in 1 .. Len(table)
      /\ Last(table) = table[Len(table)]
      BY Shapes DEF Last
<1>2. \A n \in 1 .. Len(table) : table[n] \in Registrations
      BY <1>1, Shapes
<1>3. table' \in [1 .. (Len(table) - 1) -> Registrations]
      BY <1>1, <1>2
<1>4. Len(table) - 1 \in Nat
      BY <1>1
<1>5. table' \in Seq(Registrations) /\ Len(table') = Len(table) - 1 /\ DOMAIN table' = 1 .. (Len(table) - 1)
      BY <1>3, <1>4
<1> DEFINE from(n) == IF n = k THEN Len(table) ELSE n
<1>6. \A n \in DOMAIN table' : /\ from(n) \in DOMAIN table /\ from(n) # k
                               /\ table'[n] = table[from(n)]
      BY <1>1, <1>5
<1>7. \A m, n \in DOMAIN table' : from(m) = from(n) => m = n
      BY <1>1, <1>5
<1>8. \A n \in DOMAIN table' : n \in DOMAIN table /\ (n # k => table'[n] = table[n])
      BY <1>1, <1>5
<1>9. \A m, n \in DOMAIN table' : table'[m].fd = table'[n].fd => m = n
  <2> HIDE DEF from
  <2> QED
      BY <1>6, <1>7 DEF Distinct
<1> QED
    BY <1>5, <1>6, <1>8, <1>9

\* The events asked for change, the descriptors stay.
LEMMA ModifyTable ==
    ASSUME Typed, NEW f \in Fds, NEW read \in BOOLEAN, Modify(f, read)
    PROVE  /\ table' \in Seq(Registrations) /\ Len(table') = Len(table)
           /\ DOMAIN table' = DOMAIN table
           /\ \A k \in DOMAIN table : table'[k].fd = table[k].fd
<1>1. Len(table) \in Nat /\ DOMAIN table = 1 .. Len(table)
      BY Shapes
<1>2. \A k \in 1 .. Len(table) : /\ table[k] \in Registrations
                                 /\ [table[k] EXCEPT !.read = read] \in Registrations
                                 /\ [table[k] EXCEPT !.read = read].fd = table[k].fd
      BY <1>1, Shapes DEF Registrations
<1>3. /\ table' \in [1 .. Len(table) -> Registrations]
      /\ \A k \in 1 .. Len(table) : table'[k].fd = table[k].fd
      BY <1>1, <1>2 DEF Modify
<1> QED
    BY <1>1, <1>3

-----------------------------------------------------------------------------
LEMMA IoHandlerInit == IoInit => Typed /\ Distinct /\ Aligned /\ Counted
<1> SUFFICES ASSUME IoInit
             PROVE  Typed /\ Distinct /\ Aligned /\ Counted
    OBVIOUS
<1>1. table \in Seq(Registrations) /\ pfds \in Seq(Reports) /\ DOMAIN table = {}
      BY DEF IoInit
<1>2. fd \in [Fds -> States]
      BY DEF IoInit, States
<1>3. reached \in Nat \ {0} /\ dispatched \in Nat /\ result \in Nat
      BY DEF IoInit
<1> QED
    BY <1>1, <1>2, <1>3 DEF IoInit, Typed, Distinct, Aligned, Counted, InRound

\* What poll reports is of its type.
LEMMA ReportsTyped ==
    ASSUME Typed, pfds' = Polled
    PROVE  /\ pfds' \in Seq(Reports) /\ Len(pfds') = Len(table) /\ DOMAIN pfds' = DOMAIN table
           /\ \A k \in DOMAIN table : /\ pfds'[k].fd = table[k].fd
                                      /\ pfds'[k].revents = Revents(table[k])
<1>1. Len(table) \in Nat /\ DOMAIN table = 1 .. Len(table)
      BY Shapes
<1>2. ASSUME NEW r \in Registrations
      PROVE  Revents(r) \in (SUBSET {"read", "hangup"}) \cup {{"invalid"}}
  <2>1. Revents(r) \in {{"invalid"}, {"hangup"} \cup {"read"}, {"hangup"} \cup {}, {"read"}, {}}
        BY DEF Revents
  <2>2. /\ {"hangup"} \cup {"read"} \subseteq {"read", "hangup"} /\ {"read"} \subseteq {"read", "hangup"}
        /\ {"hangup"} \cup {} \subseteq {"read", "hangup"} /\ {} \subseteq {"read", "hangup"}
        OBVIOUS
  <2> QED
      BY <2>1, <2>2
<1>3. \A k \in 1 .. Len(table) :
          [fd |-> table[k].fd, revents |-> Revents(table[k])] \in Reports
      BY <1>1, <1>2, Shapes DEF Reports, Registrations
<1>4. pfds' \in [1 .. Len(table) -> Reports]
      BY <1>1, <1>3 DEF Polled
<1> QED
    BY <1>1, <1>4 DEF Polled

\* Where a round starts and goes.
LEMMA CountersTyped == 0 \in Nat /\ 1 \in Nat \ {0} /\ \A n \in Nat : n + 1 \in Nat \ {0}
OBVIOUS

\* Every step keeps the variables to their types.
LEMMA TypedStep == Typed /\ Distinct /\ [IoNext]_ioVars => Typed'
<1> SUFFICES ASSUME Typed, Distinct, [IoNext]_ioVars
             PROVE  Typed'
    OBVIOUS
<1>1. CASE Create \/ Destroy
  <2>1. table' \in Seq(Registrations)
        BY <1>1, EmptySeq DEF Create, Destroy
  <2> QED
      BY <1>1, <2>1 DEF Typed, Create, Destroy, RoundVars
<1>2. ASSUME NEW f \in Fds, Register(f, TRUE)
      PROVE  Typed'
  <2>1. CASE UNCHANGED <<table, churn>>
        BY <1>2, <2>1 DEF Typed, Register, RoundVars
  <2>2. CASE /\ ~Registered(f) /\ table' = Append(table, [fd |-> f, read |-> TRUE])
             /\ Noted("added")
    <3>1. table' \in Seq(Registrations) /\ churn' \subseteq {"added", "own removed", "other removed"}
          BY <2>2, RegisterTable DEF Typed, Noted
    <3> QED
        BY <1>2, <3>1 DEF Typed, Register, RoundVars
  <2> QED
      BY <1>2, <2>1, <2>2 DEF Register
<1>3. ASSUME NEW f \in Fds, Unregister(f)
      PROVE  Typed'
  <2>1. table' \in Seq(Registrations)
        BY <1>3, UnregisterTable DEF Unregister
  <2>2. churn' \subseteq {"added", "own removed", "other removed"}
        BY <1>3 DEF Typed, Unregister, Noted
  <2> QED
      BY <1>3, <2>1, <2>2 DEF Typed, Unregister, RoundVars
<1>4. ASSUME NEW f \in Fds, NEW read \in BOOLEAN, Modify(f, read)
      PROVE  Typed'
      BY <1>4, ModifyTable DEF Typed, Modify, RoundVars
<1>5. ASSUME NEW f \in Fds, NEW s \in States, Becomes(f, s)
      PROVE  Typed'
      BY <1>5 DEF Typed, Becomes, RoundVars
<1>6. CASE PollReports
  <2>1. pfds' \in Seq(Reports)
        BY <1>6, ReportsTyped DEF PollReports
  <2>2. result' \in Nat
    <3>1. DOMAIN table = 1 .. Len(table) /\ 1 \in Int /\ Len(table) \in Int
          BY Shapes
    <3>2. IsFiniteSet(DOMAIN table) /\ Ready \subseteq DOMAIN table
          BY <3>1, FS_Interval DEF Ready
    <3>3. IsFiniteSet(Ready)
          BY <3>2, FS_Subset
    <3> QED
        BY <1>6, <3>3, FS_CardinalityType DEF PollReports
  <2> QED
      BY <1>6, <2>1, <2>2, CountersTyped DEF PollReports, Typed
<1>7. CASE Process \/ PollTimesOut \/ PollInterrupted
      BY <1>7 DEF Process, PollTimesOut, PollInterrupted, Typed, RoundVars
<1>8. CASE DispatchNext
      BY <1>8, CountersTyped DEF DispatchNext, Typed
<1>9. CASE CallbackReturns
      BY <1>9, CountersTyped DEF CallbackReturns, Typed
<1>10. CASE RoundEnds
       BY <1>10, EmptySeq, CountersTyped DEF RoundEnds, Typed
<1>11. CASE UNCHANGED ioVars
       BY <1>11 DEF ioVars, Typed
<1>12. {"readable", "hungup", "quiet", "closed"} \subseteq States
       BY DEF States
<1> QED
    BY <1>1, <1>2, <1>3, <1>4, <1>5, <1>6, <1>7, <1>8, <1>9, <1>10, <1>11, <1>12
    DEF IoNext, TableCall, ProcessStep, World, Arrives, HangsUp, Drain, Close

\* No step registers a descriptor twice.
LEMMA DistinctStep == Typed /\ Distinct /\ [IoNext]_ioVars => Distinct'
<1> SUFFICES ASSUME Typed, Distinct, [IoNext]_ioVars
             PROVE  Distinct'
    OBVIOUS
<1>1. CASE UNCHANGED table
      BY <1>1 DEF Distinct
<1>2. CASE Create \/ Destroy
      BY <1>2 DEF Create, Destroy, Distinct
<1>3. ASSUME NEW f \in Fds, Register(f, TRUE)
      PROVE  Distinct'
      BY <1>1, <1>3, RegisterTable DEF Register, Distinct
<1>4. ASSUME NEW f \in Fds, Unregister(f)
      PROVE  Distinct'
      BY <1>4, UnregisterTable DEF Unregister, Distinct
<1>5. ASSUME NEW f \in Fds, NEW read \in BOOLEAN, Modify(f, read)
      PROVE  Distinct'
      BY <1>5, ModifyTable DEF Distinct
<1>6. ASSUME NEW f \in Fds, NEW s, Becomes(f, s)
      PROVE  Distinct'
      BY <1>1, <1>6 DEF Becomes
<1>7. CASE ProcessStep
      BY <1>1, <1>7 DEF ProcessStep, Process, PollReports, PollTimesOut, PollInterrupted,
                        DispatchNext, CallbackReturns, RoundEnds
<1>8. CASE UNCHANGED ioVars
      BY <1>1, <1>8 DEF ioVars
<1> QED
    BY <1>2, <1>3, <1>4, <1>5, <1>6, <1>7, <1>8
    DEF IoNext, TableCall, World, Arrives, HangsUp, Drain, Close

\* No step misleads the dispatcher unnoticed.
LEMMA AlignedStep == Typed /\ Distinct /\ Aligned /\ Counted /\ [IoNext]_ioVars => Aligned'
<1> SUFFICES ASSUME Typed, Distinct, Aligned, Counted, [IoNext]_ioVars
             PROVE  Aligned'
    OBVIOUS
<1>0. /\ Len(table) \in Nat /\ DOMAIN table = 1 .. Len(table)
      /\ Len(pfds) \in Nat /\ DOMAIN pfds = 1 .. Len(pfds) /\ reached \in Nat \ {0}
      BY Shapes DEF Typed
<1>1. CASE at' \notin {"dispatch", "callback"}
      BY <1>1 DEF Aligned
<1>2. CASE UNCHANGED <<at, table, pfds, reached, called, churn>>
      BY <1>2 DEF Aligned, Orderly, RestAgrees
<1>3. ASSUME NEW f \in Fds, ~Registered(f), UNCHANGED <<at, RoundVars, called>>, at = "callback",
             table' = Append(table, [fd |-> f, read |-> TRUE]), churn' = churn \cup {"added"}
      PROVE  Aligned'
  <2> SUFFICES ASSUME Orderly'
               PROVE  Aligned'
      BY <1>3 DEF Aligned
  <2>1. Orderly /\ "own removed" \notin churn /\ churn \subseteq {"added"}
        BY <1>3 DEF Orderly, Typed
  <2>2. Len(table) >= Len(pfds)
        BY <1>3, <2>1 DEF Counted, InRound
  <2>3. /\ \A k \in DOMAIN table : k \in DOMAIN table' /\ table'[k] = table[k]
        /\ \A k \in DOMAIN table' : k \notin DOMAIN table => k = Len(table) + 1
        /\ \A k, n \in DOMAIN table' : table'[k].fd = table'[n].fd => k = n
        BY <1>3, RegisterTable
  <2>4. ASSUME NEW k \in DOMAIN table', k >= reached + 1, k <= Len(pfds)
        PROVE  table'[k].fd = pfds[k].fd
    <3>1. k \in DOMAIN table
          BY <1>0, <2>2, <2>3, <2>4
    <3> QED
        BY <1>3, <2>1, <2>3, <2>4, <3>1 DEF Aligned, RestAgrees
  <2>5. ASSUME reached <= Len(pfds)
        PROVE  /\ called.fd = called.owner
               /\ reached \in DOMAIN table' /\ table'[reached].fd = called.owner
               /\ \A k \in DOMAIN table' : table'[k].fd = called.owner => k = reached
        BY <1>3, <2>1, <2>3, <2>5 DEF Aligned
  <2> QED
      BY <1>3, <2>4, <2>5 DEF Aligned, RestAgrees, RoundVars
<1>4. ASSUME NEW f \in Fds, Unregister(f), at = "callback"
      PROVE  Aligned'
  <2> SUFFICES ASSUME Orderly'
               PROVE  Aligned'
      BY <1>4 DEF Aligned
  <2>1. f = called.owner /\ churn' = churn \cup {"own removed"} /\ Orderly
        BY <1>4 DEF Unregister, Noted, Orderly
  <2>2. PICK k \in DOMAIN table :
           /\ table[k].fd = f
           /\ table' = [n \in 1 .. (Len(table) - 1) |-> IF n = k THEN Last(table) ELSE table[n]]
        BY <1>4 DEF Unregister
  <2>3. /\ \A n \in DOMAIN table' : n \in DOMAIN table /\ (n # k => table'[n] = table[n])
        /\ \A n \in DOMAIN table' : \E m \in DOMAIN table : m # k /\ table'[n] = table[m]
        BY <2>2, UnregisterTable
  <2>4. UNCHANGED <<at, pfds, reached, called>>
        BY <1>4 DEF Unregister, RoundVars
  <2>5. reached <= Len(pfds) => k = reached
        BY <1>4, <2>1, <2>2 DEF Aligned
  <2>6. ASSUME NEW n \in DOMAIN table', n >= reached + 1, n <= Len(pfds)
        PROVE  table'[n].fd = pfds[n].fd
    <3>1. n \in DOMAIN table /\ n # k
          BY <1>0, <2>3, <2>5, <2>6
    <3> QED
        BY <1>4, <2>1, <2>3, <2>6, <3>1 DEF Aligned, RestAgrees
  <2>7. \A n \in DOMAIN table' : table'[n].fd # called.owner
    <3> SUFFICES ASSUME NEW n \in DOMAIN table', table'[n].fd = called.owner
                 PROVE  FALSE
        OBVIOUS
    <3>1. PICK m \in DOMAIN table : m # k /\ table'[n] = table[m]
          BY <2>3
    <3>2. table[m].fd = table[k].fd
          BY <2>1, <2>2, <3>1
    <3> QED
        BY <3>1, <3>2 DEF Distinct
  <2>8. reached <= Len(pfds) => called.fd = called.owner
        BY <1>4, <2>1 DEF Aligned
  <2> QED
      BY <1>4, <2>1, <2>4, <2>6, <2>7, <2>8 DEF Aligned, RestAgrees
<1>5. ASSUME NEW f \in Fds, NEW read \in BOOLEAN, Modify(f, read)
      PROVE  Aligned'
  <2>1. UNCHANGED <<at, pfds, reached, called, churn>>
        BY <1>5 DEF Modify, RoundVars
  <2>2. DOMAIN table' = DOMAIN table /\ \A k \in DOMAIN table : table'[k].fd = table[k].fd
        BY <1>5, ModifyTable
  <2> QED
      BY <2>1, <2>2 DEF Aligned, Orderly, RestAgrees
<1>6. CASE PollReports
  <2>1. DOMAIN pfds' = DOMAIN table /\ \A k \in DOMAIN table : pfds'[k].fd = table[k].fd
        BY <1>6, ReportsTyped DEF PollReports
  <2> QED
      BY <1>6, <2>1 DEF PollReports, Aligned, RestAgrees
<1>7. CASE DispatchNext
  <2>1. at = "dispatch" /\ reached \in DOMAIN table /\ UNCHANGED <<table, pfds, churn>>
        BY <1>0, <1>7 DEF DispatchNext, More
  <2>2. PICK entry \in Entries :
           \/ /\ at' = "callback" /\ UNCHANGED reached
              /\ called' = [fd |-> entry.fd, owner |-> table[reached].fd, events |-> entry.revents]
           \/ reached' = reached + 1 /\ UNCHANGED <<at, called>>
        BY <1>7 DEF DispatchNext
  <2>3. CASE reached' = reached + 1 /\ UNCHANGED <<at, called>>
    <3>1. Orderly => RestAgrees(reached)
          BY <2>1 DEF Aligned
    <3>2. RestAgrees(reached) => RestAgrees(reached)'
          BY <1>0, <2>1, <2>3 DEF RestAgrees
    <3> QED
        BY <2>1, <2>3, <3>1, <3>2 DEF Aligned, Orderly
  <2>4. CASE /\ at' = "callback" /\ UNCHANGED reached
             /\ called' = [fd |-> entry.fd, owner |-> table[reached].fd, events |-> entry.revents]
    <3>1. called'.fd = entry.fd /\ called'.owner = table[reached].fd
          BY <2>4
    <3>2. Orderly => RestAgrees(reached)
          BY <2>1 DEF Aligned
    <3>3. reached <= Len(pfds) => entry = pfds[reached]
          BY <2>2 DEF Entries
    <3>4. Orderly /\ reached <= Len(pfds) => entry.fd = table[reached].fd
          BY <1>0, <2>1, <3>2, <3>3 DEF RestAgrees
    <3>5. \A k \in DOMAIN table : table[k].fd = table[reached].fd => k = reached
          BY <2>1 DEF Distinct
    <3> QED
      <4>1. RestAgrees(reached) => RestAgrees(reached + 1)'
            BY <1>0, <2>1, <2>4 DEF RestAgrees
      <4>2. Orderly' <=> Orderly
            BY <2>1 DEF Orderly
      <4> QED
          BY <1>0, <2>1, <2>4, <3>1, <3>2, <3>4, <3>5, <4>1, <4>2 DEF Aligned
  <2> QED
      BY <2>2, <2>3, <2>4
<1>8. CASE CallbackReturns
      BY <1>0, <1>8 DEF CallbackReturns, Aligned, Orderly, RestAgrees
<1>9. ASSUME NEW f \in Fds, Register(f, TRUE), at \in {"idle", "callback"}
      PROVE  Aligned'
  <2>1. UNCHANGED <<at, RoundVars, called>>
        BY <1>9 DEF Register
  <2>2. CASE at = "idle"
        BY <1>1, <2>1, <2>2
  <2>3. CASE UNCHANGED <<table, churn>>
        BY <1>2, <2>1, <2>3 DEF RoundVars
  <2>4. CASE /\ at = "callback" /\ ~Registered(f) /\ Noted("added")
             /\ table' = Append(table, [fd |-> f, read |-> TRUE])
        BY <1>3, <2>1, <2>4 DEF Noted
  <2> QED
      BY <1>9, <2>2, <2>3, <2>4 DEF Register
<1>10. ASSUME NEW f \in Fds, Unregister(f), at = "idle"
       PROVE  Aligned'
       BY <1>1, <1>10 DEF Unregister
<1>11. ASSUME NEW f \in Fds, NEW s, Becomes(f, s)
       PROVE  Aligned'
       BY <1>2, <1>11 DEF Becomes, RoundVars
<1>12. CASE \/ Create \/ Destroy \/ Process \/ PollTimesOut \/ PollInterrupted \/ RoundEnds
       BY <1>1, <1>12 DEF Create, Destroy, Process, PollTimesOut, PollInterrupted, RoundEnds
<1>13. CASE UNCHANGED ioVars
       BY <1>2, <1>13 DEF ioVars, RoundVars
<1> QED
    BY <1>4, <1>5, <1>6, <1>7, <1>8, <1>9, <1>10, <1>11, <1>12, <1>13
    DEF IoNext, TableCall, ProcessStep, World, Arrives, HangsUp, Drain, Close

\* Only the copy and the place in it count.
LEMMA AnsweredFinite == Typed => \A n : IsFiniteSet(Answered(n))
<1> SUFFICES ASSUME Typed, NEW n
             PROVE  IsFiniteSet(Answered(n))
    OBVIOUS
<1>1. IsFiniteSet(DOMAIN pfds)
      BY Shapes, FS_Interval
<1>2. Answered(n) \subseteq DOMAIN pfds
      BY DEF Answered
<1> QED
    BY <1>1, <1>2, FS_Subset

\* Every step keeps count of the entries answered.
LEMMA CountedStep == Typed /\ Distinct /\ Counted /\ [IoNext]_ioVars => Counted'
<1> SUFFICES ASSUME Typed, Distinct, Counted, [IoNext]_ioVars
             PROVE  Counted'
    OBVIOUS
<1>0. /\ Len(table) \in Nat /\ DOMAIN table = 1 .. Len(table)
      /\ Len(pfds) \in Nat /\ DOMAIN pfds = 1 .. Len(pfds)
      /\ reached \in Nat \ {0} /\ dispatched \in Nat /\ result \in Nat
      BY Shapes DEF Typed
<1>1. CASE at' \notin {"dispatch", "callback"}
      BY <1>1 DEF Counted, InRound
<1>2. CASE UNCHANGED <<at, RoundVars, churn>> /\ Len(table') = Len(table)
      BY <1>2 DEF Counted, InRound, Reported, Answered, RoundVars
<1>3. CASE PollReports
  <2>1. /\ Len(pfds') = Len(table) /\ DOMAIN pfds' = DOMAIN table
        /\ \A k \in DOMAIN table : pfds'[k].revents = Revents(table[k])
        BY <1>3, ReportsTyped DEF PollReports
  <2>2. Reported' = Ready
        BY <2>1 DEF Reported, Ready
  <2>3. Answered(reached)' = {}
        BY <1>0, <1>3, <2>1 DEF Answered, PollReports
  <2>4. Cardinality(Answered(reached)') = 0
        BY <2>3, FS_EmptySet
  <2>5. result' = Cardinality(Ready) /\ dispatched' = 0 /\ churn' = {} /\ table' = table
        BY <1>3 DEF PollReports
  <2>6. Len(table') <= Len(pfds') /\ Len(table') >= Len(pfds')
        BY <1>0, <2>1, <2>5
  <2> QED
      BY <2>2, <2>4, <2>5, <2>6 DEF Counted
<1>4. CASE DispatchNext
  <2>1. UNCHANGED <<table, pfds, result, dispatched, churn>> /\ at = "dispatch"
        BY <1>4 DEF DispatchNext
  <2>2. CASE reached' = reached
        BY <1>4, <2>1, <2>2 DEF Counted, InRound, Reported, Answered
  <2>3. CASE reached' # reached
    <3>1. reached' = reached + 1 /\ (reached \in DOMAIN pfds => pfds[reached].revents \cap {"read", "hangup"} = {})
          BY <1>0, <1>4, <2>3 DEF DispatchNext, Entries
    <3>2. Answered(reached)' = Answered(reached)
          BY <1>0, <2>1, <3>1 DEF Answered
    <3> QED
        BY <2>1, <3>2 DEF Counted, InRound, Reported
  <2> QED
      BY <2>2, <2>3
<1>5. CASE CallbackReturns
  <2>1. /\ UNCHANGED <<table, pfds, result, churn>> /\ at = "callback"
        /\ reached' = reached + 1 /\ dispatched' = dispatched + 1
        BY <1>5 DEF CallbackReturns
  <2>2. Answered(reached)' \subseteq Answered(reached) \cup {reached}
        BY <1>0, <2>1 DEF Answered
  <2>3. /\ IsFiniteSet(Answered(reached)) /\ IsFiniteSet(Answered(reached) \cup {reached})
        /\ Cardinality(Answered(reached)) \in Nat
        /\ Cardinality(Answered(reached) \cup {reached}) <= Cardinality(Answered(reached)) + 1
    <3>1. IsFiniteSet(Answered(reached))
          BY AnsweredFinite
    <3> QED
        BY <3>1, FS_AddElement, FS_CardinalityType
  <2>4. Cardinality(Answered(reached)') <= Cardinality(Answered(reached) \cup {reached})
        BY <2>2, <2>3, FS_Subset
  <2>5. Cardinality(Answered(reached)') \in Nat /\ Cardinality(Answered(reached) \cup {reached}) \in Nat
        BY <2>2, <2>3, FS_Subset, FS_CardinalityType
  <2>6. dispatched >= Cardinality(Answered(reached))
        BY <2>1 DEF Counted, InRound
  <2>7. dispatched' >= Cardinality(Answered(reached)')
        BY <1>0, <2>1, <2>3, <2>4, <2>5, <2>6
  <2> QED
      BY <2>1, <2>7 DEF Counted, InRound, Reported
<1>6. ASSUME NEW f \in Fds, Register(f, TRUE), at \in {"idle", "callback"}
      PROVE  Counted'
  <2>1. UNCHANGED <<at, RoundVars, called>>
        BY <1>6 DEF Register
  <2>2. CASE at = "idle"
        BY <1>1, <2>1, <2>2
  <2>3. CASE UNCHANGED <<table, churn>>
        BY <1>2, <2>1, <2>3
  <2>4. CASE /\ at = "callback" /\ ~Registered(f) /\ Noted("added")
             /\ table' = Append(table, [fd |-> f, read |-> TRUE])
    <3>1. Len(table') = Len(table) + 1 /\ churn' = churn \cup {"added"}
          BY <2>4, RegisterTable DEF Noted
    <3>2. churn' \subseteq {"added"} => Len(table') >= Len(pfds)
          BY <1>0, <2>4, <3>1 DEF Counted, InRound
    <3> QED
        BY <2>1, <3>1, <3>2 DEF Counted, InRound, Reported, Answered, RoundVars
  <2> QED
      BY <1>6, <2>2, <2>3, <2>4 DEF Register
<1>7. ASSUME NEW f \in Fds, Unregister(f), at \in {"idle", "callback"}
      PROVE  Counted'
  <2>1. UNCHANGED <<at, RoundVars, called>>
        BY <1>7 DEF Unregister
  <2>2. CASE at = "idle"
        BY <1>1, <2>1, <2>2
  <2>3. CASE at = "callback"
    <3>1. Len(table') = Len(table) - 1
          BY <1>7, UnregisterTable DEF Unregister
    <3>2. ~(churn' \subseteq {"added"}) /\ churn \subseteq churn'
          BY <1>7, <2>3 DEF Unregister, Noted
    <3>3. "added" \notin churn' => Len(table') <= Len(pfds)
          BY <1>0, <2>3, <3>1, <3>2 DEF Counted, InRound
    <3> QED
        BY <2>1, <3>2, <3>3 DEF Counted, InRound, Reported, Answered, RoundVars
  <2> QED
      BY <1>7, <2>2, <2>3
<1>8. ASSUME NEW f \in Fds, NEW read \in BOOLEAN, Modify(f, read)
      PROVE  Counted'
      BY <1>2, <1>8, ModifyTable DEF Modify
<1>9. ASSUME NEW f \in Fds, NEW s, Becomes(f, s)
      PROVE  Counted'
      BY <1>2, <1>9 DEF Becomes
<1>10. CASE \/ Create \/ Destroy \/ Process \/ PollTimesOut \/ PollInterrupted \/ RoundEnds
       BY <1>1, <1>10 DEF Create, Destroy, Process, PollTimesOut, PollInterrupted, RoundEnds
<1>11. CASE UNCHANGED ioVars
       BY <1>2, <1>11 DEF ioVars, RoundVars
<1> QED
    BY <1>3, <1>4, <1>5, <1>6, <1>7, <1>8, <1>9, <1>10, <1>11
    DEF IoNext, TableCall, ProcessStep, World, Arrives, HangsUp, Drain, Close

\* Whatever the callbacks of a round do to the table it walks, a callback gets another's
\* descriptor only after a removal of another's registration or a removal and an addition,
\* and the dispatcher leaves its copy only after an addition with a closed descriptor
\* among those polled (md_io_handler_process, md_io_handler_unregister).
THEOREM DispatchRight == IoSpec => []DispatchIsRight
<1> DEFINE Inv == Typed /\ Distinct /\ Aligned /\ Counted
<1>1. Inv => DispatchIsRight
  <2> SUFFICES ASSUME Inv
               PROVE  DispatchIsRight
      OBVIOUS
  <2>0. /\ Len(table) \in Nat /\ Len(pfds) \in Nat /\ DOMAIN pfds = 1 .. Len(pfds)
        /\ reached \in Nat \ {0} /\ dispatched \in Nat /\ result \in Nat
        BY Shapes DEF Typed
  <2>1. OwnCallback
    <3>1. reached > Len(pfds) \/ reached <= Len(pfds)
          BY <2>0
    <3>2. at = "callback" /\ Orderly /\ reached <= Len(pfds) => called.fd = called.owner
          BY DEF Aligned
    <3> QED
        BY <3>1, <3>2, Zenon DEF OwnCallback, Orderly
  <2>2. WithinCopy
    <3> SUFFICES ASSUME at = "dispatch", More, reached > Len(pfds)
                 PROVE  "added" \in churn /\ \E k \in DOMAIN pfds : pfds[k].revents = {"invalid"}
        BY DEF WithinCopy
    <3>1. "added" \in churn
          BY <2>0 DEF Counted, InRound, More
    <3>2. ASSUME \A k \in DOMAIN pfds : pfds[k].revents # {"invalid"}
          PROVE  FALSE
      <4>1. Answered(reached) = Reported
        <5>1. \A k \in DOMAIN pfds : k < reached
              BY <2>0
        <5>2. \A k \in DOMAIN pfds : pfds[k].revents # {} <=> pfds[k].revents \cap {"read", "hangup"} # {}
              BY <3>2, Shapes DEF Reports
        <5> QED
            BY <5>1, <5>2 DEF Answered, Reported
      <4> QED
          BY <2>0, <4>1 DEF Counted, InRound, More
    <3> QED
        BY <3>1, <3>2
  <2> QED
      BY <2>1, <2>2 DEF DispatchIsRight
<1>2. IoInit => Inv
      BY IoHandlerInit
<1>3. Inv /\ [IoNext]_ioVars => Inv'
      BY TypedStep, DistinctStep, AlignedStep, CountedStep
<1> QED
    BY <1>1, <1>2, <1>3, PTL DEF IoSpec
===============================================================================
