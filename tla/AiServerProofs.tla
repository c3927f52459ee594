--------------------------- MODULE AiServerProofs ---------------------------
(***************************************************************************)
(* A peer gets its answers in the order of its requests: proved for every    *)
(* set of connections, every script, every room of the queues, and whether   *)
(* or not a second close of a channel panics and a writer may read.          *)
(*                                                                           *)
(* AnswersInOrder speaks of what has arrived.  InOrder adds what is queued   *)
(* and what is about to be: numbers rise through both, those that arrived    *)
(* are below those queued, and all are below the request in hand.            *)
(***************************************************************************)
EXTENDS AiServer, SequenceTheorems, WellFoundedInduction, TLAPS

-----------------------------------------------------------------------------
\* What a queue holds, and what of it leaves a trace at the peer.
Reply == [answer : Nat]
Item == Reply \cup [event : {TRUE}]

Rising(items) ==
    \A i, j \in DOMAIN items :
        i < j /\ IsAnswer(items[i]) /\ IsAnswer(items[j]) => items[i].answer < items[j].answer

LEMMA RepliesAreAnswers ==
    /\ \A item \in Reply : IsAnswer(item) /\ item.answer \in Nat
    /\ \A item \in Item : IsAnswer(item) => item \in Reply
    /\ Event \in Item /\ ~IsAnswer(Event)
    /\ \A n \in Nat : [answer |-> n] \in Reply /\ [answer |-> n].answer = n
BY DEF Reply, Item, IsAnswer, Event

-----------------------------------------------------------------------------
(* Answers: the recursive function it is defined by exists, and what it      *)
(* gives is part of the queue, in the same order.  Both are shown by a least *)
(* counterexample.                                                           *)

After(before, item) == IF IsAnswer(item) THEN Append(before, item) ELSE before

\* f gives the answers among the first n items, for each n up to m.
IsAmong(f, items, m) == f = [n \in 0 .. m |-> IF n = 0 THEN <<>> ELSE After(f[n - 1], items[n])]

LEMMA Least ==
    ASSUME NEW T \in SUBSET Nat, T # {}
    PROVE  \E m \in T : \A k \in T : ~ k < m
<1>1. PICK m \in T : \A k \in T : ~(<<k, m>> \in OpToRel(<, Nat))
      BY NatLessThanWellFounded, WFMin, Zenon
<1>2. \A k \in T : ~ k < m
      BY <1>1, Zenon DEF OpToRel
<1> QED
    BY <1>2

LEMMA AmongExists ==
    ASSUME NEW items \in Seq(Item)
    PROVE  \E f : IsAmong(f, items, Len(items))
<1> DEFINE T == {m \in 0 .. Len(items) : ~ \E f : IsAmong(f, items, m)}
<1>1. Len(items) \in Nat
      OBVIOUS
<1>2. SUFFICES T = {}
      BY <1>1
<1>3. SUFFICES ASSUME T # {} PROVE FALSE
      OBVIOUS
<1>4. PICK m \in T : \A k \in T : ~ k < m
  <2>1. T \in SUBSET Nat
        BY <1>1
  <2> QED
      BY <2>1, <1>3, Least
<1>5. m \in 0 .. Len(items) /\ ~ \E f : IsAmong(f, items, m)
      OBVIOUS
<1>6. m # 0
  <2>1. IsAmong([n \in 0 .. 0 |-> <<>>], items, 0)
        BY DEF IsAmong
  <2> QED
      BY <2>1, <1>5
<1>7. m - 1 \in 0 .. Len(items) /\ m - 1 < m
      BY <1>1, <1>5, <1>6
<1>8. PICK f : IsAmong(f, items, m - 1)
      BY <1>4, <1>7
<1> DEFINE g == [n \in 0 .. m |-> IF n = m THEN After(f[m - 1], items[m]) ELSE f[n]]
<1>9. \A n \in 0 .. m : g[n] = IF n = 0 THEN <<>> ELSE After(g[n - 1], items[n])
  <2> TAKE n \in 0 .. m
  <2>1. CASE n = m
    <3>1. g[n] = After(f[m - 1], items[m]) /\ g[m - 1] = f[m - 1]
          BY <2>1, <1>5, <1>7
    <3> QED
        BY <3>1, <2>1, <1>6
  <2>2. CASE n # m
    <3>1. n \in 0 .. m - 1 /\ g[n] = f[n]
          BY <2>2, <1>5
    <3>2. f[n] = IF n = 0 THEN <<>> ELSE After(f[n - 1], items[n])
          BY <3>1, <1>8 DEF IsAmong
    <3>3. n # 0 => g[n - 1] = f[n - 1]
          BY <3>1, <1>5
    <3> QED
        BY <3>1, <3>2, <3>3
  <2> QED
      BY <2>1, <2>2
<1>10. IsAmong(g, items, m)
      BY <1>9 DEF IsAmong
<1> QED
    BY <1>10, <1>5

\* What of the items has been kept: some of them, in their order.
Kept(s, items, m) ==
    /\ s \in Seq(Reply)
    /\ \A i \in DOMAIN s : \E k \in 1 .. m : s[i] = items[k]
    /\ Rising(s)

LEMMA KeptAppend ==
    ASSUME NEW items \in Seq(Item), Rising(items), NEW m \in 1 .. Len(items),
           NEW s, Kept(s, items, m - 1)
    PROVE  Kept(After(s, items[m]), items, m)
<1>1. Len(items) \in Nat /\ items[m] \in Item /\ m \in Nat
      OBVIOUS
<1>2. CASE ~IsAnswer(items[m])
      BY <1>1, <1>2 DEF After, Kept
<1>3. CASE IsAnswer(items[m])
  <2> DEFINE t == Append(s, items[m])
  <2>1. s \in Seq(Reply) /\ items[m] \in Reply /\ Len(s) \in Nat
        BY <1>1, <1>3, RepliesAreAnswers DEF Kept
  <2>2. /\ t \in Seq(Reply) /\ DOMAIN t = 1 .. Len(s) + 1 /\ DOMAIN s = 1 .. Len(s)
        /\ \A i \in 1 .. Len(s) : t[i] = s[i]
        /\ t[Len(s) + 1] = items[m]
        BY <2>1
  <2> HIDE DEF t
  <2>3. \A i \in DOMAIN s : \E k \in 1 .. m - 1 : s[i] = items[k]
        BY DEF Kept
  <2>4. ASSUME NEW i \in DOMAIN t PROVE \E k \in 1 .. m : t[i] = items[k]
    <3>1. CASE i \in 1 .. Len(s)
          BY <3>1, <2>2, <2>3, <1>1
    <3>2. CASE i = Len(s) + 1
          BY <3>2, <2>2, <1>1
    <3> QED
        BY <3>1, <3>2, <2>1, <2>2
  <2>5. ASSUME NEW i \in DOMAIN t, NEW j \in DOMAIN t, i < j, IsAnswer(t[i]), IsAnswer(t[j])
        PROVE  t[i].answer < t[j].answer
    <3>1. i \in 1 .. Len(s) /\ t[i] = s[i]
          BY <2>1, <2>2, <2>5
    <3>2. CASE j \in 1 .. Len(s)
          BY <3>1, <3>2, <2>2, <2>5 DEF Kept, Rising
    <3>3. CASE j = Len(s) + 1
      <4>1. PICK k \in 1 .. m - 1 : s[i] = items[k]
            BY <3>1, <2>2, <2>3
      <4>2. k \in DOMAIN items /\ m \in DOMAIN items /\ k < m
            BY <4>1, <1>1
      <4> QED
          BY <4>1, <4>2, <3>1, <3>3, <2>2, <2>5, <1>3 DEF Rising
    <3> QED
        BY <3>2, <3>3, <2>1, <2>2
  <2>6. Rising(t)
        BY <2>5 DEF Rising
  <2>7. Kept(t, items, m)
        BY <2>2, <2>4, <2>6 DEF Kept
  <2>8. After(s, items[m]) = t
        BY <1>3 DEF After, t
  <2> QED
      BY <2>7, <2>8
<1> QED
    BY <1>2, <1>3

\* The answers among items are some of them, in their order.
LEMMA AnswersKept ==
    ASSUME NEW items \in Seq(Item), Rising(items)
    PROVE  Kept(Answers(items), items, Len(items))
<1> DEFINE f == CHOOSE f : f = [n \in 0 .. Len(items) |->
                    IF n = 0 THEN <<>>
                    ELSE IF IsAnswer(items[n]) THEN Append(f[n - 1], items[n]) ELSE f[n - 1]]
<1>1. Answers(items) = f[Len(items)]
      BY DEF Answers
<1>2. IsAmong(f, items, Len(items))
      BY AmongExists DEF IsAmong, After
<1> HIDE DEF f
<1> DEFINE T == {m \in 0 .. Len(items) : ~Kept(f[m], items, m)}
<1>3. Len(items) \in Nat
      OBVIOUS
<1>4. SUFFICES T = {}
      BY <1>1, <1>3
<1>5. SUFFICES ASSUME T # {} PROVE FALSE
      OBVIOUS
<1>6. PICK m \in T : \A k \in T : ~ k < m
  <2>1. T \in SUBSET Nat
        BY <1>3
  <2> QED
      BY <2>1, <1>5, Least
<1>7. m \in 0 .. Len(items) /\ ~Kept(f[m], items, m)
      OBVIOUS
<1>8. m # 0
  <2>1. f[0] = <<>>
        BY <1>2, <1>3 DEF IsAmong
  <2>2. Kept(<<>>, items, 0)
        BY DEF Kept, Rising
  <2> QED
      BY <2>1, <2>2, <1>7
<1>9. m \in 1 .. Len(items) /\ m - 1 \in 0 .. Len(items) /\ m - 1 < m
      BY <1>3, <1>7, <1>8
<1>10. Kept(f[m - 1], items, m - 1)
      BY <1>6, <1>9
<1>11. f[m] = After(f[m - 1], items[m])
      BY <1>2, <1>7, <1>8 DEF IsAmong
<1> QED
    BY <1>7, <1>9, <1>10, <1>11, KeptAppend

-----------------------------------------------------------------------------
(* The invariant.                                                           *)

AiTypeOK ==
    /\ got \in [Clients -> Seq(Reply)] /\ sendCh \in [Clients -> Seq(Item)]
    /\ handled \in [Clients -> Nat]
    /\ reader \in [Clients -> {"registering", "reading", "calling", "holding", "stuck",
                               "asking", "answering", "leaving", "closing", "ended"}]

\* Every item's number is at most top.
Within(items, top) == \A i \in DOMAIN items : IsAnswer(items[i]) => items[i].answer <= top

\* What has arrived is below what is queued.
Precedes(s, t) ==
    \A i \in DOMAIN s, j \in DOMAIN t :
        IsAnswer(s[i]) /\ IsAnswer(t[j]) => s[i].answer < t[j].answer

\* The number of the latest request whose answer is done with.
Answered(c) ==
    IF reader[c] \in {"calling", "holding", "stuck", "asking", "answering"} THEN handled[c] - 1
    ELSE handled[c]

InLine(c) ==
    /\ Rising(got[c]) /\ Rising(sendCh[c]) /\ Precedes(got[c], sendCh[c])
    /\ Within(got[c], Answered(c)) /\ Within(sendCh[c], Answered(c))

InOrder == AiTypeOK /\ \A c \in Clients : InLine(c)

-----------------------------------------------------------------------------
(* What queues do.                                                          *)

LEMMA Queued ==
    ASSUME NEW s \in Seq(Reply), NEW q \in Seq(Item), NEW item \in Item, NEW n \in Int,
           Rising(q), Precedes(s, q), Within(s, n), Within(q, n),
           IsAnswer(item) => item.answer = n + 1
    PROVE  /\ Append(q, item) \in Seq(Item) /\ Rising(Append(q, item))
           /\ Precedes(s, Append(q, item))
           /\ IsAnswer(item) => Within(Append(q, item), n + 1)
           /\ ~IsAnswer(item) => Within(Append(q, item), n)
<1> DEFINE t == Append(q, item)
<1>1. /\ t \in Seq(Item) /\ DOMAIN t = 1 .. Len(q) + 1 /\ DOMAIN q = 1 .. Len(q)
      /\ Len(q) \in Nat
      /\ \A i \in 1 .. Len(q) : t[i] = q[i]
      /\ t[Len(q) + 1] = item
      OBVIOUS
<1> HIDE DEF t
<1>2. /\ \A i \in DOMAIN q : IsAnswer(q[i]) => q[i].answer \in Nat /\ q[i].answer <= n
      /\ \A i \in DOMAIN s : IsAnswer(s[i]) => s[i].answer \in Nat /\ s[i].answer <= n
      BY RepliesAreAnswers DEF Within
<1>3. ASSUME NEW i \in DOMAIN t, NEW j \in DOMAIN t, i < j, IsAnswer(t[i]), IsAnswer(t[j])
      PROVE  t[i].answer < t[j].answer
  <2>1. i \in 1 .. Len(q)
        BY <1>1, <1>3
  <2>2. CASE j \in 1 .. Len(q)
        BY <1>1, <1>3, <2>1, <2>2 DEF Rising
  <2>3. CASE j = Len(q) + 1
    <3>1. t[i] = q[i] /\ t[j] = item
          BY <1>1, <2>1, <2>3
    <3>2. q[i].answer \in Nat /\ q[i].answer <= n /\ item.answer = n + 1
          BY <3>1, <1>1, <1>2, <1>3, <2>1
    <3> QED
        BY <3>1, <3>2
  <2> QED
      BY <2>2, <2>3, <1>1
<1>4. ASSUME NEW i \in DOMAIN s, NEW j \in DOMAIN t, IsAnswer(s[i]), IsAnswer(t[j])
      PROVE  s[i].answer < t[j].answer
  <2>1. CASE j \in 1 .. Len(q)
        BY <1>1, <1>4, <2>1 DEF Precedes
  <2>2. CASE j = Len(q) + 1
    <3>1. t[j] = item /\ item.answer = n + 1 /\ s[i].answer \in Nat /\ s[i].answer <= n
          BY <1>1, <1>2, <1>4, <2>2
    <3> QED
        BY <3>1
  <2> QED
      BY <2>1, <2>2, <1>1
<1>5. ASSUME IsAnswer(item), NEW i \in DOMAIN t, IsAnswer(t[i])
      PROVE  t[i].answer <= n + 1
  <2>1. CASE i \in 1 .. Len(q)
    <3>1. t[i] = q[i] /\ q[i].answer \in Nat /\ q[i].answer <= n
          BY <1>1, <1>2, <1>5, <2>1
    <3> QED
        BY <3>1
  <2>2. CASE i = Len(q) + 1
    <3>1. t[i].answer = n + 1
          BY <1>1, <1>5, <2>2
    <3> QED
        BY <3>1
  <2> QED
      BY <2>1, <2>2, <1>1
<1>6. ASSUME ~IsAnswer(item), NEW i \in DOMAIN t, IsAnswer(t[i])
      PROVE  t[i].answer <= n
      BY <1>1, <1>2, <1>6
<1>7. Rising(t) /\ Precedes(s, t) /\ (IsAnswer(item) => Within(t, n + 1))
      /\ (~IsAnswer(item) => Within(t, n))
      BY <1>3, <1>4, <1>5, <1>6 DEF Rising, Precedes, Within
<1> QED
    BY <1>1, <1>7 DEF t

LEMMA Written ==
    ASSUME NEW s \in Seq(Reply), NEW q \in Seq(Item), NEW n \in Int,
           Rising(s), Rising(q), Precedes(s, q), Within(s, n), Within(q, n)
    PROVE  /\ s \o Answers(q) \in Seq(Reply) /\ Rising(s \o Answers(q))
           /\ Within(s \o Answers(q), n)
<1> DEFINE a == Answers(q)
           t == s \o a
<1>1. /\ a \in Seq(Reply) /\ Rising(a)
      /\ \A i \in DOMAIN a : \E k \in DOMAIN q : a[i] = q[k]
      BY AnswersKept DEF Kept
<1> HIDE DEF a
<1>2. /\ t \in Seq(Reply) /\ DOMAIN t = 1 .. Len(s) + Len(a)
      /\ Len(s) \in Nat /\ Len(a) \in Nat /\ DOMAIN s = 1 .. Len(s) /\ DOMAIN a = 1 .. Len(a)
      /\ \A i \in 1 .. Len(s) : t[i] = s[i]
      /\ \A i \in Len(s) + 1 .. Len(s) + Len(a) : t[i] = a[i - Len(s)]
      BY <1>1
<1> HIDE DEF t
<1>3. ASSUME NEW i \in DOMAIN t, IsAnswer(t[i])
      PROVE  \/ i \in 1 .. Len(s) /\ t[i] = s[i]
             \/ \E k \in DOMAIN q :
                    i \in Len(s) + 1 .. Len(s) + Len(a) /\ t[i] = a[i - Len(s)]
                    /\ i - Len(s) \in DOMAIN a /\ t[i] = q[k]
  <2>1. CASE i \in 1 .. Len(s)
        BY <2>1, <1>2
  <2>2. CASE i \in Len(s) + 1 .. Len(s) + Len(a)
    <3>1. i - Len(s) \in DOMAIN a /\ t[i] = a[i - Len(s)]
          BY <2>2, <1>2
    <3> QED
        BY <3>1, <2>2, <1>1
  <2> QED
      BY <2>1, <2>2, <1>2
<1>4. Within(t, n)
      BY <1>3, <1>2 DEF Within
<1>5. ASSUME NEW i \in DOMAIN t, NEW j \in DOMAIN t, i < j, IsAnswer(t[i]), IsAnswer(t[j])
      PROVE  t[i].answer < t[j].answer
  <2>1. CASE i \in 1 .. Len(s) /\ j \in 1 .. Len(s)
        BY <2>1, <1>2, <1>5 DEF Rising
  <2>2. CASE i \in 1 .. Len(s) /\ j \notin 1 .. Len(s)
    <3>1. t[i] = s[i] /\ \E k \in DOMAIN q : t[j] = q[k]
          BY <2>2, <1>2, <1>3, <1>5
    <3> QED
        BY <3>1, <2>2, <1>2, <1>5 DEF Precedes
  <2>3. CASE i \notin 1 .. Len(s)
    <3>1. /\ i - Len(s) \in DOMAIN a /\ t[i] = a[i - Len(s)]
          /\ j - Len(s) \in DOMAIN a /\ t[j] = a[j - Len(s)]
          /\ i - Len(s) < j - Len(s)
      <4>1. i \in Len(s) + 1 .. Len(s) + Len(a) /\ j \in Len(s) + 1 .. Len(s) + Len(a)
            BY <2>3, <1>2, <1>5
      <4>2. i - Len(s) \in 1 .. Len(a) /\ j - Len(s) \in 1 .. Len(a) /\ i - Len(s) < j - Len(s)
            BY <4>1, <1>2, <1>5
      <4> QED
          BY <4>1, <4>2, <1>2
    <3> QED
        BY <3>1, <1>1, <1>5 DEF Rising
  <2> QED
      BY <2>1, <2>2, <2>3
<1>6. Rising(t)
      BY <1>5 DEF Rising
<1> QED
    BY <1>2, <1>4, <1>6 DEF t, a

LEMMA NothingQueued == \A s : <<>> \in Seq(Item) /\ Rising(<<>>) /\ Precedes(s, <<>>)
BY DEF Rising, Precedes

LEMMA WithinNothing == \A n : Within(<<>>, n)
BY DEF Within

LEMMA WithinMore ==
    ASSUME NEW q, q \in Seq(Reply) \/ q \in Seq(Item), NEW n \in Int, NEW m \in Int, n <= m,
           Within(q, n)
    PROVE  Within(q, m)
<1>1. \A i \in DOMAIN q : IsAnswer(q[i]) => q[i].answer \in Nat /\ q[i].answer <= n
      BY RepliesAreAnswers DEF Within
<1> QED
    BY <1>1 DEF Within

-----------------------------------------------------------------------------
(* The steps.  Most leave the answers and the queues alone and do not finish *)
(* a request; an answer is queued, an event is queued, or the queue written. *)

Calm ==
    /\ UNCHANGED <<got, sendCh>>
    /\ AiTypeOK'
    /\ \A c \in Clients : Answered(c)' = Answered(c)

LEMMA CalmKeeps == InOrder /\ Calm => InOrder'
BY DEF InOrder, Calm, InLine, Rising, Precedes, Within, IsAnswer

\* A reader moves and has, or has not, a request in hand before as after.
LEMMA Moves ==
    ASSUME AiTypeOK, NEW c \in Clients, NEW at,
           UNCHANGED <<got, sendCh, handled>>, reader' = [reader EXCEPT ![c] = at],
           \/ reader[c] \in {"calling", "holding", "asking"}
              /\ at \in {"holding", "stuck", "asking", "answering"}
           \/ reader[c] \in {"registering", "reading", "leaving", "closing"}
              /\ at \in {"reading", "leaving", "closing", "ended"}
    PROVE  Calm
<1>1. AiTypeOK'
      BY DEF AiTypeOK
<1>2. ASSUME NEW d \in Clients PROVE Answered(d)' = Answered(d)
  <2>1. CASE d = c
        BY <2>1 DEF Answered, AiTypeOK
  <2>2. CASE d # c
        BY <2>2 DEF Answered, AiTypeOK
  <2> QED
      BY <2>1, <2>2
<1> QED
    BY <1>1, <1>2 DEF Calm

LEMMA Stays ==
    ASSUME AiTypeOK, UNCHANGED <<got, sendCh, handled, reader>>
    PROVE  Calm
BY DEF Calm, AiTypeOK, Answered

LEMMA ReadMessageCalm == ASSUME AiTypeOK, NEW c \in Clients, ReadMessage(c) PROVE Calm
<1>1. /\ UNCHANGED <<got, sendCh>> /\ reader[c] = "reading"
      /\ handled' = [handled EXCEPT ![c] = @ + 1] /\ reader' = [reader EXCEPT ![c] = "calling"]
      BY DEF ReadMessage, ReaderTo
<1>2. AiTypeOK'
      BY <1>1 DEF AiTypeOK
<1>3. ASSUME NEW d \in Clients PROVE Answered(d)' = Answered(d)
  <2>1. CASE d = c
    <3>1. Answered(d) = handled[c] /\ Answered(d)' = (handled[c] + 1) - 1 /\ handled[c] \in Nat
          BY <1>1, <2>1 DEF Answered, AiTypeOK
    <3> QED
        BY <3>1
  <2>2. CASE d # c
        BY <1>1, <2>2 DEF Answered, AiTypeOK
  <2> QED
      BY <2>1, <2>2
<1> QED
    BY <1>1, <1>2, <1>3 DEF Calm

\* The steps of a reader that neither read a request nor answer one.
LEMMA ReaderCalm ==
    ASSUME AiTypeOK, NEW c \in Clients,
           \/ Register(c) \/ Unregister(c) \/ ReadFails(c) \/ ReaderCloses(c)
           \/ Locking(c) \/ Call(c)
    PROVE  Calm
<1>1. CASE Register(c)
      BY <1>1, Moves DEF Register
<1>2. CASE Unregister(c)
      BY <1>2, Moves DEF Unregister
<1>3. CASE ReadFails(c)
      BY <1>3, Moves DEF ReadFails, ReaderTo
<1>4. CASE ReaderCloses(c)
      BY <1>4, Moves DEF ReaderCloses, ReaderTo
<1>5. CASE Query(c)
      BY <1>5, Moves DEF Query, ReaderTo
<1>6. CASE Acquire(c)
      BY <1>6, Moves DEF Acquire, ReaderTo
<1>7. CASE LaunchFails(c)
      BY <1>7, Moves DEF LaunchFails, Return, ReaderTo
<1>8. CASE Launch(c)
      BY <1>8, Moves DEF Launch, Return, ReaderTo
<1>9. CASE Disconnect(c)
      BY <1>9, Moves DEF Disconnect, Return, ReaderTo
<1>10. CASE GetState(c)
      BY <1>10, Moves DEF GetState, ReaderTo
<1> QED
    BY <1>1, <1>2, <1>3, <1>4, <1>5, <1>6, <1>7, <1>8, <1>9, <1>10 DEF Call, Locking

LEMMA OthersCalm ==
    ASSUME AiTypeOK, NEW c \in Clients,
           Leave(c) \/ WriterEnds(c) \/ Shutdown \/ Tick \/ Broadcast
    PROVE  Calm
<1>1. UNCHANGED <<got, sendCh, handled, reader>>
      BY DEF Leave, WriterEnds, Shutdown, Tick, Broadcast, connection
<1> QED
    BY <1>1, Stays

\* Whoever is in line stays there if nothing of his changes.
LEMMA OthersInLine ==
    ASSUME NEW d \in Clients, InLine(d), got[d]' = got[d], sendCh[d]' = sendCh[d],
           handled[d]' = handled[d], reader[d]' = reader[d]
    PROVE  InLine(d)'
BY DEF InLine, Answered, Rising, Precedes, Within, IsAnswer

LEMMA AnswerKeeps == ASSUME InOrder, NEW c \in Clients, Answer(c) PROVE InOrder'
<1> DEFINE item == [answer |-> handled[c]]
<1>1. /\ UNCHANGED <<got, handled>> /\ reader[c] = "answering"
      /\ reader' = [reader EXCEPT ![c] = "reading"]
      /\ \/ sendCh' = [sendCh EXCEPT ![c] = Append(@, item)]
         \/ sendCh' = sendCh
      BY DEF Answer, ReaderTo, Send
<1>2. /\ got[c] \in Seq(Reply) /\ sendCh[c] \in Seq(Item) /\ handled[c] \in Nat
      /\ InLine(c) /\ Answered(c) = handled[c] - 1
      BY <1>1 DEF InOrder, AiTypeOK, Answered
<1>3. item \in Item /\ item.answer = (handled[c] - 1) + 1 /\ IsAnswer(item)
      BY <1>2, RepliesAreAnswers DEF Item
<1> HIDE DEF item
<1>4. /\ Append(sendCh[c], item) \in Seq(Item) /\ Rising(Append(sendCh[c], item))
      /\ Precedes(got[c], Append(sendCh[c], item))
      /\ Within(Append(sendCh[c], item), (handled[c] - 1) + 1)
      BY <1>2, <1>3, Queued DEF InLine
<1>5. handled[c] - 1 \in Int /\ handled[c] - 1 <= handled[c]
      BY <1>2
<1>6. Within(got[c], handled[c]) /\ Within(sendCh[c], handled[c])
      BY <1>2, <1>5, WithinMore DEF InLine
<1>7. Within(Append(sendCh[c], item), handled[c])
      BY <1>2, <1>4, (handled[c] - 1) + 1 = handled[c]
<1>8. AiTypeOK'
      BY <1>1, <1>2, <1>4 DEF InOrder, AiTypeOK
<1>9. InLine(c)'
  <2>1. got'[c] = got[c] /\ Answered(c)' = handled[c] /\ handled'[c] = handled[c]
        BY <1>1 DEF InOrder, AiTypeOK, Answered
  <2>2. sendCh'[c] = Append(sendCh[c], item) \/ sendCh'[c] = sendCh[c]
        BY <1>1 DEF InOrder, AiTypeOK
  <2>3. /\ Rising(sendCh'[c]) /\ Precedes(got'[c], sendCh'[c]) /\ Rising(got'[c])
        /\ Within(sendCh'[c], handled[c]) /\ Within(got'[c], handled[c])
        BY <2>1, <2>2, <1>2, <1>4, <1>6, <1>7 DEF InLine
  <2> QED
      BY <2>1, <2>3 DEF InLine, Rising, Precedes, Within, IsAnswer
<1>10. ASSUME NEW d \in Clients, d # c PROVE InLine(d)'
  <2>1. /\ got[d]' = got[d] /\ sendCh[d]' = sendCh[d] /\ handled[d]' = handled[d]
        /\ reader[d]' = reader[d]
        BY <1>1, <1>10 DEF InOrder, AiTypeOK
  <2> QED
      BY <2>1, OthersInLine DEF InOrder
<1> QED
    BY <1>8, <1>9, <1>10 DEF InOrder

LEMMA SendEventKeeps == ASSUME InOrder, NEW c \in Clients, SendEvent(c) PROVE InOrder'
<1>1. /\ UNCHANGED <<got, handled, reader>>
      /\ \/ sendCh' = [sendCh EXCEPT ![c] = Append(@, Event)]
         \/ sendCh' = sendCh
      BY DEF SendEvent, Send
<1>2. /\ got[c] \in Seq(Reply) /\ sendCh[c] \in Seq(Item) /\ InLine(c) /\ Answered(c) \in Int
      BY DEF InOrder, AiTypeOK, Answered
<1>3. /\ Append(sendCh[c], Event) \in Seq(Item) /\ Rising(Append(sendCh[c], Event))
      /\ Precedes(got[c], Append(sendCh[c], Event))
      /\ Within(Append(sendCh[c], Event), Answered(c))
      BY <1>2, RepliesAreAnswers, Queued DEF InLine
<1>4. AiTypeOK'
      BY <1>1, <1>2, <1>3 DEF InOrder, AiTypeOK
<1>5. InLine(c)'
  <2>1. got'[c] = got[c] /\ Answered(c)' = Answered(c)
        BY <1>1 DEF InOrder, AiTypeOK, Answered
  <2>2. sendCh'[c] = Append(sendCh[c], Event) \/ sendCh'[c] = sendCh[c]
        BY <1>1 DEF InOrder, AiTypeOK
  <2>3. /\ Rising(sendCh'[c]) /\ Precedes(got'[c], sendCh'[c]) /\ Rising(got'[c])
        /\ Within(sendCh'[c], Answered(c)) /\ Within(got'[c], Answered(c))
        BY <2>1, <2>2, <1>2, <1>3 DEF InLine
  <2> QED
      BY <2>1, <2>3 DEF InLine, Rising, Precedes, Within, IsAnswer
<1>6. ASSUME NEW d \in Clients, d # c PROVE InLine(d)'
  <2>1. /\ got[d]' = got[d] /\ sendCh[d]' = sendCh[d] /\ handled[d]' = handled[d]
        /\ reader[d]' = reader[d]
        BY <1>1, <1>6 DEF InOrder, AiTypeOK
  <2> QED
      BY <2>1, OthersInLine DEF InOrder
<1> QED
    BY <1>4, <1>5, <1>6 DEF InOrder

LEMMA WriteKeepsOrder == ASSUME InOrder, NEW c \in Clients, Write(c) PROVE InOrder'
<1>1. /\ UNCHANGED <<handled, reader>> /\ sendCh' = [sendCh EXCEPT ![c] = <<>>]
      /\ \/ got' = [got EXCEPT ![c] = @ \o Answers(sendCh[c])]
         \/ got' = got
      BY DEF Write
<1>2. /\ got[c] \in Seq(Reply) /\ sendCh[c] \in Seq(Item) /\ InLine(c) /\ Answered(c) \in Int
      BY DEF InOrder, AiTypeOK, Answered
<1>3. /\ got[c] \o Answers(sendCh[c]) \in Seq(Reply) /\ Rising(got[c] \o Answers(sendCh[c]))
      /\ Within(got[c] \o Answers(sendCh[c]), Answered(c))
      BY <1>2, Written DEF InLine
<1>4. AiTypeOK'
      BY <1>1, <1>2, <1>3, NothingQueued DEF InOrder, AiTypeOK
<1>5. InLine(c)'
  <2>1. sendCh'[c] = <<>> /\ Answered(c)' = Answered(c)
        BY <1>1 DEF InOrder, AiTypeOK, Answered
  <2>2. got'[c] = got[c] \o Answers(sendCh[c]) \/ got'[c] = got[c]
        BY <1>1 DEF InOrder, AiTypeOK
  <2>3. /\ Rising(sendCh'[c]) /\ Precedes(got'[c], sendCh'[c]) /\ Rising(got'[c])
        /\ Within(sendCh'[c], Answered(c)) /\ Within(got'[c], Answered(c))
        BY <2>1, <2>2, <1>2, <1>3, NothingQueued, WithinNothing DEF InLine
  <2> QED
      BY <2>1, <2>3 DEF InLine, Rising, Precedes, Within, IsAnswer
<1>6. ASSUME NEW d \in Clients, d # c PROVE InLine(d)'
  <2>1. /\ got[d]' = got[d] /\ sendCh[d]' = sendCh[d] /\ handled[d]' = handled[d]
        /\ reader[d]' = reader[d]
        BY <1>1, <1>6 DEF InOrder, AiTypeOK
  <2> QED
      BY <2>1, OthersInLine DEF InOrder
<1> QED
    BY <1>4, <1>5, <1>6 DEF InOrder

-----------------------------------------------------------------------------
LEMMA OrderStarts == AiInit => InOrder
<1> SUFFICES ASSUME AiInit PROVE InOrder
    OBVIOUS
<1>1. AiTypeOK
      BY DEF AiInit, AiTypeOK
<1>2. ASSUME NEW c \in Clients PROVE InLine(c)
  <2>1. got[c] = <<>> /\ sendCh[c] = <<>>
        BY DEF AiInit
  <2> QED
      BY <2>1, NothingQueued, WithinNothing DEF InLine
<1> QED
    BY <1>1, <1>2 DEF InOrder

LEMMA OrderKept == InOrder /\ [AiNext]_aiVars => InOrder'
<1> SUFFICES ASSUME InOrder, [AiNext]_aiVars PROVE InOrder'
    OBVIOUS
<1>1. AiTypeOK
      BY DEF InOrder
<1>2. CASE UNCHANGED aiVars
      BY <1>1, <1>2, Stays, CalmKeeps DEF aiVars, connection
<1>3. CASE Shutdown \/ Tick \/ Broadcast
  <2>1. UNCHANGED <<got, sendCh, handled, reader>>
        BY <1>3 DEF Shutdown, Tick, Broadcast, connection
  <2> QED
      BY <1>1, <2>1, Stays, CalmKeeps
<1>4. ASSUME NEW c \in Clients,
             \/ Leave(c) \/ Register(c) \/ Unregister(c)
             \/ Reader(c) \/ Locking(c) \/ Writer(c) \/ SendEvent(c)
      PROVE  InOrder'
  <2>1. CASE Leave(c) \/ WriterEnds(c)
        BY <1>1, <2>1, OthersCalm, CalmKeeps
  <2>2. CASE \/ Register(c) \/ Unregister(c) \/ ReadFails(c) \/ ReaderCloses(c)
             \/ Locking(c) \/ Call(c)
        BY <1>1, <2>2, ReaderCalm, CalmKeeps
  <2>3. CASE ReadMessage(c)
        BY <1>1, <2>3, ReadMessageCalm, CalmKeeps
  <2>4. CASE Answer(c)
        BY <2>4, AnswerKeeps
  <2>5. CASE Write(c)
        BY <2>5, WriteKeepsOrder
  <2>6. CASE SendEvent(c)
        BY <2>6, SendEventKeeps
  <2> QED
      BY <1>4, <2>1, <2>2, <2>3, <2>4, <2>5, <2>6 DEF Reader, Writer
<1> QED
    BY <1>2, <1>3, <1>4 DEF AiNext

LEMMA OrderSuffices == InOrder => AnswersInOrder
<1> SUFFICES ASSUME InOrder, NEW c \in Clients, NEW i \in DOMAIN got[c], NEW j \in DOMAIN got[c],
                    i < j
             PROVE  got[c][i].answer < got[c][j].answer
    BY DEF AnswersInOrder
<1>1. got[c] \in Seq(Reply) /\ Rising(got[c])
      BY DEF InOrder, AiTypeOK, InLine
<1>2. IsAnswer(got[c][i]) /\ IsAnswer(got[c][j])
      BY <1>1, RepliesAreAnswers
<1> QED
    BY <1>1, <1>2 DEF Rising

\* The answers a peer gets are in the order of its requests, and none comes twice, whatever is
\* refused or lost on the way and whoever closes the connection.
THEOREM AnswersStayInOrder == AiSpec => []AnswersInOrder
<1>1. InOrder => AnswersInOrder
      BY OrderSuffices
<1> QED
    BY <1>1, OrderStarts, OrderKept, PTL DEF AiSpec
===============================================================================
