------------------------- MODULE SessionManagerProofs -------------------------
(***************************************************************************)
(* What SessionManager promises, proved for every set of threads and of      *)
(* process identifiers, every limit on sessions and every bound; and what    *)
(* SignalHandler, the other half of looking after processes, promises for    *)
(* every capacity of the pipe and every number of signals.                   *)
(*                                                                           *)
(* SessionManager: the invariant is built in layers, each inductive given    *)
(* those before it: Books and Locked (the list, the count, who is where),    *)
(* Owned (whose process is whose), Ended (needs that no wait has a timeout   *)
(* of 0), and Recorded (needs also that no identifier is used twice).        *)
(* SignalHandler: it says, for each place in initialising and shutting down, *)
(* which actions are ours by then and that the program's own are kept for    *)
(* them.                                                                     *)
(***************************************************************************)
EXTENDS SessionManager, SignalHandler, SequenceTheorems, TLAPS

-----------------------------------------------------------------------------
DestroyPlaces == {"destroyPoll", "destroyKill", "destroyFree"}
ManagerPlaces == {"managerTerm", "managerKill"}
UnlockedPlaces == {"mark", "block", "poll", "record"}

Sessions == [pid : Pids \cup {0}, state : States, exitCode : Codes]
ThreadStates == [pc : {"idle"} \cup DestroyPlaces \cup ManagerPlaces \cup UnlockedPlaces,
                 id : Ids \cup {NoId}, left : Nat, code : Codes \cup {NoChild}]
Processes == [status : {"unused", "running", "zombie", "gone"}, owner : Ids \cup {NoId},
              code : Codes, termed : BOOLEAN, killed : BOOLEAN]

Typed ==
    /\ up \in BOOLEAN
    /\ list \in Seq(Ids) /\ count \in Nat /\ nextId \in 1 .. MaxId
    /\ sess \in [Ids -> Sessions]
    /\ mutex \in Threads \cup {NoThread}
    /\ thr \in [Threads -> ThreadStates]
    /\ proc \in [Pids -> Processes]
    /\ exitOf \in [Ids -> Codes \cup {Alive}]
    /\ strayed \in BOOLEAN

\* The list holds each session once, all with numbers given out, and is as long as the
\* count says unless the manager is taking it apart; each has a process.
Books ==
    /\ \A m, n \in DOMAIN list : list[m] = list[n] => m = n
    /\ \A n \in DOMAIN list : list[n] < nextId
    /\ count <= MaxSessions
    /\ (\A t \in Threads : thr[t].pc \notin ManagerPlaces) => count = Len(list)
    /\ \A i \in Ids : Listed(i) => sess[i].pid \in Pids

\* Who holds the mutex is in one of the locked calls and the other way round; nobody has a
\* session that is being destroyed, or anything at all while the manager is.
Locked ==
    /\ \A t \in Threads : thr[t].pc \in DestroyPlaces \cup ManagerPlaces <=> mutex = t
    /\ \A t \in Threads : thr[t].pc = "idle" => thr[t] = IdleThread
    /\ \A t \in Threads : thr[t].pc \in ManagerPlaces =>
          thr[t].id = NoId /\ \A u \in Threads \ {t} : thr[u] = IdleThread
    /\ \A t \in Threads : thr[t].pc = "managerKill" => list # <<>>
    /\ \A t \in Threads : thr[t].pc \in DestroyPlaces \cup UnlockedPlaces => Listed(thr[t].id)
    /\ \A t, u \in Threads : thr[t].pc \in DestroyPlaces /\ thr[u].id = thr[t].id => u = t

\* A running process is that of a session made, known to it while it is listed, and killed
\* before the session may be freed.
Owned ==
    /\ \A p \in Pids : proc[p].status = "running" =>
          /\ proc[p].owner \in Ids /\ proc[p].owner < nextId
          /\ Listed(proc[p].owner) => sess[proc[p].owner].pid = p
    /\ DestroyedIsKilled
    /\ \A t \in Threads : thr[t].pc = "destroyFree" =>
          \A p \in Pids : proc[p].status = "running" /\ proc[p].owner = thr[t].id => proc[p].killed

\* A listed session's process runs until its end is noted; who is about to record an end
\* knows of one.
Ended ==
    /\ \A t \in Threads : thr[t].pc # "poll"
    /\ \A i \in Ids : Listed(i) /\ exitOf[i] = Alive =>
          proc[sess[i].pid].status = "running" /\ proc[sess[i].pid].owner = i
    /\ \A i \in Ids : ~Listed(i) => sess[i] = NoSession /\ exitOf[i] = Alive
    /\ \A t \in Threads : thr[t].pc = "record" => exitOf[thr[t].id] # Alive
    /\ TerminatedIsDead

\* The true status of an ended process is in the process table, then with the thread that
\* reaped it, then in the session; other waiters have none.
Recorded ==
    /\ \A i, j \in Ids : Listed(i) /\ Listed(j) /\ sess[i].pid = sess[j].pid => i = j
    /\ \A i \in Ids : Listed(i) =>
          /\ proc[sess[i].pid].status # "unused"
          /\ proc[sess[i].pid].status = "running" => exitOf[i] = Alive
          /\ proc[sess[i].pid].status = "zombie" => proc[sess[i].pid].code = exitOf[i]
          /\ proc[sess[i].pid].status = "gone" =>
                \/ sess[i].exitCode = exitOf[i]
                \/ \E t \in Threads : thr[t].pc = "record" /\ thr[t].id = i /\ thr[t].code = exitOf[i]
    /\ \A t \in Threads : thr[t].pc = "record" => thr[t].code \in {NoChild, exitOf[thr[t].id]}

-----------------------------------------------------------------------------
(* Facts about the operators of SessionManager.                              *)

\* A process ends with the status of what was sent to it, or of its own.
LEMMA ExitEffect ==
    ASSUME NEW p \in Pids, ProcessExit(p)
    PROVE  \E c \in {Exited, 128 + SIGTERM, 128 + SIGKILL} :
             /\ proc' = [proc EXCEPT ![p] = [NoProc EXCEPT !.status = "zombie",
                                                         !.owner = proc[p].owner, !.code = c]]
             /\ exitOf' = IF Listed(proc[p].owner) THEN [exitOf EXCEPT ![proc[p].owner] = c]
                          ELSE exitOf
<1> DEFINE may == {Exited} \cup (IF proc[p].termed THEN {128 + SIGTERM} ELSE {})
                          \cup (IF proc[p].killed THEN {128 + SIGKILL} ELSE {})
<1>1. PICK c \in may :
         /\ proc' = [proc EXCEPT ![p] = [NoProc EXCEPT !.status = "zombie",
                                                     !.owner = proc[p].owner, !.code = c]]
         /\ exitOf' = IF Listed(proc[p].owner) THEN [exitOf EXCEPT ![proc[p].owner] = c]
                      ELSE exitOf
      BY DEF ProcessExit
<1>2. may \subseteq {Exited, 128 + SIGTERM, 128 + SIGKILL}
      BY Zenon
<1> HIDE DEF may
<1> QED
    BY <1>1, <1>2

\* The values the variables start from are of their types.
LEMMA ConstantsTyped ==
    /\ NoProc \in Processes /\ NoSession \in Sessions /\ IdleThread \in ThreadStates
    /\ Ids \subseteq Nat \ {0}
    /\ \A i \in Ids : \A pc \in DestroyPlaces \cup UnlockedPlaces :
          [IdleThread EXCEPT !.pc = pc, !.id = i] \in ThreadStates
<1>1. Ids \subseteq Nat \ {0}
      BY SessionAssumption DEF Ids
<1>2. NoProc \in Processes
      BY DEF NoProc, Processes, NoId, Codes
<1>3. NoSession \in Sessions
      BY DEF NoSession, Sessions, States, Codes
<1>4. IdleThread \in ThreadStates
      BY DEF IdleThread, ThreadStates, NoId, Codes
<1>5. ASSUME NEW i \in Ids, NEW pc \in DestroyPlaces \cup UnlockedPlaces
      PROVE  [IdleThread EXCEPT !.pc = pc, !.id = i] \in ThreadStates
      BY DEF IdleThread, ThreadStates, NoId, Codes, DestroyPlaces, UnlockedPlaces
<1> QED
    BY <1>1, <1>2, <1>3, <1>4, <1>5

\* A thread that goes on in its call is a thread.
LEMMA PlaceTyped ==
    \A r \in ThreadStates : \A pc \in DestroyPlaces \cup ManagerPlaces \cup UnlockedPlaces :
        [r EXCEPT !.pc = pc] \in ThreadStates
BY DEF ThreadStates

\* A signal ends nothing yet: it marks the process that has the identifier, if one runs.
LEMMA SignalMarks ==
    ASSUME Typed, NEW i \in Ids, NEW sig, Signal(i, sig)
    PROVE  /\ proc' \in [Pids -> Processes] /\ strayed' \in BOOLEAN
           /\ \A p \in Pids :
                 /\ proc'[p].status = proc[p].status /\ proc'[p].owner = proc[p].owner
                 /\ proc'[p].code = proc[p].code
                 /\ proc[p].killed => proc'[p].killed
                 /\ p = sess[i].pid /\ proc[p].status = "running" /\ sig = SIGKILL => proc'[p].killed
<1> DEFINE q == sess[i].pid
<1>1. strayed' \in BOOLEAN
      BY DEF Signal
<1>2. CASE proc[q].status # "running"
      BY <1>1, <1>2 DEF Signal, Typed
<1>3. CASE proc[q].status = "running"
  <2>1. proc' = [proc EXCEPT ![q].termed = @ \/ sig = SIGTERM, ![q].killed = @ \/ sig = SIGKILL]
        BY <1>3 DEF Signal
  <2>2. ASSUME NEW p \in Pids, p # q
        PROVE  proc'[p] = proc[p]
        BY <2>1, <2>2 DEF Typed
  <2>3. ASSUME q \in Pids
        PROVE  proc'[q] = [proc[q] EXCEPT !.termed = @ \/ sig = SIGTERM, !.killed = @ \/ sig = SIGKILL]
        BY <2>1, <2>3 DEF Typed
  <2>4. ASSUME q \in Pids
        PROVE  /\ proc'[q] \in Processes
               /\ proc'[q].status = proc[q].status /\ proc'[q].owner = proc[q].owner
               /\ proc'[q].code = proc[q].code
               /\ proc[q].killed \/ sig = SIGKILL => proc'[q].killed
    <3>1. proc[q] \in Processes
          BY <2>4 DEF Typed
    <3>2. PICK a \in BOOLEAN, b \in BOOLEAN :
             /\ proc'[q] = [proc[q] EXCEPT !.termed = a, !.killed = b]
             /\ proc[q].killed \/ sig = SIGKILL => b = TRUE
      <4> DEFINE a == proc[q].termed \/ sig = SIGTERM
                 b == proc[q].killed \/ sig = SIGKILL
      <4> WITNESS a \in BOOLEAN, b \in BOOLEAN
      <4> QED
          BY <2>3, <2>4
    <3>3. /\ proc'[q] \in Processes
          /\ proc'[q].status = proc[q].status /\ proc'[q].owner = proc[q].owner
          /\ proc'[q].code = proc[q].code /\ proc'[q].killed = b
          BY <3>1, <3>2, <2>4 DEF Processes
    <3> QED
        BY <3>2, <3>3
  <2>5. DOMAIN proc' = Pids /\ proc' = [p \in Pids |-> proc'[p]]
        BY <2>1 DEF Typed
  <2>6. proc' \in [Pids -> Processes]
        BY <2>2, <2>4, <2>5 DEF Typed
  <2> QED
      BY <1>1, <2>2, <2>4, <2>6 DEF Typed
<1> QED
    BY <1>2, <1>3

\* A new session goes in front of the list.
LEMMA ListCons ==
    ASSUME list \in Seq(Ids), NEW i \in Ids, list' = <<i>> \o list
    PROVE  /\ list' \in Seq(Ids) /\ Len(list') = Len(list) + 1
           /\ \A j : Listed(j)' <=> j = i \/ Listed(j)
           /\ (\A m, n \in DOMAIN list : list[m] = list[n] => m = n) /\ ~Listed(i)
                 => \A m, n \in DOMAIN list' : list'[m] = list'[n] => m = n
<1>1. <<i>> \in Seq(Ids) /\ Len(<<i>>) = 1 /\ <<i>>[1] = i
      OBVIOUS
<1>2. /\ list' \in Seq(Ids) /\ Len(list') = Len(list) + 1
      /\ \A n \in 1 .. Len(list') : list'[n] = IF n = 1 THEN i ELSE list[n - 1]
      BY <1>1, ConcatProperties
<1>3. /\ DOMAIN list = 1 .. Len(list) /\ Len(list) \in Nat
      /\ DOMAIN list' = 1 .. (Len(list) + 1)
      BY <1>2
<1>4. ASSUME NEW j
      PROVE  Listed(j)' <=> j = i \/ Listed(j)
  <2>1. ASSUME NEW n \in DOMAIN list, list[n] = j
        PROVE  n + 1 \in DOMAIN list' /\ list'[n + 1] = j
        BY <1>2, <1>3, <2>1
  <2>2. 1 \in DOMAIN list' /\ list'[1] = i
        BY <1>2, <1>3
  <2>3. ASSUME NEW n \in DOMAIN list', list'[n] = j, n # 1
        PROVE  n - 1 \in DOMAIN list /\ list[n - 1] = j
        BY <1>2, <1>3, <2>3
  <2> QED
      BY <1>2, <1>3, <2>1, <2>2, <2>3 DEF Listed
<1>5. ASSUME \A m, n \in DOMAIN list : list[m] = list[n] => m = n, ~Listed(i),
             NEW m \in DOMAIN list', NEW n \in DOMAIN list', list'[m] = list'[n]
      PROVE  m = n
  <2>1. \A k \in DOMAIN list' : k # 1 => k - 1 \in DOMAIN list /\ list'[k] = list[k - 1]
        BY <1>2, <1>3
  <2>2. \A k \in DOMAIN list' : k # 1 => list'[k] # i
        BY <1>5, <2>1 DEF Listed
  <2>3. list'[1] = i
        BY <1>2, <1>3
  <2> QED
      BY <1>3, <1>5, <2>1, <2>2, <2>3
<1> QED
    BY <1>2, <1>4, <1>5

\* A sequence without its k-th element.
Skipping(s, k) == SubSeq(s, 1, k - 1) \o SubSeq(s, k + 1, Len(s))

\* It has the elements before the k-th where they were, and the others one place earlier.
LEMMA SkippingProperties ==
    ASSUME NEW S, NEW s \in Seq(S), NEW k \in 1 .. Len(s)
    PROVE  /\ Skipping(s, k) \in Seq(S) /\ Len(Skipping(s, k)) = Len(s) - 1
           /\ \A n \in 1 .. (Len(s) - 1) :
                 Skipping(s, k)[n] = IF n < k THEN s[n] ELSE s[n + 1]
<1> DEFINE t == Skipping(s, k)
           before == SubSeq(s, 1, k - 1)
           after == SubSeq(s, k + 1, Len(s))
<1>1. /\ before \in Seq(S) /\ Len(before) = k - 1
      /\ \A n \in 1 .. (k - 1) : before[n] = s[n]
  <2>1. \A n \in 1 .. (k - 1) : s[n] \in S
        BY ElementOfSeq
  <2>2. /\ before \in Seq(S)
        /\ Len(before) = IF 1 <= k - 1 THEN (k - 1) - 1 + 1 ELSE 0
        /\ \A n \in 1 .. ((k - 1) - 1 + 1) : before[n] = s[1 + n - 1]
        BY <2>1, SubSeqProperties
  <2> HIDE DEF before
  <2> QED
      BY <2>2
<1>2. /\ after \in Seq(S) /\ Len(after) = Len(s) - k
      /\ \A n \in 1 .. (Len(s) - k) : after[n] = s[k + n]
  <2>1. \A n \in (k + 1) .. Len(s) : s[n] \in S
        BY ElementOfSeq
  <2>2. /\ after \in Seq(S)
        /\ Len(after) = IF k + 1 <= Len(s) THEN Len(s) - (k + 1) + 1 ELSE 0
        /\ \A n \in 1 .. (Len(s) - (k + 1) + 1) : after[n] = s[(k + 1) + n - 1]
    <3>1. k + 1 \in Int /\ Len(s) \in Int
          OBVIOUS
    <3> QED
        BY <2>1, <3>1, SubSeqProperties
  <2> HIDE DEF after
  <2>3. ASSUME NEW n \in 1 .. (Len(s) - k)
        PROVE  after[n] = s[k + n]
    <3>1. n \in 1 .. (Len(s) - (k + 1) + 1) /\ (k + 1) + n - 1 = k + n
          OBVIOUS
    <3> QED
        BY <2>2, <3>1
  <2> QED
      BY <2>2, <2>3
<1>3. t = before \o after
      BY DEF Skipping
<1> HIDE DEF before, after, t
<1>4. /\ t \in Seq(S) /\ Len(t) = (k - 1) + (Len(s) - k)
      /\ \A n \in 1 .. (k - 1) + (Len(s) - k) :
            t[n] = IF n <= k - 1 THEN before[n] ELSE after[n - (k - 1)]
  <2>1. /\ t \in Seq(S) /\ Len(t) = Len(before) + Len(after)
        /\ \A n \in 1 .. Len(before) + Len(after) :
              t[n] = IF n <= Len(before) THEN before[n] ELSE after[n - Len(before)]
    <3>1. before \in Seq(S) /\ after \in Seq(S)
          BY <1>1, <1>2
    <3> QED
        BY <1>3, <3>1, ConcatProperties
  <2> QED
      BY <1>1, <1>2, <2>1
<1>5. ASSUME NEW n \in 1 .. (Len(s) - 1)
      PROVE  t[n] = IF n < k THEN s[n] ELSE s[n + 1]
  <2>1. n \in 1 .. (k - 1) + (Len(s) - k)
        OBVIOUS
  <2>2. CASE n < k
    <3>1. n \in 1 .. (k - 1)
          BY <2>2
    <3> QED
        BY <1>1, <1>4, <2>1, <2>2, <3>1
  <2>3. CASE ~(n < k)
    <3>1. n - (k - 1) \in 1 .. (Len(s) - k) /\ k + (n - (k - 1)) = n + 1 /\ ~(n <= k - 1)
          BY <2>3
    <3>2. t[n] = after[n - (k - 1)]
          BY <1>4, <2>1, <3>1
    <3>3. after[n - (k - 1)] = s[k + (n - (k - 1))]
          BY <1>2, <3>1
    <3> QED
        BY <2>3, <3>1, <3>2, <3>3
  <2> QED
      BY <2>2, <2>3
<1>6. Len(t) = Len(s) - 1
  <2>1. Len(s) \in Nat /\ k \in Int
        OBVIOUS
  <2> QED
      BY <1>4, <2>1
<1> QED
    BY <1>4, <1>5, <1>6 DEF t

\* Unlinking a session leaves the others, in order.
LEMMA ListWithout ==
    ASSUME list \in Seq(Ids), \A m, n \in DOMAIN list : list[m] = list[n] => m = n,
           NEW i, Listed(i), list' = Without(list, i)
    PROVE  /\ list' \in Seq(Ids) /\ Len(list') = Len(list) - 1
           /\ \A j : Listed(j)' <=> j # i /\ Listed(j)
           /\ \A m, n \in DOMAIN list' : list'[m] = list'[n] => m = n
<1> DEFINE k == CHOOSE n \in DOMAIN list : list[n] = i
<1>1. k \in DOMAIN list /\ list[k] = i
      BY DEF Listed
<1>2. list' = SubSeq(list, 1, k - 1) \o SubSeq(list, k + 1, Len(list))
      BY DEF Without
<1> HIDE DEF k
<1>3. DOMAIN list = 1 .. Len(list) /\ Len(list) \in Nat /\ k \in 1 .. Len(list)
      BY <1>1
<1>4. /\ list' \in Seq(Ids) /\ Len(list') = Len(list) - 1
      /\ \A n \in 1 .. (Len(list) - 1) : list'[n] = IF n < k THEN list[n] ELSE list[n + 1]
  <2>1. list' = Skipping(list, k)
        BY <1>2 DEF Skipping
  <2>2. /\ Skipping(list, k) \in Seq(Ids) /\ Len(Skipping(list, k)) = Len(list) - 1
        /\ \A n \in 1 .. (Len(list) - 1) :
              Skipping(list, k)[n] = IF n < k THEN list[n] ELSE list[n + 1]
    <3>1. list \in Seq(Ids) /\ k \in 1 .. Len(list)
          BY <1>3
    <3> QED
        BY ONLY <3>1, SkippingProperties
  <2> QED
      BY <2>1, <2>2
<1>5. DOMAIN list' = 1 .. (Len(list) - 1)
      BY <1>4
<1> DEFINE place(n) == IF n < k THEN n ELSE n + 1
<1>6. \A n \in DOMAIN list' : place(n) \in DOMAIN list /\ place(n) # k /\ list'[n] = list[place(n)]
      BY <1>3, <1>4, <1>5
<1>7. \A m \in DOMAIN list : m # k => \E n \in DOMAIN list' : place(n) = m
  <2> SUFFICES ASSUME NEW m \in DOMAIN list, m # k
               PROVE  \E n \in DOMAIN list' : place(n) = m
      OBVIOUS
  <2>1. CASE m < k
        BY <1>3, <1>5, <2>1
  <2>2. CASE m > k
    <3>1. m - 1 \in DOMAIN list' /\ place(m - 1) = m
          BY <1>3, <1>5, <2>2
    <3> QED
        BY <3>1
  <2> QED
      BY <1>3, <2>1, <2>2
<1>8. \A m, n \in DOMAIN list' : place(m) = place(n) => m = n
      BY <1>3, <1>5
<1> HIDE DEF place
<1>9. ASSUME NEW j
      PROVE  Listed(j)' <=> j # i /\ Listed(j)
  <2>1. ASSUME NEW n \in DOMAIN list', list'[n] = j
        PROVE  j # i /\ \E m \in DOMAIN list : list[m] = j
        BY <1>1, <1>6, <2>1
  <2>2. ASSUME NEW m \in DOMAIN list, list[m] = j, j # i
        PROVE  \E n \in DOMAIN list' : list'[n] = j
        BY <1>1, <1>6, <1>7, <2>2
  <2> QED
      BY <2>1, <2>2 DEF Listed
<1>10. \A m, n \in DOMAIN list' : list'[m] = list'[n] => m = n
       BY <1>6, <1>8
<1> QED
    BY <1>4, <1>9, <1>10

\* The head of the list is in it.
LEMMA ListHead ==
    ASSUME list \in Seq(Ids), list # <<>>
    PROVE  Head(list) \in Ids /\ Listed(Head(list)) /\ Head(list) = list[1] /\ 1 \in DOMAIN list
<1>1. Len(list) \in Nat \ {0} /\ DOMAIN list = 1 .. Len(list) /\ Head(list) = list[1]
      BY EmptySeq
<1>2. 1 \in DOMAIN list
      BY <1>1
<1> QED
    BY <1>1, <1>2 DEF Listed

\* Taking the head of the list leaves the others, in order.
LEMMA ListTail ==
    ASSUME list \in Seq(Ids), \A m, n \in DOMAIN list : list[m] = list[n] => m = n,
           list # <<>>, list' = Tail(list)
    PROVE  /\ list' \in Seq(Ids) /\ Head(list) \in Ids /\ Listed(Head(list))
           /\ \A j : Listed(j)' <=> j # Head(list) /\ Listed(j)
           /\ \A m, n \in DOMAIN list' : list'[m] = list'[n] => m = n
<1>1. /\ DOMAIN list = 1 .. Len(list) /\ Len(list) \in Nat \ {0}
      /\ list' \in Seq(Ids) /\ DOMAIN list' = 1 .. (Len(list) - 1)
      /\ Head(list) = list[1] /\ Head(list) \in Ids
      /\ \A n \in 1 .. (Len(list) - 1) : list'[n] = list[n + 1]
      BY HeadTailProperties, EmptySeq
<1>2. \A n \in DOMAIN list' : n + 1 \in DOMAIN list /\ n + 1 # 1 /\ list'[n] = list[n + 1]
      BY <1>1
<1>3. \A m \in DOMAIN list : m = 1 \/ (m - 1 \in DOMAIN list' /\ list'[m - 1] = list[m])
      BY <1>1
<1>4. 1 \in DOMAIN list
      BY <1>1
<1>5. ASSUME NEW j
      PROVE  Listed(j)' <=> j # Head(list) /\ Listed(j)
  <2>1. ASSUME NEW n \in DOMAIN list', list'[n] = j
        PROVE  j # list[1] /\ \E m \in DOMAIN list : list[m] = j
        BY <1>2, <1>4, <2>1
  <2>2. ASSUME NEW m \in DOMAIN list, list[m] = j, j # list[1]
        PROVE  \E n \in DOMAIN list' : list'[n] = j
        BY <1>3, <2>2
  <2> QED
      BY <1>1, <2>1, <2>2 DEF Listed
<1>6. ASSUME NEW m \in DOMAIN list', NEW n \in DOMAIN list', list'[m] = list'[n]
      PROVE  m = n
  <2>1. m + 1 = n + 1
        BY <1>2, <1>6
  <2> QED
      BY <1>1, <2>1
<1> QED
    BY <1>1, <1>4, <1>5, <1>6 DEF Listed

-----------------------------------------------------------------------------
(* The first layers: the types, the list and the count, and who is where.   *)

\* The invariant of the first two layers holds at the start.
LEMMA ListInit == Init => Typed /\ Books /\ Locked
<1> SUFFICES ASSUME Init
             PROVE  Typed /\ Books /\ Locked
    OBVIOUS
<1>1. list = <<>> /\ Len(list) = 0 /\ DOMAIN list = {}
      BY DEF Init
<1>2. Typed
  <2>1. list \in Seq(Ids)
        BY <1>1
  <2>4. count \in Nat /\ nextId \in 1 .. MaxId
        BY SessionAssumption DEF Init
  <2>5. up \in BOOLEAN /\ strayed \in BOOLEAN
        BY DEF Init
  <2>2. /\ sess \in [Ids -> Sessions] /\ thr \in [Threads -> ThreadStates]
        /\ proc \in [Pids -> Processes]
        BY ConstantsTyped DEF Init
  <2>3. exitOf \in [Ids -> Codes \cup {Alive}] /\ mutex \in Threads \cup {NoThread}
        BY DEF Init
  <2> QED
      BY <2>1, <2>2, <2>3, <2>4, <2>5 DEF Typed
<1>3. Books
      BY <1>1, SessionAssumption DEF Init, Books, Listed
<1>4. Locked
      BY SessionAssumption DEF Init, Locked, IdleThread, DestroyPlaces, ManagerPlaces, UnlockedPlaces
<1> QED
    BY <1>2, <1>3, <1>4

\* Every step keeps the variables to their types.
LEMMA TypedStep == Typed /\ Books /\ Locked /\ [Next]_vars => Typed'
<1> SUFFICES ASSUME Typed, Books, Locked, [Next]_vars
             PROVE  Typed'
    OBVIOUS
<1> USE DEF Typed
<1>1. ASSUME NEW t \in Threads, CreateFails(t)
      PROVE  Typed'
      BY <1>1, SessionAssumption DEF CreateFails, Kernel
<1>2. ASSUME NEW t \in Threads, Create(t)
      PROVE  Typed'
  <2>1. nextId \in Ids /\ nextId' \in 1 .. MaxId /\ count' \in Nat
        BY <1>2, SessionAssumption DEF Create, Ids
  <2>2. list' \in Seq(Ids)
        BY <1>2, <2>1, ListCons DEF Create
  <2>3. PICK p \in Pids :
           /\ proc' = [proc EXCEPT ![p] = [NoProc EXCEPT !.status = "running", !.owner = nextId]]
           /\ sess' = [sess EXCEPT ![nextId] = [pid |-> p, state |-> "RUNNING", exitCode |-> 0]]
        BY <1>2 DEF Create
  <2>4. [NoProc EXCEPT !.status = "running", !.owner = nextId] \in Processes
        BY <2>1 DEF NoProc, Processes, Codes
  <2>5. [pid |-> p, state |-> "RUNNING", exitCode |-> 0] \in Sessions
        BY DEF Sessions, States, Codes
  <2>6. proc' \in [Pids -> Processes] /\ sess' \in [Ids -> Sessions]
        BY <2>3, <2>4, <2>5
  <2> QED
      BY <1>2, <2>1, <2>2, <2>6 DEF Create
<1>3. ASSUME NEW t \in Threads, NEW i \in Ids, DestroyBegin(t, i)
      PROVE  Typed'
  <2>1. sess' \in [Ids -> Sessions]
        BY <1>3 DEF DestroyBegin, Sessions, States
  <2>2. proc' \in [Pids -> Processes] /\ strayed' \in BOOLEAN
        BY <1>3, SignalMarks DEF DestroyBegin
  <2>3. thr' \in [Threads -> ThreadStates]
    <3>1. At(t, "destroyFree", i) \in ThreadStates /\ At(t, "destroyPoll", i) \in ThreadStates
          BY ConstantsTyped DEF At, DestroyPlaces
    <3>2. [At(t, "destroyPoll", i) EXCEPT !.left = DestroyPolls] \in ThreadStates
          BY <3>1, SessionAssumption DEF ThreadStates
    <3> QED
        BY <1>3, <3>1, <3>2 DEF DestroyBegin
  <2> QED
      BY <1>3, <2>1, <2>2, <2>3 DEF DestroyBegin
<1>4. ASSUME NEW t \in Threads, DestroyPoll(t)
      PROVE  Typed'
  <2>1. thr' \in [Threads -> ThreadStates]
    <3>1. CASE thr[t].left > 0 /\ Exists(sess[thr[t].id].pid)
      <4>1. thr[t].left - 1 \in Nat
            BY <3>1 DEF ThreadStates
      <4>2. [thr[t] EXCEPT !.left = thr[t].left - 1] \in ThreadStates
            BY <4>1 DEF ThreadStates
      <4> QED
          BY <1>4, <3>1, <4>2 DEF DestroyPoll
    <3>2. CASE ~(thr[t].left > 0 /\ Exists(sess[thr[t].id].pid))
          BY <1>4, <3>2, PlaceTyped DEF DestroyPoll, DestroyPlaces
    <3> QED
        BY <3>1, <3>2
  <2> QED
      BY <1>4, <2>1 DEF DestroyPoll, Kernel
<1>5. ASSUME NEW t \in Threads, DestroyKill(t)
      PROVE  Typed'
  <2>1. thr' \in [Threads -> ThreadStates]
        BY SMTT(20), <1>5 DEF DestroyKill, ThreadStates, DestroyPlaces
  <2>2. thr[t].id \in Ids
        BY <1>5 DEF DestroyKill, Locked, Listed, DestroyPlaces
  <2>3. proc' \in [Pids -> Processes] /\ strayed' \in BOOLEAN
        BY <1>5, <2>2, SignalMarks DEF DestroyKill
  <2> QED
      BY <1>5, <2>1, <2>3 DEF DestroyKill
<1>6. ASSUME NEW t \in Threads, DestroyFree(t)
      PROVE  Typed'
  <2>1. Listed(thr[t].id)
        BY <1>6 DEF DestroyFree, Locked, DestroyPlaces
  <2>2. list' \in Seq(Ids) /\ Len(list') = Len(list) - 1
        BY <1>6, <2>1, ListWithout DEF DestroyFree, Books
  <2>3. count' \in Nat
    <3>1. count = Len(list)
          BY <1>6 DEF DestroyFree, Locked, Books, DestroyPlaces, ManagerPlaces
    <3> QED
        BY <1>6, <2>2, <3>1 DEF DestroyFree
  <2>4. sess' \in [Ids -> Sessions] /\ thr' \in [Threads -> ThreadStates]
        BY <1>6, ConstantsTyped DEF DestroyFree
  <2> QED
      BY <1>6, <2>2, <2>3, <2>4 DEF DestroyFree
<1>7. ASSUME NEW t \in Threads, ManagerDestroy(t)
      PROVE  Typed'
  <2> DEFINE th == [thr[t] EXCEPT !.pc = "managerTerm"]
  <2>1. th \in ThreadStates
        BY DEF ThreadStates, ManagerPlaces
  <2>2. thr' = [thr EXCEPT ![t] = th]
        BY <1>7 DEF ManagerDestroy
  <2> HIDE DEF th
  <2>3. thr' \in [Threads -> ThreadStates]
        BY <2>1, <2>2
  <2> QED
      BY <1>7, <2>3 DEF ManagerDestroy, Kernel
<1>8. ASSUME NEW t \in Threads, ManagerTerm(t)
      PROVE  Typed'
  <2>1. Head(list) \in Ids
        BY <1>8, ListHead DEF ManagerTerm
  <2>2. sess' \in [Ids -> Sessions]
        BY <1>8, <2>1 DEF ManagerTerm, Sessions, States
  <2>3. thr' \in [Threads -> ThreadStates]
        BY ZenonT(40), <1>8 DEF ManagerTerm, ThreadStates, ManagerPlaces
  <2>4. proc' \in [Pids -> Processes] /\ strayed' \in BOOLEAN
        BY <1>8, <2>1, SignalMarks DEF ManagerTerm
  <2> QED
      BY <1>8, <2>2, <2>3, <2>4 DEF ManagerTerm
<1>9. ASSUME NEW t \in Threads, ManagerKill(t)
      PROVE  Typed'
  <2>1. list # <<>> /\ list' = Tail(list)
        BY <1>9 DEF ManagerKill, Locked
  <2>2. Head(list) \in Ids /\ list' \in Seq(Ids)
        BY <2>1, ListTail DEF Books
  <2>3. sess' \in [Ids -> Sessions] /\ thr' \in [Threads -> ThreadStates] /\ exitOf' \in [Ids -> Codes \cup {Alive}]
        BY <1>9, <2>2, ConstantsTyped, PlaceTyped DEF ManagerKill, ManagerPlaces
  <2>4. proc' \in [Pids -> Processes] /\ strayed' \in BOOLEAN
        BY <1>9, <2>2, SignalMarks DEF ManagerKill
  <2> QED
      BY <1>9, <2>2, <2>3, <2>4 DEF ManagerKill
<1>10. ASSUME NEW t \in Threads, ManagerDone(t)
       PROVE  Typed'
       BY <1>10, ConstantsTyped DEF ManagerDone, Kernel
<1>11. ASSUME NEW t \in Threads, NEW i \in Ids, NEW force \in BOOLEAN, Terminate(t, i, force)
       PROVE  Typed'
  <2>1. sess' \in [Ids -> Sessions]
        BY <1>11 DEF Terminate, Sessions, States
  <2>2. thr' \in [Threads -> ThreadStates]
    <3>1. At(t, "mark", i) \in ThreadStates
          BY ConstantsTyped DEF At, UnlockedPlaces
    <3> QED
        BY <1>11, <3>1 DEF Terminate
  <2>3. proc' \in [Pids -> Processes] /\ strayed' \in BOOLEAN
        BY <1>11, SignalMarks DEF Terminate
  <2> QED
      BY <1>11, <2>1, <2>2, <2>3 DEF Terminate
<1>12. ASSUME NEW t \in Threads, TerminateMark(t)
       PROVE  Typed'
  <2>1. sess' \in [Ids -> Sessions]
        BY <1>12 DEF TerminateMark, Sessions, States
  <2> QED
      BY <1>12, <2>1, ConstantsTyped DEF TerminateMark, Kernel
<1>13. ASSUME NEW t \in Threads, NEW i \in Ids, NEW mode \in WaitModes, WaitBegin(t, i, mode)
       PROVE  Typed'
  <2>1. At(t, mode, i) \in ThreadStates
        BY ConstantsTyped, SessionAssumption DEF At, UnlockedPlaces
  <2> QED
      BY <1>13, <2>1 DEF WaitBegin, Kernel
<1>14. ASSUME NEW t \in Threads, WaitPid(t)
       PROVE  Typed'
  <2> DEFINE p == sess[thr[t].id].pid
  <2>1. thr[t].id \in Ids /\ p \in Pids
        BY <1>14 DEF WaitPid, Locked, Books, Listed, UnlockedPlaces
  <2>2. proc[p] \in Processes
        BY <2>1
  <2>3. PICK c \in Codes \cup {NoChild} : thr' = [thr EXCEPT ![t].pc = "record", ![t].code = c]
        BY <1>14, <2>2 DEF WaitPid, Processes
  <2>4. thr' \in [Threads -> ThreadStates]
    <3>1. [thr[t] EXCEPT !.pc = "record", !.code = c] \in ThreadStates
          BY DEF ThreadStates, UnlockedPlaces
    <3> QED
        BY <2>3, <3>1
  <2>5. [NoProc EXCEPT !.status = "gone"] \in Processes
        BY DEF NoProc, Processes, Codes
  <2>6. proc' \in [Pids -> Processes]
        BY <1>14, <2>5 DEF WaitPid, Reap
  <2> QED
      BY <1>14, <2>4, <2>6 DEF WaitPid
<1>15. ASSUME NEW t \in Threads, WaitRecord(t)
       PROVE  Typed'
  <2> DEFINE i == thr[t].id
             c == IF thr[t].code = NoChild THEN sess[i].exitCode ELSE thr[t].code
  <2>1. i \in Ids /\ sess[i] \in Sessions /\ thr[t].code \in Codes \cup {NoChild}
        BY <1>15 DEF WaitRecord, Locked, Listed, UnlockedPlaces, ThreadStates
  <2>2. c \in Codes
        BY <2>1 DEF Sessions
  <2>3. [sess[i] EXCEPT !.state = "TERMINATED", !.exitCode = c] \in Sessions
        BY <2>1, <2>2 DEF Sessions, States
  <2>4. sess' \in [Ids -> Sessions]
        BY <1>15, <2>1, <2>3 DEF WaitRecord
  <2> QED
      BY <1>15, <2>4, ConstantsTyped DEF WaitRecord, Kernel
<1>16. ASSUME NEW p \in Pids, ProcessExit(p)
       PROVE  Typed'
  <2>1. PICK c \in {Exited, 128 + SIGTERM, 128 + SIGKILL} :
           /\ proc' = [proc EXCEPT ![p] = [NoProc EXCEPT !.status = "zombie",
                                                       !.owner = proc[p].owner, !.code = c]]
           /\ exitOf' = IF Listed(proc[p].owner) THEN [exitOf EXCEPT ![proc[p].owner] = c]
                        ELSE exitOf
        BY <1>16, ExitEffect
  <2>2. [NoProc EXCEPT !.status = "zombie", !.owner = proc[p].owner, !.code = c] \in Processes
        BY DEF NoProc, Processes, Codes
  <2>3. proc' \in [Pids -> Processes] /\ exitOf' \in [Ids -> Codes \cup {Alive}]
        BY <2>1, <2>2 DEF Codes
  <2> QED
      BY <1>16, <2>3 DEF ProcessExit
<1>17. CASE UNCHANGED vars
       BY <1>17 DEF vars
<1> QED
    BY <1>1, <1>2, <1>3, <1>4, <1>5, <1>6, <1>7, <1>8, <1>9, <1>10, <1>11, <1>12, <1>13, <1>14,
       <1>15, <1>16, <1>17 DEF Next, Call, InCall

\* Only session numbers are listed, and whether one is depends on the list alone.
LEMMA ListedAreIds ==
    /\ list \in Seq(Ids) => \A j : Listed(j) => j \in Ids /\ j # NoId
    /\ list' = list => \A j : Listed(j)' <=> Listed(j)
<1>1. ASSUME list \in Seq(Ids), NEW j, Listed(j)
      PROVE  j \in Ids /\ j # NoId
  <2>1. PICK n \in DOMAIN list : list[n] = j
        BY <1>1 DEF Listed
  <2>2. j \in Ids
        BY <1>1, <2>1
  <2> QED
      BY <2>2, ConstantsTyped DEF NoId
<1> QED
    BY <1>1 DEF Listed

\* A step that leaves the list, the mutex and the threads alone.
LEMMA PlacesKept == Locked /\ UNCHANGED <<list, mutex, thr>> => Locked'
BY ListedAreIds DEF Locked

\* Every step keeps the mutex with the call that needs it.
LEMMA LockedStep == Typed /\ Books /\ Locked /\ [Next]_vars => Locked'
<1> SUFFICES ASSUME Typed, Books, Locked, [Next]_vars
             PROVE  Locked'
    OBVIOUS
<1> USE DEF DestroyPlaces, ManagerPlaces, UnlockedPlaces
<1>0. /\ list \in Seq(Ids) /\ thr \in [Threads -> ThreadStates]
      /\ \A m, n \in DOMAIN list : list[m] = list[n] => m = n
      /\ \A j : Listed(j) => j \in Ids /\ j # NoId
      BY ListedAreIds DEF Typed, Books
<1>1. ASSUME NEW t \in Threads, CreateFails(t)
      PROVE  Locked'
      BY <1>1, PlacesKept DEF CreateFails
<1>2. ASSUME NEW t \in Threads, Create(t)
      PROVE  Locked'
  <2>1. nextId \in Ids
        BY <1>2, SessionAssumption DEF Create, Ids, Typed
  <2>2. \A j : Listed(j) => Listed(j)'
        BY <1>0, <1>2, <2>1, ListCons DEF Create
  <2>3. UNCHANGED <<thr, mutex>> /\ mutex = NoThread
        BY <1>2 DEF Create
  <2>4. \A u \in Threads : thr[u].pc # "managerKill"
        BY <2>3, SessionAssumption DEF Locked
  <2> QED
      BY <2>2, <2>3, <2>4 DEF Locked
<1>3. ASSUME NEW t \in Threads, NEW i \in Ids, DestroyBegin(t, i)
      PROVE  Locked'
  <2>1. /\ thr[t] = IdleThread /\ mutex = NoThread /\ mutex' = t /\ Listed(i)
        /\ \A u \in Threads : thr[u].id # i
        /\ \A j : Listed(j)' <=> Listed(j)
        BY <1>3, ListedAreIds DEF DestroyBegin, MayBegin, Busy
  <2>2. /\ thr'[t].pc \in {"destroyPoll", "destroyFree"} /\ thr'[t].id = i
        /\ \A u \in Threads \ {t} : thr'[u] = thr[u]
        BY <1>0, <1>3 DEF DestroyBegin, At, IdleThread
  <2>3. \A u \in Threads : thr[u].pc \notin DestroyPlaces \cup ManagerPlaces
        BY <2>1, SessionAssumption DEF Locked
  <2> QED
      BY <2>1, <2>2, <2>3 DEF Locked
<1>4. ASSUME NEW t \in Threads, DestroyPoll(t)
      PROVE  Locked'
  <2>1. /\ thr[t].pc = "destroyPoll"
        /\ thr'[t].pc \in {"destroyPoll", "destroyKill"} /\ thr'[t].id = thr[t].id
        /\ \A u \in Threads \ {t} : thr'[u] = thr[u]
        /\ mutex' = mutex /\ \A j : Listed(j)' <=> Listed(j)
        BY <1>0, <1>4, ListedAreIds DEF DestroyPoll, ThreadStates
  <2> QED
      BY <2>1 DEF Locked, IdleThread
<1>5. ASSUME NEW t \in Threads, DestroyKill(t)
      PROVE  Locked'
  <2>1. /\ thr[t].pc = "destroyKill"
        /\ thr'[t].pc = "destroyFree" /\ thr'[t].id = thr[t].id
        /\ \A u \in Threads \ {t} : thr'[u] = thr[u]
        /\ mutex' = mutex /\ \A j : Listed(j)' <=> Listed(j)
        BY <1>0, <1>5, ListedAreIds DEF DestroyKill, ThreadStates
  <2> QED
      BY <2>1 DEF Locked, IdleThread
<1>6. ASSUME NEW t \in Threads, DestroyFree(t)
      PROVE  Locked'
  <2>1. /\ thr[t].pc = "destroyFree" /\ thr'[t] = IdleThread
        /\ \A u \in Threads \ {t} : thr'[u] = thr[u]
        /\ mutex = t /\ mutex' = NoThread
        BY <1>0, <1>6 DEF DestroyFree, Locked
  <2>2. \A j : Listed(j)' <=> j # thr[t].id /\ Listed(j)
        BY <1>0, <1>6, ListWithout DEF DestroyFree, Locked
  <2>3. \A u \in Threads \ {t} : thr[u].pc \notin DestroyPlaces \cup ManagerPlaces
        BY <2>1 DEF Locked
  <2>4. \A u \in Threads \ {t} : thr[u].id # thr[t].id
        BY <2>1 DEF Locked
  <2> QED
      BY <2>1, <2>2, <2>3, <2>4, SessionAssumption DEF Locked, IdleThread
<1>7. ASSUME NEW t \in Threads, ManagerDestroy(t)
      PROVE  Locked'
  <2>1. /\ \A u \in Threads : thr[u] = IdleThread
        /\ thr'[t].pc = "managerTerm" /\ thr'[t].id = NoId
        /\ \A u \in Threads \ {t} : thr'[u] = thr[u]
        /\ mutex = NoThread /\ mutex' = t
        BY <1>0, <1>7 DEF ManagerDestroy, ThreadStates, IdleThread
  <2> QED
      BY <2>1, SessionAssumption DEF Locked, IdleThread
<1>8. ASSUME NEW t \in Threads, ManagerTerm(t)
      PROVE  Locked'
  <2>1. /\ thr[t].pc = "managerTerm" /\ list # <<>> /\ list' = list
        /\ thr'[t].pc = "managerKill" /\ thr'[t].id = thr[t].id
        /\ \A u \in Threads \ {t} : thr'[u] = thr[u]
        /\ mutex' = mutex
        BY <1>0, <1>8 DEF ManagerTerm, ThreadStates
  <2> QED
      BY <2>1 DEF Locked, IdleThread
<1>9. ASSUME NEW t \in Threads, ManagerKill(t)
      PROVE  Locked'
  <2>1. /\ thr[t].pc = "managerKill"
        /\ thr'[t].pc = "managerTerm" /\ thr'[t].id = thr[t].id
        /\ \A u \in Threads \ {t} : thr'[u] = thr[u]
        /\ mutex' = mutex
        BY <1>0, <1>9 DEF ManagerKill, ThreadStates
  <2>2. \A u \in Threads \ {t} : thr'[u] = IdleThread
        BY <2>1 DEF Locked
  <2> QED
      BY <2>1, <2>2 DEF Locked, IdleThread
<1>10. ASSUME NEW t \in Threads, ManagerDone(t)
       PROVE  Locked'
  <2>1. /\ thr[t].pc = "managerTerm" /\ thr'[t] = IdleThread
        /\ \A u \in Threads \ {t} : thr'[u] = thr[u]
        /\ mutex' = NoThread
        BY <1>0, <1>10 DEF ManagerDone
  <2>2. \A u \in Threads : thr'[u] = IdleThread
        BY <2>1 DEF Locked
  <2> QED
      BY <2>1, <2>2, SessionAssumption DEF Locked, IdleThread
<1>11. ASSUME NEW t \in Threads, NEW i \in Ids, NEW force \in BOOLEAN, Terminate(t, i, force)
       PROVE  Locked'
  <2>1. UNCHANGED <<list, mutex>> /\ thr[t] = IdleThread /\ MayBegin(t) /\ Listed(i)
        BY <1>11 DEF Terminate, MayBegin
  <2>2. CASE UNCHANGED thr
        BY <2>1, <2>2, PlacesKept
  <2>3. CASE thr' = [thr EXCEPT ![t] = At(t, "mark", i)]
    <3>1. thr'[t].pc = "mark" /\ thr'[t].id = i /\ \A u \in Threads \ {t} : thr'[u] = thr[u]
          BY <1>0, <2>3 DEF At, IdleThread
    <3>2. \A u \in Threads : thr[u].pc \in DestroyPlaces => thr[u].id # i
          BY <1>11 DEF Terminate, BeingDestroyed, Locked
    <3> QED
        BY <2>1, <3>1, <3>2, ListedAreIds DEF Locked, MayBegin, IdleThread
  <2> QED
      BY <1>0, <1>11, <2>2, <2>3 DEF Terminate
<1>12. ASSUME NEW t \in Threads, TerminateMark(t)
       PROVE  Locked'
  <2>1. /\ thr[t].pc = "mark" /\ thr'[t] = IdleThread
        /\ \A u \in Threads \ {t} : thr'[u] = thr[u]
        /\ mutex' = mutex /\ list' = list
        BY <1>0, <1>12 DEF TerminateMark
  <2> QED
      BY <1>0, <2>1, ListedAreIds DEF Locked, IdleThread
<1>13. ASSUME NEW t \in Threads, NEW i \in Ids, NEW mode \in WaitModes, WaitBegin(t, i, mode)
       PROVE  Locked'
  <2>1. UNCHANGED <<list, mutex>> /\ thr[t] = IdleThread /\ MayBegin(t) /\ Listed(i)
        BY <1>13 DEF WaitBegin, MayBegin
  <2>2. /\ thr'[t].pc \in {"block", "poll"} /\ thr'[t].id = i
        /\ \A u \in Threads \ {t} : thr'[u] = thr[u]
        BY <1>0, <1>13, SessionAssumption DEF WaitBegin, At, IdleThread
  <2>3. \A u \in Threads : thr[u].pc \in DestroyPlaces => thr[u].id # i
        BY <1>13 DEF WaitBegin, BeingDestroyed, Locked
  <2> QED
      BY <2>1, <2>2, <2>3, ListedAreIds DEF Locked, MayBegin, IdleThread
<1>14. ASSUME NEW t \in Threads, WaitPid(t)
       PROVE  Locked'
  <2>1. /\ thr[t].pc \in {"block", "poll"} /\ thr'[t].pc = "record" /\ thr'[t].id = thr[t].id
        /\ \A u \in Threads \ {t} : thr'[u] = thr[u]
        /\ mutex' = mutex /\ list' = list
        BY <1>0, <1>14 DEF WaitPid, ThreadStates
  <2> QED
      BY <2>1, ListedAreIds DEF Locked, IdleThread
<1>15. ASSUME NEW t \in Threads, WaitRecord(t)
       PROVE  Locked'
  <2>1. /\ thr[t].pc = "record" /\ thr'[t] = IdleThread
        /\ \A u \in Threads \ {t} : thr'[u] = thr[u]
        /\ mutex' = mutex /\ list' = list
        BY <1>0, <1>15 DEF WaitRecord
  <2> QED
      BY <1>0, <2>1, ListedAreIds DEF Locked, IdleThread
<1>16. ASSUME NEW p \in Pids, ProcessExit(p)
       PROVE  Locked'
       BY <1>16, PlacesKept DEF ProcessExit
<1>17. CASE UNCHANGED vars
       BY <1>17, PlacesKept DEF vars
<1> QED
    BY <1>1, <1>2, <1>3, <1>4, <1>5, <1>6, <1>7, <1>8, <1>9, <1>10, <1>11, <1>12, <1>13, <1>14,
       <1>15, <1>16, <1>17 DEF Next, Call, InCall

\* A step that changes neither the list nor the counters, nor which process is whose, and
\* begins no destruction of the manager.
LEMMA BooksKept ==
    Books /\ UNCHANGED <<list, count>> /\ nextId \in Nat /\ nextId' \in Nat /\ nextId <= nextId'
          /\ list \in Seq(Ids)
          /\ (\A i \in Ids : Listed(i) => sess'[i].pid = sess[i].pid)
          /\ (\A t \in Threads : thr[t].pc \in ManagerPlaces => thr'[t].pc \in ManagerPlaces)
        => Books'
<1> SUFFICES ASSUME Books, UNCHANGED <<list, count>>, nextId \in Nat, nextId' \in Nat,
                    nextId <= nextId', list \in Seq(Ids),
                    \A i \in Ids : Listed(i) => sess'[i].pid = sess[i].pid,
                    \A t \in Threads : thr[t].pc \in ManagerPlaces => thr'[t].pc \in ManagerPlaces
             PROVE  Books'
    OBVIOUS
<1>1. \A n \in DOMAIN list : list'[n] < nextId'
  <2> TAKE n \in DOMAIN list
  <2>1. list[n] \in Ids /\ list[n] < nextId
        BY DEF Books
  <2>2. list[n] \in Nat
        BY <2>1, ConstantsTyped
  <2> QED
      BY <2>1, <2>2
<1>2. (\A t \in Threads : thr'[t].pc \notin ManagerPlaces) => count' = Len(list')
      BY DEF Books
<1> QED
    BY <1>1, <1>2, ListedAreIds DEF Books

\* Every step keeps the list and the count together.
LEMMA BooksStep == Typed /\ Books /\ Locked /\ [Next]_vars => Books'
<1> SUFFICES ASSUME Typed, Books, Locked, [Next]_vars
             PROVE  Books'
    OBVIOUS
<1> USE DEF DestroyPlaces, ManagerPlaces, UnlockedPlaces
<1>0. /\ list \in Seq(Ids) /\ thr \in [Threads -> ThreadStates] /\ nextId \in Nat /\ count \in Nat
      /\ sess \in [Ids -> Sessions]
      /\ \A m, n \in DOMAIN list : list[m] = list[n] => m = n
      /\ \A j : Listed(j) => j \in Ids /\ j # NoId
      BY ListedAreIds DEF Typed, Books
<1>1. ASSUME NEW t \in Threads, CreateFails(t)
      PROVE  Books'
      BY <1>0, <1>1, BooksKept DEF CreateFails
<1>2. ASSUME NEW t \in Threads, Create(t)
      PROVE  Books'
  <2>1. nextId \in Ids /\ nextId' = nextId + 1
        BY <1>0, <1>2, SessionAssumption DEF Create, Ids, Typed
  <2>2. \A n \in DOMAIN list : list[n] \in Nat /\ list[n] < nextId
    <3> TAKE n \in DOMAIN list
    <3>1. list[n] \in Ids /\ list[n] < nextId
          BY <1>0 DEF Books
    <3> QED
        BY <3>1, ConstantsTyped
  <2>3. ~Listed(nextId)
        BY <1>0, <2>2 DEF Listed
  <2>4. /\ list' \in Seq(Ids) /\ Len(list') = Len(list) + 1
        /\ \A j : Listed(j)' <=> j = nextId \/ Listed(j)
        /\ \A m, n \in DOMAIN list' : list'[m] = list'[n] => m = n
        BY <1>0, <1>2, <2>1, <2>3, ListCons DEF Create
  <2>5. \A n \in DOMAIN list' : list'[n] < nextId'
    <3> TAKE n \in DOMAIN list'
    <3>1. list'[n] = nextId \/ \E m \in DOMAIN list : list[m] = list'[n]
          BY <2>4 DEF Listed
    <3> QED
        BY <1>0, <2>1, <2>2, <3>1
  <2>6. count' = count + 1 /\ count < MaxSessions /\ thr' = thr
        BY <1>2 DEF Create
  <2>7. count' <= MaxSessions
        BY <1>0, <2>6, SessionAssumption
  <2>8. (\A u \in Threads : thr'[u].pc \notin ManagerPlaces) => count' = Len(list')
        BY <2>4, <2>6 DEF Books
  <2>9. \A i \in Ids : Listed(i)' => sess'[i].pid \in Pids
    <3> SUFFICES ASSUME NEW i \in Ids, Listed(i)'
                 PROVE  sess'[i].pid \in Pids
        OBVIOUS
    <3>1. PICK p \in Pids : sess' = [sess EXCEPT ![nextId] = [pid |-> p, state |-> "RUNNING", exitCode |-> 0]]
          BY <1>2 DEF Create
    <3>2. CASE i = nextId
          BY <1>0, <3>1, <3>2
    <3>3. CASE i # nextId
          BY <1>0, <2>4, <3>1, <3>3 DEF Books
    <3> QED
        BY <3>2, <3>3
  <2> QED
      BY <2>4, <2>5, <2>7, <2>8, <2>9 DEF Books
<1>3. ASSUME NEW t \in Threads, NEW i \in Ids, DestroyBegin(t, i)
      PROVE  Books'
  <2>1. \A j \in Ids : sess'[j].pid = sess[j].pid
        BY <1>0, <1>3 DEF DestroyBegin, Sessions
  <2>2. \A u \in Threads : thr[u].pc \notin ManagerPlaces
        BY <1>3, SessionAssumption DEF DestroyBegin, Locked
  <2> QED
      BY <1>0, <1>3, <2>1, <2>2, BooksKept DEF DestroyBegin
<1>4. ASSUME NEW t \in Threads, DestroyPoll(t)
      PROVE  Books'
  <2>1. thr[t].pc \notin ManagerPlaces /\ \A u \in Threads \ {t} : thr'[u] = thr[u]
        BY <1>0, <1>4 DEF DestroyPoll
  <2> QED
      BY <1>0, <1>4, <2>1, BooksKept DEF DestroyPoll
<1>5. ASSUME NEW t \in Threads, DestroyKill(t)
      PROVE  Books'
  <2>1. thr[t].pc \notin ManagerPlaces /\ \A u \in Threads \ {t} : thr'[u] = thr[u]
        BY <1>0, <1>5 DEF DestroyKill
  <2> QED
      BY <1>0, <1>5, <2>1, BooksKept DEF DestroyKill
<1>6. ASSUME NEW t \in Threads, DestroyFree(t)
      PROVE  Books'
  <2> DEFINE i == thr[t].id
  <2>1. /\ thr[t].pc = "destroyFree" /\ count' = count - 1 /\ nextId' = nextId
        /\ list' = Without(list, i) /\ sess' = [sess EXCEPT ![i] = NoSession]
        BY <1>6 DEF DestroyFree
  <2>2. Listed(i) /\ \A u \in Threads : thr[u].pc \notin ManagerPlaces
        BY <2>1, SessionAssumption DEF Locked
  <2>3. /\ list' \in Seq(Ids) /\ Len(list') = Len(list) - 1
        /\ \A j : Listed(j)' <=> j # i /\ Listed(j)
        /\ \A m, n \in DOMAIN list' : list'[m] = list'[n] => m = n
        BY <1>0, <2>1, <2>2, ListWithout
  <2>4. \A n \in DOMAIN list' : list'[n] < nextId'
    <3> TAKE n \in DOMAIN list'
    <3>1. \E m \in DOMAIN list : list[m] = list'[n]
          BY <2>3 DEF Listed
    <3> QED
        BY <2>1, <3>1 DEF Books
  <2>5. count' = Len(list') /\ count' <= MaxSessions
        BY <1>0, <2>1, <2>2, <2>3, SessionAssumption DEF Books
  <2>6. \A j \in Ids : Listed(j)' => sess'[j].pid \in Pids
        BY <1>0, <2>1, <2>3 DEF Books
  <2> QED
      BY <2>3, <2>4, <2>5, <2>6 DEF Books
<1>7. ASSUME NEW t \in Threads, ManagerDestroy(t)
      PROVE  Books'
  <2>1. \A u \in Threads : thr[u].pc \notin ManagerPlaces
        BY <1>7, SessionAssumption DEF ManagerDestroy, Locked
  <2> QED
      BY <1>0, <1>7, <2>1, BooksKept DEF ManagerDestroy
<1>8. ASSUME NEW t \in Threads, ManagerTerm(t)
      PROVE  Books'
  <2>1. \A j \in Ids : sess'[j].pid = sess[j].pid
        BY <1>0, <1>8 DEF ManagerTerm, Sessions
  <2>2. thr'[t].pc \in ManagerPlaces /\ \A u \in Threads \ {t} : thr'[u] = thr[u]
        BY <1>0, <1>8 DEF ManagerTerm, ThreadStates
  <2> QED
      BY <1>0, <1>8, <2>1, <2>2, BooksKept DEF ManagerTerm
<1>9. ASSUME NEW t \in Threads, ManagerKill(t)
      PROVE  Books'
  <2>1. list # <<>> /\ list' = Tail(list) /\ sess' = [sess EXCEPT ![Head(list)] = NoSession]
        BY <1>9 DEF ManagerKill, Locked
  <2>2. /\ list' \in Seq(Ids)
        /\ \A j : Listed(j)' <=> j # Head(list) /\ Listed(j)
        /\ \A m, n \in DOMAIN list' : list'[m] = list'[n] => m = n
        BY <1>0, <2>1, ListTail
  <2>3. thr'[t].pc \in ManagerPlaces /\ UNCHANGED <<count, nextId>>
        BY <1>0, <1>9 DEF ManagerKill, ThreadStates
  <2>4. \A n \in DOMAIN list' : list'[n] < nextId'
    <3> TAKE n \in DOMAIN list'
    <3>1. \E m \in DOMAIN list : list[m] = list'[n]
          BY <2>2 DEF Listed
    <3> QED
        BY <2>3, <3>1 DEF Books
  <2>5. \A j \in Ids : Listed(j)' => sess'[j].pid \in Pids
        BY <1>0, <2>1, <2>2 DEF Books
  <2> QED
      BY <2>2, <2>3, <2>4, <2>5 DEF Books
<1>10. ASSUME NEW t \in Threads, ManagerDone(t)
       PROVE  Books'
  <2>1. list = <<>> /\ UNCHANGED <<list, nextId, sess>> /\ count' = 0
        BY <1>10 DEF ManagerDone
  <2>2. DOMAIN list' = {} /\ Len(list') = 0 /\ ~\E j : Listed(j)'
        BY <2>1 DEF Listed
  <2> QED
      BY <2>1, <2>2, SessionAssumption DEF Books
<1>11. ASSUME NEW t \in Threads, NEW i \in Ids, NEW force \in BOOLEAN, Terminate(t, i, force)
       PROVE  Books'
  <2>1. \A j \in Ids : sess'[j].pid = sess[j].pid
        BY <1>0, <1>11 DEF Terminate, Sessions
  <2>2. \A u \in Threads : thr[u].pc \in ManagerPlaces => thr'[u] = thr[u]
        BY <1>0, <1>11 DEF Terminate, MayBegin, IdleThread
  <2> QED
      BY <1>0, <1>11, <2>1, <2>2, BooksKept DEF Terminate
<1>12. ASSUME NEW t \in Threads, TerminateMark(t)
       PROVE  Books'
  <2>1. \A j \in Ids : sess'[j].pid = sess[j].pid
        BY <1>0, <1>12 DEF TerminateMark, Sessions
  <2>2. \A u \in Threads : thr[u].pc \in ManagerPlaces => thr'[u] = thr[u]
        BY <1>0, <1>12 DEF TerminateMark
  <2> QED
      BY <1>0, <1>12, <2>1, <2>2, BooksKept DEF TerminateMark
<1>13. ASSUME NEW t \in Threads, NEW i \in Ids, NEW mode \in WaitModes, WaitBegin(t, i, mode)
       PROVE  Books'
  <2>1. \A u \in Threads : thr[u].pc \in ManagerPlaces => thr'[u] = thr[u]
        BY <1>0, <1>13 DEF WaitBegin, MayBegin, IdleThread
  <2> QED
      BY <1>0, <1>13, <2>1, BooksKept DEF WaitBegin
<1>14. ASSUME NEW t \in Threads, WaitPid(t)
       PROVE  Books'
  <2>1. \A u \in Threads : thr[u].pc \in ManagerPlaces => thr'[u] = thr[u]
        BY <1>0, <1>14 DEF WaitPid
  <2> QED
      BY <1>0, <1>14, <2>1, BooksKept DEF WaitPid
<1>15. ASSUME NEW t \in Threads, WaitRecord(t)
       PROVE  Books'
  <2>1. \A j \in Ids : sess'[j].pid = sess[j].pid
        BY <1>0, <1>15 DEF WaitRecord, Sessions
  <2>2. \A u \in Threads : thr[u].pc \in ManagerPlaces => thr'[u] = thr[u]
        BY <1>0, <1>15 DEF WaitRecord
  <2> QED
      BY <1>0, <1>15, <2>1, <2>2, BooksKept DEF WaitRecord
<1>16. ASSUME NEW p \in Pids, ProcessExit(p)
       PROVE  Books'
       BY <1>0, <1>16, BooksKept DEF ProcessExit
<1>17. CASE UNCHANGED vars
       BY <1>0, <1>17, BooksKept DEF vars
<1> QED
    BY <1>1, <1>2, <1>3, <1>4, <1>5, <1>6, <1>7, <1>8, <1>9, <1>10, <1>11, <1>12, <1>13, <1>14,
       <1>15, <1>16, <1>17 DEF Next, Call, InCall

\* The session manager's list and count are right whenever the mutex is free
\* (md_manager_get_session_count, md_manager_get_session_ids).
THEOREM SessionsCounted == Spec => []CountMatchesList
<1>1. Typed /\ Books /\ Locked => CountMatchesList
      BY SessionAssumption DEF Books, Locked, CountMatchesList, Typed
<1> QED
    BY <1>1, ListInit, TypedStep, BooksStep, LockedStep, PTL DEF Spec

-----------------------------------------------------------------------------
(* Owned: whose process is whose.                                           *)

LEMMA OwnedInit == Init => Owned
BY DEF Init, Owned, DestroyedIsKilled, NoProc, IdleThread

\* Owned survives a step that ends no process's mark and lists the same sessions, if the
\* thread that may now free its session has killed the process.
LEMMA OwnedKept ==
    ASSUME Owned, nextId \in Nat, nextId' \in Nat, nextId <= nextId', Ids \subseteq Nat,
           \A p \in Pids : proc'[p].status = "running" =>
               /\ proc[p].status = "running" /\ proc'[p].owner = proc[p].owner
               /\ proc[p].killed => proc'[p].killed,
           \A i \in Ids : Listed(i)' => Listed(i) /\ sess'[i].pid = sess[i].pid,
           \A i \in Ids : Listed(i) /\ ~Listed(i)' =>
               \A p \in Pids : proc'[p].status = "running" /\ proc'[p].owner = i => proc'[p].killed,
           \A t \in Threads : thr'[t].pc = "destroyFree" =>
               \/ thr[t].pc = "destroyFree" /\ thr'[t].id = thr[t].id
               \/ \A p \in Pids : proc'[p].status = "running" /\ proc'[p].owner = thr'[t].id
                                    => proc'[p].killed
    PROVE  Owned'
<1>1. ASSUME NEW p \in Pids, proc'[p].status = "running"
      PROVE  /\ proc'[p].owner \in Ids /\ proc'[p].owner < nextId'
             /\ Listed(proc[p].owner)' => sess'[proc'[p].owner].pid = p
             /\ proc'[p].killed \/ Listed(proc[p].owner)'
  <2>1. /\ proc[p].status = "running" /\ proc'[p].owner = proc[p].owner
        /\ proc[p].killed => proc'[p].killed
        BY <1>1
  <2>2. /\ proc[p].owner \in Ids /\ proc[p].owner < nextId
        /\ Listed(proc[p].owner) => sess[proc[p].owner].pid = p
        /\ proc[p].killed \/ Listed(proc[p].owner)
        BY <2>1 DEF Owned, DestroyedIsKilled
  <2>3. PICK i \in Ids : i = proc[p].owner /\ i = proc'[p].owner
        BY <2>1, <2>2
  <2>4. i \in Nat /\ i < nextId
        BY <2>2, <2>3
  <2>5. i < nextId'
        BY <2>4
  <2>6. Listed(i)' => sess'[i].pid = p
        BY <2>2, <2>3
  <2>7. proc'[p].killed \/ Listed(i)'
        BY <1>1, <2>1, <2>2, <2>3
  <2>8. Listed(i)' <=> Listed(proc[p].owner)'
        BY <2>3
  <2> QED
      BY <2>3, <2>5, <2>6, <2>7, <2>8
<1>2. ASSUME NEW t \in Threads, thr'[t].pc = "destroyFree",
             NEW p \in Pids, proc'[p].status = "running", proc'[p].owner = thr'[t].id
      PROVE  proc'[p].killed
      BY <1>2 DEF Owned
<1>3. DestroyedIsKilled'
      BY <1>1 DEF DestroyedIsKilled
<1> QED
    BY <1>1, <1>2, <1>3 DEF Owned

\* Every step keeps the processes with their sessions.
LEMMA OwnedStep ==
    Typed /\ Books /\ Locked /\ Owned /\ [Next]_vars /\ Typed' => Owned'
<1> SUFFICES ASSUME Typed, Books, Locked, Owned, [Next]_vars, Typed'
             PROVE  Owned'
    OBVIOUS
<1>0. /\ list \in Seq(Ids) /\ thr \in [Threads -> ThreadStates] /\ nextId \in Nat /\ nextId' \in Nat
      /\ sess \in [Ids -> Sessions] /\ proc \in [Pids -> Processes] /\ Ids \subseteq Nat
      /\ \A m, n \in DOMAIN list : list[m] = list[n] => m = n
      /\ \A j : Listed(j) => j \in Ids /\ j # NoId
  <2>1. Ids \subseteq Nat
        BY ConstantsTyped
  <2>2. list \in Seq(Ids) /\ nextId \in 1 .. MaxId /\ (nextId \in 1 .. MaxId)'
        BY DEF Typed
  <2>3. nextId \in Nat /\ nextId' \in Nat
        BY <2>2, SessionAssumption
  <2> QED
      BY <2>1, <2>2, <2>3, ListedAreIds DEF Typed, Books
<1>1. ASSUME NEW t \in Threads, CreateFails(t)
      PROVE  Owned'
  <2>1. /\ nextId <= nextId' /\ UNCHANGED <<list, sess, thr, proc>>
        /\ \A j : Listed(j)' <=> Listed(j)
        BY <1>0, <1>1, ListedAreIds DEF CreateFails, Kernel
  <2> QED
      BY <1>0, <2>1, OwnedKept
<1>2. ASSUME NEW t \in Threads, Create(t)
      PROVE  Owned'
  <2>1. nextId \in Ids /\ nextId' = nextId + 1 /\ UNCHANGED thr /\ mutex = NoThread
        BY <1>0, <1>2, SessionAssumption DEF Create, Ids, Typed
  <2>2. \A j : Listed(j)' <=> j = nextId \/ Listed(j)
        BY <1>0, <1>2, <2>1, ListCons DEF Create
  <2>3. PICK p \in Pids :
           /\ proc[p].status # "running"
           /\ proc' = [proc EXCEPT ![p] = [NoProc EXCEPT !.status = "running", !.owner = nextId]]
           /\ sess' = [sess EXCEPT ![nextId] = [pid |-> p, state |-> "RUNNING", exitCode |-> 0]]
        BY <1>2 DEF Create
  <2>4. /\ proc'[p].status = "running" /\ proc'[p].owner = nextId /\ sess'[nextId].pid = p
        /\ \A q \in Pids \ {p} : proc'[q] = proc[q]
        /\ \A i \in Ids \ {nextId} : sess'[i] = sess[i]
        BY <1>0, <2>1, <2>3 DEF NoProc
  <2>5. ASSUME NEW q \in Pids, proc'[q].status = "running"
        PROVE  /\ proc'[q].owner \in Ids /\ proc'[q].owner < nextId'
               /\ Listed(proc[q].owner)' => sess'[proc'[q].owner].pid = q
               /\ proc'[q].killed \/ Listed(proc[q].owner)'
    <3>1. CASE q = p
      <4>1. proc'[q].owner = nextId /\ sess'[nextId].pid = q /\ nextId < nextId'
            BY <1>0, <2>1, <2>4, <3>1
      <4>2. Listed(proc[q].owner)'
            BY <2>2, <4>1 DEF Listed
      <4> QED
          BY <2>1, <4>1, <4>2
    <3>2. CASE q # p
      <4>1. /\ proc[q].owner \in Ids /\ proc[q].owner < nextId
            /\ Listed(proc[q].owner) => sess[proc[q].owner].pid = q
            /\ proc[q].killed \/ Listed(proc[q].owner)
            BY <2>4, <2>5, <3>2 DEF Owned, DestroyedIsKilled
      <4>2. PICK i \in Ids : i = proc[q].owner /\ i = proc'[q].owner
            BY <2>4, <3>2, <4>1
      <4>3. i \in Nat /\ i < nextId
            BY <1>0, <4>1, <4>2
      <4>4. i # nextId /\ i < nextId'
            BY <1>0, <2>1, <4>3
      <4>5. Listed(i)' <=> Listed(i)
            BY <2>2, <4>4
      <4>6. Listed(i)' <=> Listed(proc[q].owner)'
            BY <4>2
      <4>7. Listed(i)' => sess'[i].pid = q
            BY <2>4, <4>1, <4>2, <4>4, <4>5
      <4>8. proc'[q].killed \/ Listed(i)'
            BY <2>4, <3>2, <4>1, <4>2, <4>5
      <4> QED
          BY <4>2, <4>4, <4>6, <4>7, <4>8
    <3> QED
        BY <3>1, <3>2
  <2>6. \A u \in Threads : thr'[u].pc # "destroyFree"
        BY <2>1, SessionAssumption DEF Locked, DestroyPlaces
  <2> QED
      BY <2>5, <2>6 DEF Owned, DestroyedIsKilled
<1>3. ASSUME NEW t \in Threads, NEW i \in Ids, DestroyBegin(t, i)
      PROVE  Owned'
  <2>1. /\ UNCHANGED <<list, nextId>> /\ mutex = NoThread /\ Listed(i)
        /\ \A j : Listed(j)' <=> Listed(j)
        /\ \A j \in Ids : sess'[j].pid = sess[j].pid
        BY <1>0, <1>3, ListedAreIds DEF DestroyBegin, Sessions
  <2>2. \A p \in Pids : /\ proc'[p].status = proc[p].status /\ proc'[p].owner = proc[p].owner
                        /\ proc[p].killed => proc'[p].killed
        BY <1>3, SignalMarks DEF DestroyBegin
  <2>3. \A u \in Threads : thr[u].pc # "destroyFree"
        BY <2>1, SessionAssumption DEF Locked, DestroyPlaces
  <2>4. ASSUME NEW u \in Threads, thr'[u].pc = "destroyFree", NEW p \in Pids,
               proc'[p].status = "running", proc'[p].owner = thr'[u].id
        PROVE  FALSE
    <3>0. \/ thr' = [thr EXCEPT ![t] = [At(t, "destroyPoll", i) EXCEPT !.left = DestroyPolls]]
          \/ ~Exists(sess[i].pid) /\ thr' = [thr EXCEPT ![t] = At(t, "destroyFree", i)]
          BY <1>3 DEF DestroyBegin
    <3>1. u = t /\ ~Exists(sess[i].pid) /\ thr'[u].id = i
          BY <1>0, <2>3, <2>4, <3>0 DEF At, IdleThread
    <3>2. proc[p].status = "running" /\ proc[p].owner = i
          BY <2>2, <2>4, <3>1
    <3>3. sess[i].pid = p
          BY <2>1, <3>2 DEF Owned
    <3> QED
        BY <3>1, <3>2, <3>3 DEF Exists
  <2> QED
      BY <1>0, <2>1, <2>2, <2>4, OwnedKept
<1>4. ASSUME NEW t \in Threads, DestroyPoll(t)
      PROVE  Owned'
  <2>1. /\ UNCHANGED <<nextId, sess, proc>> /\ \A j : Listed(j)' <=> Listed(j)
        /\ \A u \in Threads : thr'[u].pc = "destroyFree" => thr'[u] = thr[u]
        BY <1>0, <1>4, ListedAreIds DEF DestroyPoll, Kernel, ThreadStates
  <2> QED
      BY <1>0, <2>1, OwnedKept
<1>5. ASSUME NEW t \in Threads, DestroyKill(t)
      PROVE  Owned'
  <2> DEFINE i == thr[t].id
  <2>1. /\ UNCHANGED <<list, nextId, sess>> /\ \A j : Listed(j)' <=> Listed(j)
        /\ thr'[t].id = i /\ \A u \in Threads \ {t} : thr'[u] = thr[u]
        BY <1>0, <1>5, ListedAreIds DEF DestroyKill, ThreadStates
  <2>2. Listed(i)
        BY <1>5 DEF DestroyKill, Locked, DestroyPlaces
  <2>3. \A p \in Pids : /\ proc'[p].status = proc[p].status /\ proc'[p].owner = proc[p].owner
                        /\ proc[p].killed => proc'[p].killed
                        /\ p = sess[i].pid /\ proc[p].status = "running" => proc'[p].killed
        BY <1>0, <1>5, <2>2, SignalMarks DEF DestroyKill, Exists
  <2>4. ASSUME NEW p \in Pids, proc'[p].status = "running", proc'[p].owner = i
        PROVE  proc'[p].killed
    <3>1. proc[p].status = "running" /\ proc[p].owner = i
          BY <2>3, <2>4
    <3>2. sess[i].pid = p
          BY <2>2, <3>1 DEF Owned
    <3> QED
        BY <2>3, <3>1, <3>2
  <2> QED
      BY <1>0, <2>1, <2>3, <2>4, OwnedKept
<1>6. ASSUME NEW t \in Threads, DestroyFree(t)
      PROVE  Owned'
  <2> DEFINE i == thr[t].id
  <2>1. /\ thr[t].pc = "destroyFree" /\ UNCHANGED <<nextId, proc>> /\ i \in Ids
        /\ \A j \in Ids \ {i} : sess'[j] = sess[j]
        /\ thr'[t] = IdleThread /\ \A u \in Threads \ {t} : thr'[u] = thr[u]
        BY <1>0, <1>6 DEF DestroyFree, Locked, DestroyPlaces
  <2>2. \A j : Listed(j)' <=> j # i /\ Listed(j)
        BY <1>0, <1>6, ListWithout DEF DestroyFree, Locked, DestroyPlaces
  <2>3. \A p \in Pids : proc[p].status = "running" /\ proc[p].owner = i => proc[p].killed
        BY <2>1 DEF Owned
  <2>4. thr'[t].pc # "destroyFree"
        BY <2>1 DEF IdleThread
  <2> QED
      BY <1>0, <2>1, <2>2, <2>3, <2>4, OwnedKept
<1>7. ASSUME NEW t \in Threads, ManagerDestroy(t)
      PROVE  Owned'
  <2>1. /\ UNCHANGED <<nextId, sess, proc>> /\ \A j : Listed(j)' <=> Listed(j)
        /\ \A u \in Threads : thr'[u].pc = "destroyFree" => thr'[u] = thr[u]
        BY <1>0, <1>7, ListedAreIds DEF ManagerDestroy, Kernel, ThreadStates
  <2> QED
      BY <1>0, <2>1, OwnedKept
<1>8. ASSUME NEW t \in Threads, ManagerTerm(t)
      PROVE  Owned'
  <2>1. /\ Head(list) \in Ids /\ nextId' = nextId /\ \A j : Listed(j)' <=> Listed(j)
        /\ \A u \in Threads : thr'[u].pc = "destroyFree" => thr'[u] = thr[u]
        BY <1>0, <1>8, ListedAreIds, ListHead DEF ManagerTerm, ThreadStates
  <2>2. \A j \in Ids : sess'[j].pid = sess[j].pid
        BY <1>0, <1>8 DEF ManagerTerm, Sessions
  <2>3. \A p \in Pids : /\ proc'[p].status = proc[p].status /\ proc'[p].owner = proc[p].owner
                        /\ proc[p].killed => proc'[p].killed
        BY <1>8, <2>1, SignalMarks DEF ManagerTerm
  <2> QED
      BY <1>0, <2>1, <2>2, <2>3, OwnedKept
<1>9. ASSUME NEW t \in Threads, ManagerKill(t)
      PROVE  Owned'
  <2> DEFINE i == Head(list)
  <2>1. /\ i \in Ids /\ Listed(i) /\ nextId' = nextId
        /\ \A j : Listed(j)' <=> j # i /\ Listed(j)
        BY <1>0, <1>9, ListTail DEF ManagerKill, Locked
  <2>2. /\ \A j \in Ids \ {i} : sess'[j] = sess[j]
        /\ \A u \in Threads : thr'[u].pc = "destroyFree" => thr'[u] = thr[u]
        BY <1>0, <1>9 DEF ManagerKill, ThreadStates
  <2>3. \A p \in Pids : /\ proc'[p].status = proc[p].status /\ proc'[p].owner = proc[p].owner
                        /\ proc[p].killed => proc'[p].killed
                        /\ p = sess[i].pid /\ proc[p].status = "running" => proc'[p].killed
        BY <1>0, <1>9, <2>1, SignalMarks DEF ManagerKill, Exists
  <2>4. ASSUME NEW p \in Pids, proc'[p].status = "running", proc'[p].owner = i
        PROVE  proc'[p].killed
    <3>1. proc[p].status = "running" /\ proc[p].owner = i
          BY <2>3, <2>4
    <3>2. sess[i].pid = p
          BY <2>1, <3>1 DEF Owned
    <3> QED
        BY <2>3, <3>1, <3>2
  <2> QED
      BY <1>0, <2>1, <2>2, <2>3, <2>4, OwnedKept
<1>10. ASSUME NEW t \in Threads, ManagerDone(t)
       PROVE  Owned'
  <2>1. /\ UNCHANGED <<nextId, sess, proc>> /\ \A j : Listed(j)' <=> Listed(j)
        /\ \A u \in Threads : thr'[u].pc = "destroyFree" => thr'[u] = thr[u]
        BY <1>0, <1>10, ListedAreIds DEF ManagerDone, Kernel, IdleThread
  <2> QED
      BY <1>0, <2>1, OwnedKept
<1>11. ASSUME NEW t \in Threads, NEW i \in Ids, NEW force \in BOOLEAN, Terminate(t, i, force)
       PROVE  Owned'
  <2>0. thr' = thr \/ thr' = [thr EXCEPT ![t] = At(t, "mark", i)]
        BY <1>0, <1>11 DEF Terminate
  <2>1. /\ nextId' = nextId /\ \A j : Listed(j)' <=> Listed(j)
        /\ \A u \in Threads : thr'[u].pc = "destroyFree" => thr'[u] = thr[u]
    <3>1. nextId' = nextId /\ \A j : Listed(j)' <=> Listed(j)
          BY <1>11, ListedAreIds DEF Terminate
    <3> QED
        BY <1>0, <2>0, <3>1 DEF At, IdleThread
  <2>2. \A j \in Ids : sess'[j].pid = sess[j].pid
    <3>1. sess' = sess \/ sess' = [sess EXCEPT ![i].state = "TERMINATED"]
          BY <1>11 DEF Terminate
    <3>2. CASE sess' = [sess EXCEPT ![i].state = "TERMINATED"]
          BY <1>0, <3>2 DEF Sessions
    <3> QED
        BY <3>1, <3>2
  <2>3. \A p \in Pids : /\ proc'[p].status = proc[p].status /\ proc'[p].owner = proc[p].owner
                        /\ proc[p].killed => proc'[p].killed
        BY <1>11, SignalMarks DEF Terminate
  <2> QED
      BY <1>0, <2>1, <2>2, <2>3, OwnedKept
<1>12. ASSUME NEW t \in Threads, TerminateMark(t)
       PROVE  Owned'
  <2>1. /\ UNCHANGED <<nextId, proc>> /\ \A j : Listed(j)' <=> Listed(j)
        /\ \A j \in Ids : sess'[j].pid = sess[j].pid
        /\ \A u \in Threads : thr'[u].pc = "destroyFree" => thr'[u] = thr[u]
        BY <1>0, <1>12, ListedAreIds DEF TerminateMark, Kernel, IdleThread, Sessions
  <2> QED
      BY <1>0, <2>1, OwnedKept
<1>13. ASSUME NEW t \in Threads, NEW i \in Ids, NEW mode \in WaitModes, WaitBegin(t, i, mode)
       PROVE  Owned'
  <2>1. /\ UNCHANGED <<nextId, sess, proc>> /\ \A j : Listed(j)' <=> Listed(j)
        /\ \A u \in Threads : thr'[u].pc = "destroyFree" => thr'[u] = thr[u]
        BY <1>0, <1>13, ListedAreIds, SessionAssumption DEF WaitBegin, Kernel, At, IdleThread
  <2> QED
      BY <1>0, <2>1, OwnedKept
<1>14. ASSUME NEW t \in Threads, WaitPid(t)
       PROVE  Owned'
  <2>1. /\ UNCHANGED <<nextId, sess>> /\ \A j : Listed(j)' <=> Listed(j)
        /\ \A u \in Threads : thr'[u].pc = "destroyFree" => thr'[u] = thr[u]
        BY <1>0, <1>14, ListedAreIds DEF WaitPid, ThreadStates
  <2>2. \A p \in Pids : proc'[p].status = "running" => proc'[p] = proc[p]
        BY <1>0, <1>14 DEF WaitPid, Reap, NoProc
  <2> QED
      BY <1>0, <2>1, <2>2, OwnedKept
<1>15. ASSUME NEW t \in Threads, WaitRecord(t)
       PROVE  Owned'
  <2>1. /\ UNCHANGED <<nextId, proc>> /\ \A j : Listed(j)' <=> Listed(j)
        /\ \A j \in Ids : sess'[j].pid = sess[j].pid
        /\ \A u \in Threads : thr'[u].pc = "destroyFree" => thr'[u] = thr[u]
        BY <1>0, <1>15, ListedAreIds DEF WaitRecord, Kernel, IdleThread, Sessions
  <2> QED
      BY <1>0, <2>1, OwnedKept
<1>16. ASSUME NEW p \in Pids, ProcessExit(p)
       PROVE  Owned'
  <2>1. UNCHANGED <<nextId, sess, thr>> /\ \A j : Listed(j)' <=> Listed(j)
        BY <1>16, ListedAreIds DEF ProcessExit
  <2>2. \A q \in Pids : proc'[q].status = "running" => proc'[q] = proc[q]
        BY <1>0, <1>16 DEF ProcessExit, NoProc
  <2> QED
      BY <1>0, <2>1, <2>2, OwnedKept
<1>17. CASE UNCHANGED vars
  <2>1. UNCHANGED <<nextId, sess, thr, proc>> /\ \A j : Listed(j)' <=> Listed(j)
        BY <1>17, ListedAreIds DEF vars
  <2> QED
      BY <1>0, <2>1, OwnedKept
<1> QED
    BY <1>1, <1>2, <1>3, <1>4, <1>5, <1>6, <1>7, <1>8, <1>9, <1>10, <1>11, <1>12, <1>13, <1>14,
       <1>15, <1>16, <1>17 DEF Next, Call, InCall

\* No debugger outlives its session: one whose session has left the list has been sent
\* SIGKILL, if it still runs (md_session_destroy, md_manager_destroy).
THEOREM DestroyedSessionsKilled == Spec => []DestroyedIsKilled
<1>1. Typed /\ Books /\ Locked /\ Owned => DestroyedIsKilled
      BY DEF Owned
<1> QED
    BY <1>1, ListInit, OwnedInit, TypedStep, BooksStep, LockedStep, OwnedStep, PTL DEF Spec

-----------------------------------------------------------------------------
(* Ended: when every wait blocks, a session is called TERMINATED only after  *)
(* its process has ended.                                                   *)

LEMMA EndedInit == Typed /\ Init => Ended
BY DEF Typed, Init, Ended, TerminatedIsDead, Listed, NoSession, IdleThread

\* Ended survives a step in which no process ends, no session is made and nobody learns of
\* an end.
LEMMA EndedKept ==
    ASSUME Books, Ended,
           \A t \in Threads : thr'[t].pc # "poll",
           \A i \in Ids : Listed(i)' => /\ Listed(i) /\ exitOf'[i] = exitOf[i]
                                        /\ sess'[i].pid = sess[i].pid,
           \A i \in Ids : ~Listed(i)' => sess'[i] = NoSession /\ exitOf'[i] = Alive,
           \A p \in Pids : proc[p].status = "running" =>
               proc'[p].status = "running" /\ proc'[p].owner = proc[p].owner,
           \A t \in Threads : thr'[t].pc = "record" =>
               thr[t].pc = "record" /\ thr'[t].id = thr[t].id /\ exitOf'[thr[t].id] = exitOf[thr[t].id],
           \A i \in Ids : sess'[i].state = "TERMINATED" =>
               sess[i].state = "TERMINATED" \/ exitOf[i] # Alive
    PROVE  Ended'
<1>1. ASSUME NEW i \in Ids, Listed(i)', exitOf'[i] = Alive
      PROVE  proc'[sess'[i].pid].status = "running" /\ proc'[sess'[i].pid].owner = i
  <2>1. Listed(i) /\ exitOf[i] = Alive /\ sess'[i].pid = sess[i].pid
        BY <1>1
  <2>2. sess[i].pid \in Pids
        BY <2>1 DEF Books
  <2>3. proc[sess[i].pid].status = "running" /\ proc[sess[i].pid].owner = i
        BY <2>1 DEF Ended
  <2> QED
      BY <2>1, <2>2, <2>3
<1>2. ASSUME NEW i \in Ids, sess'[i].state = "TERMINATED"
      PROVE  exitOf'[i] # Alive
  <2>1. Listed(i)'
        BY <1>2 DEF NoSession
  <2> QED
      BY <1>2, <2>1 DEF Ended, TerminatedIsDead
<1>3. \A t \in Threads : thr'[t].pc = "record" => exitOf'[thr'[t].id] # Alive
      BY DEF Ended
<1> QED
    BY <1>1, <1>2, <1>3 DEF Ended, TerminatedIsDead

\* Every step keeps the ends of processes and of sessions together.
LEMMA EndedStep ==
    "poll" \notin WaitModes =>
        (Typed /\ Books /\ Locked /\ Owned /\ Ended /\ [Next]_vars => Ended')
<1> SUFFICES ASSUME "poll" \notin WaitModes, Typed, Books, Locked, Owned, Ended, [Next]_vars
             PROVE  Ended'
    OBVIOUS
<1>0. /\ list \in Seq(Ids) /\ thr \in [Threads -> ThreadStates] /\ exitOf \in [Ids -> Codes \cup {Alive}]
      /\ sess \in [Ids -> Sessions] /\ proc \in [Pids -> Processes]
      /\ \A m, n \in DOMAIN list : list[m] = list[n] => m = n
      /\ \A j : Listed(j) => j \in Ids /\ j # NoId
      /\ \A u \in Threads : thr[u].pc # "poll"
      /\ \A i \in Ids : ~Listed(i) => sess[i] = NoSession /\ exitOf[i] = Alive
      BY ListedAreIds DEF Typed, Books, Ended
<1>1. ASSUME NEW t \in Threads, CreateFails(t)
      PROVE  Ended'
  <2>1. /\ UNCHANGED <<sess, thr, proc, exitOf>> /\ \A j : Listed(j)' <=> Listed(j)
        BY <1>1, ListedAreIds DEF CreateFails, Kernel
  <2> QED
      BY <1>0, <2>1, EndedKept
<1>2. ASSUME NEW t \in Threads, Create(t)
      PROVE  Ended'
  <2>1. nextId \in Ids /\ UNCHANGED <<thr, exitOf>>
        BY <1>2, SessionAssumption DEF Create, Ids, Typed
  <2>2. \A j : Listed(j)' <=> j = nextId \/ Listed(j)
        BY <1>0, <1>2, <2>1, ListCons DEF Create
  <2>3. PICK p \in Pids :
           /\ proc[p].status # "running"
           /\ proc' = [proc EXCEPT ![p] = [NoProc EXCEPT !.status = "running", !.owner = nextId]]
           /\ sess' = [sess EXCEPT ![nextId] = [pid |-> p, state |-> "RUNNING", exitCode |-> 0]]
        BY <1>2 DEF Create
  <2>4. /\ proc'[p].status = "running" /\ proc'[p].owner = nextId
        /\ sess'[nextId].pid = p /\ sess'[nextId].state = "RUNNING"
        /\ \A q \in Pids \ {p} : proc'[q] = proc[q]
        /\ \A i \in Ids \ {nextId} : sess'[i] = sess[i]
        BY <1>0, <2>1, <2>3 DEF NoProc
  <2>5. ASSUME NEW i \in Ids, Listed(i)', exitOf'[i] = Alive
        PROVE  proc'[sess'[i].pid].status = "running" /\ proc'[sess'[i].pid].owner = i
    <3>1. CASE i = nextId
          BY <2>4, <3>1
    <3>2. CASE i # nextId
      <4>1. Listed(i) /\ exitOf[i] = Alive /\ sess'[i] = sess[i]
            BY <2>1, <2>2, <2>4, <2>5, <3>2
      <4>2. /\ sess[i].pid \in Pids
            /\ proc[sess[i].pid].status = "running" /\ proc[sess[i].pid].owner = i
            BY <4>1 DEF Books, Ended
      <4> QED
          BY <2>3, <2>4, <4>1, <4>2
    <3> QED
        BY <3>1, <3>2
  <2>6. \A i \in Ids : ~Listed(i)' => sess'[i] = NoSession /\ exitOf'[i] = Alive
        BY <1>0, <2>1, <2>2, <2>4
  <2>7. \A i \in Ids : sess'[i].state = "TERMINATED" => exitOf'[i] # Alive
        BY <2>1, <2>4 DEF Ended, TerminatedIsDead
  <2> QED
      BY <1>0, <2>1, <2>5, <2>6, <2>7 DEF Ended, TerminatedIsDead
<1>3. ASSUME NEW t \in Threads, NEW i \in Ids, DestroyBegin(t, i)
      PROVE  Ended'
  <2>1. /\ exitOf' = exitOf /\ Listed(i) /\ \A j : Listed(j)' <=> Listed(j)
        /\ sess'[i].pid = sess[i].pid /\ sess'[i].state = "EXITING"
        /\ \A j \in Ids \ {i} : sess'[j] = sess[j]
        BY <1>0, <1>3, ListedAreIds DEF DestroyBegin, Sessions
  <2>2. \A p \in Pids : /\ proc'[p].status = proc[p].status /\ proc'[p].owner = proc[p].owner
        BY <1>3, SignalMarks DEF DestroyBegin
  <2>3. \A u \in Threads : thr'[u] = thr[u] \/ thr'[u].pc \in {"destroyPoll", "destroyFree"}
        BY <1>0, <1>3 DEF DestroyBegin, At, IdleThread
  <2> QED
      BY <1>0, <2>1, <2>2, <2>3, EndedKept
<1>4. ASSUME NEW t \in Threads, DestroyPoll(t)
      PROVE  Ended'
  <2>1. /\ UNCHANGED <<sess, proc, exitOf>> /\ \A j : Listed(j)' <=> Listed(j)
        /\ \A u \in Threads : thr'[u] = thr[u] \/ thr'[u].pc \in {"destroyPoll", "destroyKill"}
        BY <1>0, <1>4, ListedAreIds DEF DestroyPoll, Kernel, ThreadStates
  <2> QED
      BY <1>0, <2>1, EndedKept
<1>5. ASSUME NEW t \in Threads, DestroyKill(t)
      PROVE  Ended'
  <2>1. /\ UNCHANGED <<sess, exitOf>> /\ \A j : Listed(j)' <=> Listed(j)
        /\ \A u \in Threads : thr'[u] = thr[u] \/ thr'[u].pc = "destroyFree"
        BY <1>0, <1>5, ListedAreIds DEF DestroyKill, ThreadStates
  <2>2. thr[t].id \in Ids
        BY <1>0, <1>5 DEF DestroyKill, Locked, DestroyPlaces
  <2>3. \A p \in Pids : /\ proc'[p].status = proc[p].status /\ proc'[p].owner = proc[p].owner
        BY <1>5, <2>2, SignalMarks DEF DestroyKill
  <2> QED
      BY <1>0, <2>1, <2>3, EndedKept
<1>6. ASSUME NEW t \in Threads, DestroyFree(t)
      PROVE  Ended'
  <2>1. PICK i \in Ids : i = thr[t].id /\ Listed(i)
        BY <1>0, <1>6 DEF DestroyFree, Locked, DestroyPlaces
  <2>2. /\ thr[t].pc = "destroyFree" /\ proc' = proc
        /\ sess'[i] = NoSession /\ \A j \in Ids \ {i} : sess'[j] = sess[j]
        /\ exitOf'[i] = Alive /\ \A j \in Ids \ {i} : exitOf'[j] = exitOf[j]
        /\ thr'[t] = IdleThread /\ \A u \in Threads \ {t} : thr'[u] = thr[u]
        BY <1>0, <1>6, <2>1 DEF DestroyFree
  <2>3. \A j : Listed(j)' <=> j # i /\ Listed(j)
        BY <1>0, <1>6, <2>1, ListWithout DEF DestroyFree
  <2>4. \A u \in Threads \ {t} : thr[u].pc = "record" => thr[u].id \in Ids \ {i}
        BY <1>0, <2>1, <2>2 DEF Locked, DestroyPlaces, UnlockedPlaces
  <2>5. thr'[t].pc = "idle" /\ NoSession.state = "NONE"
        BY <2>2 DEF IdleThread, NoSession
  <2> QED
      BY <1>0, <2>2, <2>3, <2>4, <2>5, EndedKept
<1>7. ASSUME NEW t \in Threads, ManagerDestroy(t)
      PROVE  Ended'
  <2>1. /\ UNCHANGED <<sess, proc, exitOf>> /\ \A j : Listed(j)' <=> Listed(j)
        /\ \A u \in Threads : thr'[u] = thr[u] \/ thr'[u].pc = "managerTerm"
        BY <1>0, <1>7, ListedAreIds DEF ManagerDestroy, Kernel, ThreadStates
  <2> QED
      BY <1>0, <2>1, EndedKept
<1>8. ASSUME NEW t \in Threads, ManagerTerm(t)
      PROVE  Ended'
  <2>1. PICK i \in Ids : i = Head(list) /\ Listed(i)
        BY <1>0, <1>8, ListHead DEF ManagerTerm
  <2>2. /\ exitOf' = exitOf /\ \A j : Listed(j)' <=> Listed(j)
        /\ sess'[i].pid = sess[i].pid /\ sess'[i].state = "EXITING"
        /\ \A j \in Ids \ {i} : sess'[j] = sess[j]
        /\ \A u \in Threads : thr'[u] = thr[u] \/ thr'[u].pc = "managerKill"
        BY <1>0, <1>8, <2>1, ListedAreIds DEF ManagerTerm, ThreadStates, Sessions
  <2>3. \A p \in Pids : /\ proc'[p].status = proc[p].status /\ proc'[p].owner = proc[p].owner
        BY <1>8, <2>1, SignalMarks DEF ManagerTerm
  <2> QED
      BY <1>0, <2>1, <2>2, <2>3, EndedKept
<1>9. ASSUME NEW t \in Threads, ManagerKill(t)
      PROVE  Ended'
  <2>1. PICK i \in Ids : i = Head(list) /\ \A j : Listed(j)' <=> j # i /\ Listed(j)
        BY <1>0, <1>9, ListTail DEF ManagerKill, Locked
  <2>2. /\ sess'[i] = NoSession /\ \A j \in Ids \ {i} : sess'[j] = sess[j]
        /\ exitOf'[i] = Alive /\ \A j \in Ids \ {i} : exitOf'[j] = exitOf[j]
        BY <1>0, <1>9, <2>1 DEF ManagerKill
  <2>3. \A u \in Threads : thr'[u].pc \in {"idle", "managerTerm"}
    <3>1. thr'[t].pc = "managerTerm" /\ \A u \in Threads \ {t} : thr'[u] = thr[u] /\ thr[u] = IdleThread
          BY <1>0, <1>9 DEF ManagerKill, Locked, ManagerPlaces, ThreadStates
    <3> QED
        BY <3>1 DEF IdleThread
  <2>4. \A p \in Pids : proc'[p].status = proc[p].status /\ proc'[p].owner = proc[p].owner
        BY <1>9, <2>1, SignalMarks DEF ManagerKill
  <2>5. NoSession.state = "NONE"
        BY DEF NoSession
  <2> QED
      BY <1>0, <2>1, <2>2, <2>3, <2>4, <2>5, EndedKept
<1>10. ASSUME NEW t \in Threads, ManagerDone(t)
       PROVE  Ended'
  <2>1. /\ UNCHANGED <<sess, proc, exitOf>> /\ \A j : Listed(j)' <=> Listed(j)
        /\ \A u \in Threads : thr'[u] = thr[u] \/ thr'[u].pc = "idle"
        BY <1>0, <1>10, ListedAreIds DEF ManagerDone, Kernel, IdleThread
  <2> QED
      BY <1>0, <2>1, EndedKept
<1>11. ASSUME NEW t \in Threads, NEW i \in Ids, NEW force \in BOOLEAN, Terminate(t, i, force)
       PROVE  Ended'
  <2>1. /\ exitOf' = exitOf /\ Listed(i) /\ \A j : Listed(j)' <=> Listed(j)
        /\ \A u \in Threads : thr'[u] = thr[u] \/ thr'[u].pc = "mark"
        BY <1>0, <1>11, ListedAreIds DEF Terminate, At, IdleThread
  <2>2. \A p \in Pids : /\ proc'[p].status = proc[p].status /\ proc'[p].owner = proc[p].owner
        BY <1>11, SignalMarks DEF Terminate
  <2>3. CASE Exists(sess[i].pid)
    <3>1. sess' = sess
          BY <1>11, <2>3 DEF Terminate
    <3> QED
        BY <1>0, <2>1, <2>2, <3>1, EndedKept
  <2>4. CASE ~Exists(sess[i].pid)
    <3>1. sess'[i].pid = sess[i].pid /\ \A j \in Ids \ {i} : sess'[j] = sess[j]
          BY <1>0, <1>11, <2>4 DEF Terminate, Sessions
    <3>2. exitOf[i] # Alive
          BY <2>1, <2>4 DEF Ended, Exists
    <3> QED
        BY <1>0, <2>1, <2>2, <3>1, <3>2, EndedKept
  <2> QED
      BY <2>3, <2>4
<1>12. ASSUME NEW t \in Threads, TerminateMark(t)
       PROVE  Ended'
  <2>1. PICK i \in Ids : i = thr[t].id /\ Listed(i)
        BY <1>0, <1>12 DEF TerminateMark, Locked, UnlockedPlaces
  <2>2. /\ UNCHANGED <<proc, exitOf>> /\ \A j : Listed(j)' <=> Listed(j)
        /\ sess'[i].pid = sess[i].pid /\ sess'[i].state = "EXITING"
        /\ \A j \in Ids \ {i} : sess'[j] = sess[j]
        /\ \A u \in Threads : thr'[u] = thr[u] \/ thr'[u].pc = "idle"
        BY <1>0, <1>12, <2>1, ListedAreIds DEF TerminateMark, Kernel, IdleThread, Sessions
  <2> QED
      BY <1>0, <2>1, <2>2, EndedKept
<1>13. ASSUME NEW t \in Threads, NEW i \in Ids, NEW mode \in WaitModes, WaitBegin(t, i, mode)
       PROVE  Ended'
  <2>1. /\ UNCHANGED <<sess, proc, exitOf>> /\ \A j : Listed(j)' <=> Listed(j)
        /\ \A u \in Threads : thr'[u] = thr[u] \/ thr'[u].pc = "block"
        BY <1>0, <1>13, ListedAreIds, SessionAssumption DEF WaitBegin, Kernel, At, IdleThread
  <2> QED
      BY <1>0, <2>1, EndedKept
<1>14. ASSUME NEW t \in Threads, WaitPid(t)
       PROVE  Ended'
  <2>1. PICK i \in Ids : i = thr[t].id /\ Listed(i)
        BY <1>0, <1>14 DEF WaitPid, Locked, UnlockedPlaces
  <2>2. /\ UNCHANGED <<list, sess, exitOf>> /\ \A j : Listed(j)' <=> Listed(j)
        /\ thr'[t].id = i /\ thr'[t].pc = "record" /\ \A u \in Threads \ {t} : thr'[u] = thr[u]
        BY <1>0, <1>14, <2>1, ListedAreIds DEF WaitPid, ThreadStates
  <2>3. \A p \in Pids : proc[p].status = "running" => proc'[p] = proc[p]
        BY <1>0, <1>14 DEF WaitPid, Reap
  <2>4. exitOf[i] # Alive
    <3>1. proc[sess[i].pid].status # "running"
          BY <1>0, <1>14, <2>1 DEF WaitPid, Exists
    <3> QED
        BY <2>1, <3>1 DEF Ended
  <2>5. ASSUME NEW j \in Ids, Listed(j)', exitOf'[j] = Alive
        PROVE  proc'[sess'[j].pid].status = "running" /\ proc'[sess'[j].pid].owner = j
    <3>1. /\ sess[j].pid \in Pids
          /\ proc[sess[j].pid].status = "running" /\ proc[sess[j].pid].owner = j
          BY <2>2, <2>5 DEF Books, Ended
    <3> QED
        BY <2>2, <2>3, <3>1
  <2>6. \A u \in Threads : thr'[u].pc = "record" => exitOf'[thr'[u].id] # Alive
        BY <2>2, <2>4 DEF Ended
  <2>7. \A u \in Threads : thr'[u].pc # "poll"
        BY <1>0, <2>2
  <2> QED
      BY <2>2, <2>5, <2>6, <2>7 DEF Ended, TerminatedIsDead
<1>15. ASSUME NEW t \in Threads, WaitRecord(t)
       PROVE  Ended'
  <2>1. PICK i \in Ids : i = thr[t].id /\ Listed(i)
        BY <1>0, <1>15 DEF WaitRecord, Locked, UnlockedPlaces
  <2>2. /\ UNCHANGED <<proc, exitOf>> /\ \A j : Listed(j)' <=> Listed(j)
        /\ sess'[i].pid = sess[i].pid
        /\ \A j \in Ids \ {i} : sess'[j] = sess[j]
        /\ \A u \in Threads : thr'[u] = thr[u] \/ thr'[u].pc = "idle"
        BY <1>0, <1>15, <2>1, ListedAreIds DEF WaitRecord, Kernel, IdleThread, Sessions
  <2>3. exitOf[i] # Alive
        BY <1>15, <2>1 DEF WaitRecord, Ended
  <2> QED
      BY <1>0, <2>1, <2>2, <2>3, EndedKept
<1>16. ASSUME NEW p \in Pids, ProcessExit(p)
       PROVE  Ended'
  <2>1. PICK o \in Ids : o = proc[p].owner
        BY <1>16 DEF ProcessExit, Owned
  <2>2. UNCHANGED <<list, sess, thr>> /\ \A j : Listed(j)' <=> Listed(j)
        BY <1>16, ListedAreIds DEF ProcessExit
  <2>3. \A q \in Pids \ {p} : proc'[q] = proc[q]
        BY <1>0, <1>16 DEF ProcessExit
  <2>4. PICK c \in {Exited, 128 + SIGTERM, 128 + SIGKILL} :
           exitOf' = IF Listed(o) THEN [exitOf EXCEPT ![o] = c] ELSE exitOf
        BY ZenonT(40), <1>16, <2>1, ExitEffect
  <2>5. /\ c # Alive
        /\ Listed(o) => exitOf'[o] = c
        /\ ~Listed(o) => exitOf' = exitOf
        /\ \A j \in Ids \ {o} : exitOf'[j] = exitOf[j]
        BY <1>0, <2>4 DEF Alive, Exited, SIGTERM, SIGKILL
  <2>6. ASSUME NEW j \in Ids, Listed(j)', exitOf'[j] = Alive
        PROVE  proc'[sess'[j].pid].status = "running" /\ proc'[sess'[j].pid].owner = j
    <3>1. j # o /\ exitOf[j] = Alive /\ Listed(j)
          BY <2>2, <2>5, <2>6
    <3>2. /\ sess[j].pid \in Pids
          /\ proc[sess[j].pid].status = "running" /\ proc[sess[j].pid].owner = j
          BY <3>1 DEF Books, Ended
    <3> QED
        BY <2>1, <2>2, <2>3, <3>1, <3>2
  <2>7. \A j \in Ids : ~Listed(j)' => sess'[j] = NoSession /\ exitOf'[j] = Alive
        BY <1>0, <2>2, <2>5
  <2>8. \A j \in Ids : exitOf[j] # Alive => exitOf'[j] # Alive
        BY <1>0, <2>5
  <2>9. \A u \in Threads : thr'[u].pc = "record" => exitOf'[thr'[u].id] # Alive
    <3> SUFFICES ASSUME NEW u \in Threads, thr[u].pc = "record"
                 PROVE  exitOf'[thr[u].id] # Alive
        BY <2>2
    <3>1. thr[u].id \in Ids /\ exitOf[thr[u].id] # Alive
          BY <1>0 DEF Locked, UnlockedPlaces, Ended
    <3> QED
        BY <2>8, <3>1
  <2> QED
      BY <1>0, <2>2, <2>6, <2>7, <2>8, <2>9 DEF Ended, TerminatedIsDead
<1>17. CASE UNCHANGED vars
  <2>1. UNCHANGED <<sess, thr, proc, exitOf>> /\ \A j : Listed(j)' <=> Listed(j)
        BY <1>17, ListedAreIds DEF vars
  <2> QED
      BY <1>0, <2>1, EndedKept
<1> QED
    BY <1>1, <1>2, <1>3, <1>4, <1>5, <1>6, <1>7, <1>8, <1>9, <1>10, <1>11, <1>12, <1>13, <1>14,
       <1>15, <1>16, <1>17 DEF Next, Call, InCall

\* If no wait has a timeout of 0, a session is TERMINATED only when its process has ended
\* (md_session_terminate, md_session_wait).
THEOREM TerminatedSessionsEnded ==
    ASSUME "poll" \notin WaitModes
    PROVE  Spec => []TerminatedIsDead
<1>1. Init => Typed /\ Books /\ Locked /\ Owned /\ Ended
      BY ListInit, OwnedInit, EndedInit
<1>2. Typed /\ Books /\ Locked /\ Owned /\ Ended /\ [Next]_vars
        => (Typed /\ Books /\ Locked /\ Owned /\ Ended)'
      BY TypedStep, BooksStep, LockedStep, OwnedStep, EndedStep
<1>3. Ended => TerminatedIsDead
      BY DEF Ended
<1> QED
    BY <1>1, <1>2, <1>3, PTL DEF Spec

-----------------------------------------------------------------------------
(* Recorded: when, besides, no identifier is used twice, the status a        *)
(* session shows is the one its process ended with.                          *)

LEMMA RecordedInit == Init => Recorded
BY DEF Init, Recorded, Listed, IdleThread

\* Recorded survives a step that moves no status.
LEMMA RecordedKept ==
    ASSUME Books, Recorded,
           \A i \in Ids : Listed(i)' => /\ Listed(i) /\ exitOf'[i] = exitOf[i]
                                        /\ sess'[i].pid = sess[i].pid
                                        /\ sess'[i].exitCode = sess[i].exitCode,
           \A p \in Pids : proc'[p].status = proc[p].status /\ proc'[p].code = proc[p].code,
           \A t \in Threads : thr[t].pc = "record" => thr'[t] = thr[t],
           \A t \in Threads : thr'[t].pc = "record" =>
               thr'[t] = thr[t] /\ exitOf'[thr[t].id] = exitOf[thr[t].id]
    PROVE  Recorded'
<1>1. \A i, j \in Ids : Listed(i)' /\ Listed(j)' /\ sess'[i].pid = sess'[j].pid => i = j
      BY DEF Recorded
<1>2. ASSUME NEW i \in Ids, Listed(i)'
      PROVE  /\ proc'[sess'[i].pid].status # "unused"
             /\ proc'[sess'[i].pid].status = "running" => exitOf'[i] = Alive
             /\ proc'[sess'[i].pid].status = "zombie" => proc'[sess'[i].pid].code = exitOf'[i]
             /\ proc'[sess'[i].pid].status = "gone" =>
                   \/ sess'[i].exitCode = exitOf'[i]
                   \/ \E t \in Threads : /\ thr'[t].pc = "record" /\ thr'[t].id = i
                                         /\ thr'[t].code = exitOf'[i]
  <2>1. PICK p \in Pids : p = sess[i].pid /\ p = sess'[i].pid
        BY <1>2 DEF Books
  <2>2. /\ proc[p].status # "unused"
        /\ proc[p].status = "running" => exitOf[i] = Alive
        /\ proc[p].status = "zombie" => proc[p].code = exitOf[i]
        /\ proc[p].status = "gone" =>
              \/ sess[i].exitCode = exitOf[i]
              \/ \E t \in Threads : thr[t].pc = "record" /\ thr[t].id = i /\ thr[t].code = exitOf[i]
        BY <1>2, <2>1 DEF Recorded
  <2> QED
      BY <1>2, <2>1, <2>2
<1>3. \A t \in Threads : thr'[t].pc = "record" => thr'[t].code \in {NoChild, exitOf'[thr'[t].id]}
      BY DEF Recorded
<1> QED
    BY <1>1, <1>2, <1>3 DEF Recorded

\* Every step keeps track of the status of an ended process.
LEMMA RecordedStep ==
    "poll" \notin WaitModes /\ ~Recycle =>
        (Typed /\ Books /\ Locked /\ Owned /\ Ended /\ Recorded /\ [Next]_vars => Recorded')
<1> SUFFICES ASSUME "poll" \notin WaitModes, ~Recycle,
                    Typed, Books, Locked, Owned, Ended, Recorded, [Next]_vars
             PROVE  Recorded'
    OBVIOUS
<1>0. /\ list \in Seq(Ids) /\ thr \in [Threads -> ThreadStates] /\ exitOf \in [Ids -> Codes \cup {Alive}]
      /\ sess \in [Ids -> Sessions] /\ proc \in [Pids -> Processes]
      /\ \A m, n \in DOMAIN list : list[m] = list[n] => m = n
      /\ \A j : Listed(j) => j \in Ids /\ j # NoId
      /\ \A i \in Ids : Listed(i) => sess[i].pid \in Pids
      BY ListedAreIds DEF Typed, Books
<1>1. ASSUME NEW t \in Threads, CreateFails(t)
      PROVE  Recorded'
  <2>1. /\ UNCHANGED <<sess, thr, proc, exitOf>> /\ \A j : Listed(j)' <=> Listed(j)
        BY <1>1, ListedAreIds DEF CreateFails, Kernel
  <2> QED
      BY <1>0, <2>1, RecordedKept
<1>2. ASSUME NEW t \in Threads, Create(t)
      PROVE  Recorded'
  <2>1. nextId \in Ids /\ UNCHANGED <<thr, exitOf>>
        BY <1>2, SessionAssumption DEF Create, Ids, Typed
  <2>2. \A j : Listed(j)' <=> j = nextId \/ Listed(j)
        BY <1>0, <1>2, <2>1, ListCons DEF Create
  <2>3. PICK p \in Pids :
           /\ proc[p].status = "unused"
           /\ proc' = [proc EXCEPT ![p] = [NoProc EXCEPT !.status = "running", !.owner = nextId]]
           /\ sess' = [sess EXCEPT ![nextId] = [pid |-> p, state |-> "RUNNING", exitCode |-> 0]]
        BY <1>2 DEF Create
  <2>4. /\ proc'[p].status = "running" /\ sess'[nextId].pid = p
        /\ \A q \in Pids \ {p} : proc'[q] = proc[q]
        /\ \A i \in Ids \ {nextId} : sess'[i] = sess[i]
        BY <1>0, <2>1, <2>3 DEF NoProc
  <2>5. \A i \in Ids : Listed(i) => sess[i].pid # p
        BY <2>3 DEF Recorded
  <2>6. ~Listed(nextId)
    <3>1. ASSUME NEW n \in DOMAIN list
          PROVE  list[n] # nextId
      <4>1. list[n] \in Ids /\ list[n] < nextId
            BY <1>0 DEF Books
      <4>2. list[n] \in Nat
            BY <4>1, ConstantsTyped
      <4> QED
          BY <4>1, <4>2
    <3> QED
        BY <3>1 DEF Listed
  <2>7. exitOf'[nextId] = Alive
        BY <2>1, <2>6 DEF Ended
  <2>8. ASSUME NEW i \in Ids, Listed(i)', i # nextId
        PROVE  /\ Listed(i) /\ sess'[i] = sess[i] /\ sess[i].pid \in Pids
               /\ proc'[sess'[i].pid] = proc[sess[i].pid]
        BY <1>0, <2>2, <2>4, <2>5, <2>8
  <2>9. \A i, j \in Ids : Listed(i)' /\ Listed(j)' /\ sess'[i].pid = sess'[j].pid => i = j
    <3> SUFFICES ASSUME NEW i \in Ids, NEW j \in Ids, Listed(i)', Listed(j)',
                        sess'[i].pid = sess'[j].pid, i # j
                 PROVE  FALSE
        OBVIOUS
    <3>1. CASE i = nextId
          BY <2>4, <2>5, <2>8, <3>1
    <3>2. CASE j = nextId
          BY <2>4, <2>5, <2>8, <3>2
    <3>3. CASE i # nextId /\ j # nextId
          BY <2>8, <3>3 DEF Recorded
    <3> QED
        BY <3>1, <3>2, <3>3
  <2>10. ASSUME NEW i \in Ids, Listed(i)'
         PROVE  /\ proc'[sess'[i].pid].status # "unused"
                /\ proc'[sess'[i].pid].status = "running" => exitOf'[i] = Alive
                /\ proc'[sess'[i].pid].status = "zombie" => proc'[sess'[i].pid].code = exitOf'[i]
                /\ proc'[sess'[i].pid].status = "gone" =>
                      \/ sess'[i].exitCode = exitOf'[i]
                      \/ \E u \in Threads : /\ thr'[u].pc = "record" /\ thr'[u].id = i
                                            /\ thr'[u].code = exitOf'[i]
    <3>1. CASE i = nextId
          BY <2>4, <2>7, <3>1
    <3>2. CASE i # nextId
          BY <2>1, <2>8, <2>10, <3>2 DEF Recorded
    <3> QED
        BY <3>1, <3>2
  <2> QED
      BY <2>1, <2>9, <2>10 DEF Recorded
<1>3. ASSUME NEW t \in Threads, NEW i \in Ids, DestroyBegin(t, i)
      PROVE  Recorded'
  <2>1. /\ exitOf' = exitOf /\ \A j : Listed(j)' <=> Listed(j)
        /\ \A j \in Ids : sess'[j].pid = sess[j].pid /\ sess'[j].exitCode = sess[j].exitCode
        BY <1>0, <1>3, ListedAreIds DEF DestroyBegin, Sessions
  <2>2. \A p \in Pids : proc'[p].status = proc[p].status /\ proc'[p].code = proc[p].code
        BY <1>3, SignalMarks DEF DestroyBegin
  <2>3. thr[t].pc = "idle"
        BY <1>3 DEF DestroyBegin, MayBegin, IdleThread
  <2>4. /\ thr'[t].pc \in {"destroyPoll", "destroyFree"}
        /\ \A u \in Threads \ {t} : thr'[u] = thr[u]
    <3>1. \/ thr' = [thr EXCEPT ![t] = [At(t, "destroyPoll", i) EXCEPT !.left = DestroyPolls]]
          \/ thr' = [thr EXCEPT ![t] = At(t, "destroyFree", i)]
          BY <1>3 DEF DestroyBegin
    <3> QED
        BY <1>0, <3>1 DEF At, IdleThread
  <2> QED
      BY <1>0, <2>1, <2>2, <2>3, <2>4, RecordedKept
<1>4. ASSUME NEW t \in Threads, DestroyPoll(t)
      PROVE  Recorded'
  <2>1. /\ UNCHANGED <<sess, proc, exitOf>> /\ \A j : Listed(j)' <=> Listed(j)
        /\ thr[t].pc = "destroyPoll" /\ thr'[t].pc \in {"destroyPoll", "destroyKill"}
        /\ \A u \in Threads \ {t} : thr'[u] = thr[u]
        BY <1>0, <1>4, ListedAreIds DEF DestroyPoll, Kernel, ThreadStates
  <2> QED
      BY <1>0, <2>1, RecordedKept
<1>5. ASSUME NEW t \in Threads, DestroyKill(t)
      PROVE  Recorded'
  <2>1. /\ UNCHANGED <<sess, exitOf>> /\ \A j : Listed(j)' <=> Listed(j)
        /\ thr[t].pc = "destroyKill" /\ thr'[t].pc = "destroyFree"
        /\ \A u \in Threads \ {t} : thr'[u] = thr[u]
        BY <1>0, <1>5, ListedAreIds DEF DestroyKill, ThreadStates
  <2>2. thr[t].id \in Ids
        BY <1>0, <1>5 DEF DestroyKill, Locked, DestroyPlaces
  <2>3. \A p \in Pids : proc'[p].status = proc[p].status /\ proc'[p].code = proc[p].code
        BY <1>5, <2>2, SignalMarks DEF DestroyKill
  <2> QED
      BY <1>0, <2>1, <2>3, RecordedKept
<1>6. ASSUME NEW t \in Threads, DestroyFree(t)
      PROVE  Recorded'
  <2>1. PICK i \in Ids : i = thr[t].id /\ Listed(i)
        BY <1>0, <1>6 DEF DestroyFree, Locked, DestroyPlaces
  <2>2. /\ thr[t].pc = "destroyFree" /\ proc' = proc
        /\ \A j \in Ids \ {i} : sess'[j] = sess[j] /\ exitOf'[j] = exitOf[j]
        /\ thr'[t] = IdleThread /\ \A u \in Threads \ {t} : thr'[u] = thr[u]
        BY <1>0, <1>6, <2>1 DEF DestroyFree
  <2>3. \A j : Listed(j)' <=> j # i /\ Listed(j)
        BY <1>0, <1>6, <2>1, ListWithout DEF DestroyFree
  <2>4. \A u \in Threads \ {t} : thr[u].pc = "record" => thr[u].id \in Ids \ {i}
        BY <1>0, <2>1, <2>2 DEF Locked, DestroyPlaces, UnlockedPlaces
  <2>5. thr'[t].pc = "idle"
        BY <2>2 DEF IdleThread
  <2> QED
      BY <1>0, <2>2, <2>3, <2>4, <2>5, RecordedKept
<1>7. ASSUME NEW t \in Threads, ManagerDestroy(t)
      PROVE  Recorded'
  <2>1. /\ UNCHANGED <<sess, proc, exitOf>> /\ \A j : Listed(j)' <=> Listed(j)
        /\ thr[t].pc = "idle" /\ thr'[t].pc = "managerTerm"
        /\ \A u \in Threads \ {t} : thr'[u] = thr[u]
        BY <1>0, <1>7, ListedAreIds DEF ManagerDestroy, Kernel, ThreadStates, IdleThread
  <2> QED
      BY <1>0, <2>1, RecordedKept
<1>8. ASSUME NEW t \in Threads, ManagerTerm(t)
      PROVE  Recorded'
  <2>1. /\ Head(list) \in Ids /\ exitOf' = exitOf /\ \A j : Listed(j)' <=> Listed(j)
        /\ thr[t].pc = "managerTerm" /\ thr'[t].pc = "managerKill"
        /\ \A u \in Threads \ {t} : thr'[u] = thr[u]
        BY <1>0, <1>8, ListHead, ListedAreIds DEF ManagerTerm, ThreadStates
  <2>2. \A j \in Ids : sess'[j].pid = sess[j].pid /\ sess'[j].exitCode = sess[j].exitCode
        BY <1>0, <1>8 DEF ManagerTerm, Sessions
  <2>3. \A p \in Pids : proc'[p].status = proc[p].status /\ proc'[p].code = proc[p].code
        BY <1>8, <2>1, SignalMarks DEF ManagerTerm
  <2> QED
      BY <1>0, <2>1, <2>2, <2>3, RecordedKept
<1>9. ASSUME NEW t \in Threads, ManagerKill(t)
      PROVE  Recorded'
  <2>1. PICK i \in Ids : i = Head(list) /\ \A j : Listed(j)' <=> j # i /\ Listed(j)
        BY <1>0, <1>9, ListTail DEF ManagerKill, Locked
  <2>2. \A j \in Ids \ {i} : sess'[j] = sess[j] /\ exitOf'[j] = exitOf[j]
        BY <1>0, <1>9, <2>1 DEF ManagerKill
  <2>3. \A u \in Threads : /\ thr'[u].pc \in {"idle", "managerTerm"}
                           /\ thr[u].pc \in {"idle", "managerKill"}
    <3>1. /\ thr'[t].pc = "managerTerm" /\ thr[t].pc = "managerKill"
          /\ \A u \in Threads \ {t} : thr'[u] = thr[u] /\ thr[u] = IdleThread
          BY <1>0, <1>9 DEF ManagerKill, Locked, ManagerPlaces, ThreadStates
    <3> QED
        BY <3>1 DEF IdleThread
  <2>4. \A p \in Pids : proc'[p].status = proc[p].status /\ proc'[p].code = proc[p].code
        BY <1>9, <2>1, SignalMarks DEF ManagerKill
  <2> QED
      BY <1>0, <2>1, <2>2, <2>3, <2>4, RecordedKept
<1>10. ASSUME NEW t \in Threads, ManagerDone(t)
       PROVE  Recorded'
  <2>1. /\ UNCHANGED <<sess, proc, exitOf>> /\ \A j : Listed(j)' <=> Listed(j)
        /\ thr[t].pc = "managerTerm" /\ thr'[t].pc = "idle"
        /\ \A u \in Threads \ {t} : thr'[u] = thr[u]
        BY <1>0, <1>10, ListedAreIds DEF ManagerDone, Kernel, IdleThread
  <2> QED
      BY <1>0, <2>1, RecordedKept
<1>11. ASSUME NEW t \in Threads, NEW i \in Ids, NEW force \in BOOLEAN, Terminate(t, i, force)
       PROVE  Recorded'
  <2>1. /\ exitOf' = exitOf /\ \A j : Listed(j)' <=> Listed(j)
        BY <1>11, ListedAreIds DEF Terminate
  <2>2. \A p \in Pids : proc'[p].status = proc[p].status /\ proc'[p].code = proc[p].code
        BY <1>11, SignalMarks DEF Terminate
  <2>3. \A j \in Ids : sess'[j].pid = sess[j].pid /\ sess'[j].exitCode = sess[j].exitCode
    <3>1. sess' = sess \/ sess' = [sess EXCEPT ![i].state = "TERMINATED"]
          BY <1>11 DEF Terminate
    <3>2. CASE sess' = [sess EXCEPT ![i].state = "TERMINATED"]
          BY <1>0, <3>2 DEF Sessions
    <3> QED
        BY <3>1, <3>2
  <2>4. thr[t].pc = "idle"
        BY <1>11 DEF Terminate, MayBegin, IdleThread
  <2>5. thr' = thr \/ (thr'[t].pc = "mark" /\ \A u \in Threads \ {t} : thr'[u] = thr[u])
    <3>1. thr' = thr \/ thr' = [thr EXCEPT ![t] = At(t, "mark", i)]
          BY <1>0, <1>11 DEF Terminate
    <3>2. At(t, "mark", i).pc = "mark"
          BY DEF At, IdleThread
    <3> QED
        BY <1>0, <3>1, <3>2
  <2>6. /\ \A u \in Threads : thr[u].pc = "record" => thr'[u] = thr[u]
        /\ \A u \in Threads : thr'[u].pc = "record" => thr'[u] = thr[u]
        BY <2>4, <2>5
  <2> QED
      BY <1>0, <2>1, <2>2, <2>3, <2>6, RecordedKept
<1>12. ASSUME NEW t \in Threads, TerminateMark(t)
       PROVE  Recorded'
  <2>1. /\ UNCHANGED <<proc, exitOf>> /\ \A j : Listed(j)' <=> Listed(j)
        /\ \A j \in Ids : sess'[j].pid = sess[j].pid /\ sess'[j].exitCode = sess[j].exitCode
        /\ thr[t].pc = "mark" /\ thr'[t].pc = "idle"
        /\ \A u \in Threads \ {t} : thr'[u] = thr[u]
        BY <1>0, <1>12, ListedAreIds DEF TerminateMark, Kernel, IdleThread, Sessions
  <2> QED
      BY <1>0, <2>1, RecordedKept
<1>13. ASSUME NEW t \in Threads, NEW i \in Ids, NEW mode \in WaitModes, WaitBegin(t, i, mode)
       PROVE  Recorded'
  <2>1. /\ UNCHANGED <<sess, proc, exitOf>> /\ \A j : Listed(j)' <=> Listed(j)
        /\ thr[t].pc = "idle" /\ thr'[t].pc = "block"
        /\ \A u \in Threads \ {t} : thr'[u] = thr[u]
        BY <1>0, <1>13, ListedAreIds, SessionAssumption DEF WaitBegin, MayBegin, Kernel, At, IdleThread
  <2> QED
      BY <1>0, <2>1, RecordedKept
<1>14. ASSUME NEW t \in Threads, WaitPid(t)
       PROVE  Recorded'
  <2>1. PICK i \in Ids : i = thr[t].id /\ Listed(i) /\ sess[i].pid \in Pids
        BY <1>0, <1>14 DEF WaitPid, Locked, UnlockedPlaces
  <2>2. PICK p \in Pids : p = sess[i].pid
        BY <2>1
  <2>3. thr[t].pc = "block"
        BY <1>14 DEF WaitPid, Ended
  <2>4. /\ UNCHANGED <<sess, exitOf>> /\ \A j : Listed(j)' <=> Listed(j)
        /\ thr'[t].id = i /\ thr'[t].pc = "record" /\ \A u \in Threads \ {t} : thr'[u] = thr[u]
        BY <1>0, <1>14, <2>1, ListedAreIds DEF WaitPid, ThreadStates
  <2>5. CASE /\ proc[p].status = "zombie" /\ Reap(p)
             /\ thr' = [thr EXCEPT ![t].pc = "record", ![t].code = proc[p].code]
    <3>1. proc'[p].status = "gone" /\ \A q \in Pids \ {p} : proc'[q] = proc[q]
          BY <1>0, <2>5 DEF Reap, NoProc
    <3>2. thr'[t].code = exitOf[i]
      <4>1. thr'[t].code = proc[p].code
            BY <1>0, <2>5 DEF ThreadStates
      <4> QED
          BY <2>1, <2>2, <2>5, <4>1 DEF Recorded
    <3>3. ASSUME NEW j \in Ids, Listed(j)'
          PROVE  /\ proc'[sess'[j].pid].status # "unused"
                 /\ proc'[sess'[j].pid].status = "running" => exitOf'[j] = Alive
                 /\ proc'[sess'[j].pid].status = "zombie" => proc'[sess'[j].pid].code = exitOf'[j]
                 /\ proc'[sess'[j].pid].status = "gone" =>
                       \/ sess'[j].exitCode = exitOf'[j]
                       \/ \E u \in Threads : /\ thr'[u].pc = "record" /\ thr'[u].id = j
                                             /\ thr'[u].code = exitOf'[j]
      <4>1. CASE j = i
            BY <2>2, <2>4, <3>1, <3>2, <4>1
      <4>2. CASE j # i
        <5>1. sess[j].pid \in Pids \ {p}
              BY <1>0, <2>1, <2>2, <2>4, <3>3, <4>2 DEF Recorded
        <5>2. proc'[sess'[j].pid] = proc[sess[j].pid]
              BY <2>4, <3>1, <5>1
        <5>3. \A u \in Threads : thr[u].pc = "record" => thr'[u] = thr[u]
              BY <2>3, <2>4
        <5> QED
            BY <2>4, <3>3, <5>2, <5>3 DEF Recorded
      <4> QED
          BY <4>1, <4>2
    <3>4. \A u \in Threads : thr'[u].pc = "record" => thr'[u].code \in {NoChild, exitOf'[thr'[u].id]}
          BY <2>4, <3>2 DEF Recorded
    <3>5. \A j, k \in Ids : Listed(j)' /\ Listed(k)' /\ sess'[j].pid = sess'[k].pid => j = k
          BY <2>4 DEF Recorded
    <3> QED
        BY <3>3, <3>4, <3>5 DEF Recorded
  <2>6. CASE proc' = proc /\ thr' = [thr EXCEPT ![t].pc = "record", ![t].code = NoChild]
    <3>1. thr'[t].code = NoChild
          BY <1>0, <2>6 DEF ThreadStates
    <3>2. \A u \in Threads : thr[u].pc = "record" => thr'[u] = thr[u]
          BY <2>3, <2>4
    <3>3. ASSUME NEW j \in Ids, Listed(j)'
          PROVE  /\ proc'[sess'[j].pid].status # "unused"
                 /\ proc'[sess'[j].pid].status = "running" => exitOf'[j] = Alive
                 /\ proc'[sess'[j].pid].status = "zombie" => proc'[sess'[j].pid].code = exitOf'[j]
                 /\ proc'[sess'[j].pid].status = "gone" =>
                       \/ sess'[j].exitCode = exitOf'[j]
                       \/ \E u \in Threads : /\ thr'[u].pc = "record" /\ thr'[u].id = j
                                             /\ thr'[u].code = exitOf'[j]
      <4>1. Listed(j) /\ sess'[j] = sess[j] /\ exitOf'[j] = exitOf[j]
            BY <2>4, <3>3
      <4>2. proc[sess[j].pid].status = "gone" =>
               \/ sess[j].exitCode = exitOf[j]
               \/ \E u \in Threads : thr[u].pc = "record" /\ thr[u].id = j /\ thr[u].code = exitOf[j]
            BY <4>1 DEF Recorded
      <4>3. /\ proc[sess[j].pid].status # "unused"
            /\ proc[sess[j].pid].status = "running" => exitOf[j] = Alive
            /\ proc[sess[j].pid].status = "zombie" => proc[sess[j].pid].code = exitOf[j]
            BY <4>1 DEF Recorded
      <4> QED
          BY <2>6, <3>2, <4>1, <4>2, <4>3
    <3>4. \A u \in Threads : thr'[u].pc = "record" => thr'[u].code \in {NoChild, exitOf'[thr'[u].id]}
          BY <2>4, <3>1 DEF Recorded
    <3>5. \A j, k \in Ids : Listed(j)' /\ Listed(k)' /\ sess'[j].pid = sess'[k].pid => j = k
          BY <2>4 DEF Recorded
    <3> QED
        BY <3>3, <3>4, <3>5 DEF Recorded
  <2> QED
      BY <1>14, <2>1, <2>2, <2>3, <2>5, <2>6 DEF WaitPid
<1>15. ASSUME NEW t \in Threads, WaitRecord(t)
       PROVE  Recorded'
  <2>1. PICK i \in Ids : i = thr[t].id /\ Listed(i)
        BY <1>0, <1>15 DEF WaitRecord, Locked, UnlockedPlaces
  <2>2. /\ UNCHANGED <<proc, exitOf>> /\ \A j : Listed(j)' <=> Listed(j)
        /\ \A j \in Ids : sess'[j].pid = sess[j].pid
        /\ \A j \in Ids \ {i} : sess'[j] = sess[j]
        /\ sess'[i].exitCode = IF thr[t].code = NoChild THEN sess[i].exitCode ELSE thr[t].code
        /\ thr'[t].pc = "idle" /\ \A u \in Threads \ {t} : thr'[u] = thr[u]
        BY <1>0, <1>15, <2>1, ListedAreIds DEF WaitRecord, Kernel, IdleThread, Sessions
  <2>3. thr[t].pc = "record" /\ thr[t].code \in {NoChild, exitOf[i]}
        BY <1>15, <2>1 DEF WaitRecord, Recorded
  <2>4. ASSUME NEW j \in Ids, Listed(j)'
        PROVE  /\ proc'[sess'[j].pid].status # "unused"
               /\ proc'[sess'[j].pid].status = "running" => exitOf'[j] = Alive
               /\ proc'[sess'[j].pid].status = "zombie" => proc'[sess'[j].pid].code = exitOf'[j]
        BY <2>2, <2>4 DEF Recorded
  <2>5. ASSUME NEW j \in Ids, Listed(j)', proc'[sess'[j].pid].status = "gone"
        PROVE  \/ sess'[j].exitCode = exitOf'[j]
               \/ \E u \in Threads : /\ thr'[u].pc = "record" /\ thr'[u].id = j
                                     /\ thr'[u].code = exitOf'[j]
    <3>1. \/ sess[j].exitCode = exitOf[j]
          \/ \E u \in Threads : thr[u].pc = "record" /\ thr[u].id = j /\ thr[u].code = exitOf[j]
          BY <2>2, <2>5 DEF Recorded
    <3>2. CASE j # i
          BY <2>1, <2>2, <3>1, <3>2
    <3>3. CASE j = i /\ thr[t].code = exitOf[i]
      <4>1. CASE thr[t].code # NoChild
            BY <2>2, <3>3, <4>1
      <4>2. CASE thr[t].code = NoChild
        <5>1. exitOf[i] # NoChild
              BY <1>0 DEF Codes, NoChild, Alive, Exited, SIGTERM, SIGKILL
        <5> QED
            BY <3>3, <4>2, <5>1
      <4> QED
          BY <4>1, <4>2
    <3>4. CASE j = i /\ thr[t].code # exitOf[i]
      <4>1. thr[t].code = NoChild
            BY <2>3, <3>4
      <4> QED
          BY <2>1, <2>2, <3>1, <3>4, <4>1
    <3> QED
        BY <3>2, <3>3, <3>4
  <2>6. \A u \in Threads : thr'[u].pc = "record" => thr'[u].code \in {NoChild, exitOf'[thr'[u].id]}
        BY <2>2 DEF Recorded
  <2>7. \A j, k \in Ids : Listed(j)' /\ Listed(k)' /\ sess'[j].pid = sess'[k].pid => j = k
        BY <2>2 DEF Recorded
  <2> QED
      BY <2>4, <2>5, <2>6, <2>7 DEF Recorded
<1>16. ASSUME NEW p \in Pids, ProcessExit(p)
       PROVE  Recorded'
  <2>1. PICK o \in Ids : o = proc[p].owner /\ (Listed(o) => sess[o].pid = p)
        BY <1>16 DEF ProcessExit, Owned
  <2>2. UNCHANGED <<sess, thr>> /\ \A j : Listed(j)' <=> Listed(j)
        BY <1>16, ListedAreIds DEF ProcessExit
  <2>3. proc[p].status = "running" /\ \A q \in Pids \ {p} : proc'[q] = proc[q]
        BY <1>0, <1>16 DEF ProcessExit
  <2>4. PICK c \in {Exited, 128 + SIGTERM, 128 + SIGKILL} :
           /\ proc' = [proc EXCEPT ![p] = [NoProc EXCEPT !.status = "zombie", !.owner = proc[p].owner,
                                                         !.code = c]]
           /\ exitOf' = IF Listed(proc[p].owner) THEN [exitOf EXCEPT ![proc[p].owner] = c]
                        ELSE exitOf
        BY <1>16, ExitEffect
  <2>5. /\ proc'[p].status = "zombie" /\ proc'[p].code = c
        /\ Listed(o) => exitOf'[o] = c
        /\ \A j \in Ids \ {o} : exitOf'[j] = exitOf[j]
        BY <1>0, <2>1, <2>4 DEF NoProc
  <2>6. ASSUME NEW j \in Ids, Listed(j), sess[j].pid = p
        PROVE  j = o
    <3>1. exitOf[j] = Alive
          BY <2>3, <2>6 DEF Recorded
    <3> QED
        BY <2>1, <2>6, <3>1 DEF Ended
  <2>7. ASSUME NEW u \in Threads, thr[u].pc = "record"
        PROVE  thr[u].id \in Ids \ {o}
    <3>1. thr[u].id \in Ids /\ Listed(thr[u].id) /\ exitOf[thr[u].id] # Alive
          BY <1>0, <2>7 DEF Locked, UnlockedPlaces, Ended
    <3>2. Listed(o) => exitOf[o] = Alive
          BY <2>1, <2>3 DEF Recorded
    <3> QED
        BY <3>1, <3>2
  <2>8. ASSUME NEW j \in Ids, Listed(j)'
        PROVE  /\ proc'[sess'[j].pid].status # "unused"
               /\ proc'[sess'[j].pid].status = "running" => exitOf'[j] = Alive
               /\ proc'[sess'[j].pid].status = "zombie" => proc'[sess'[j].pid].code = exitOf'[j]
               /\ proc'[sess'[j].pid].status = "gone" =>
                     \/ sess'[j].exitCode = exitOf'[j]
                     \/ \E u \in Threads : /\ thr'[u].pc = "record" /\ thr'[u].id = j
                                           /\ thr'[u].code = exitOf'[j]
    <3>1. CASE j = o
          BY <2>1, <2>2, <2>5, <2>8, <3>1
    <3>2. CASE j # o
      <4>1. sess[j].pid \in Pids \ {p} /\ Listed(j)
            BY <1>0, <2>2, <2>6, <2>8, <3>2
      <4>2. proc'[sess'[j].pid] = proc[sess[j].pid] /\ exitOf'[j] = exitOf[j]
            BY <2>2, <2>3, <2>5, <3>2, <4>1
      <4> QED
          BY <2>2, <4>1, <4>2 DEF Recorded
    <3> QED
        BY <3>1, <3>2
  <2>9. \A u \in Threads : thr'[u].pc = "record" => thr'[u].code \in {NoChild, exitOf'[thr'[u].id]}
        BY <2>2, <2>5, <2>7 DEF Recorded
  <2>10. \A j, k \in Ids : Listed(j)' /\ Listed(k)' /\ sess'[j].pid = sess'[k].pid => j = k
         BY <2>2 DEF Recorded
  <2> QED
      BY <2>8, <2>9, <2>10 DEF Recorded
<1>17. CASE UNCHANGED vars
  <2>1. UNCHANGED <<sess, thr, proc, exitOf>> /\ \A j : Listed(j)' <=> Listed(j)
        BY <1>17, ListedAreIds DEF vars
  <2> QED
      BY <1>0, <2>1, RecordedKept
<1> QED
    BY <1>1, <1>2, <1>3, <1>4, <1>5, <1>6, <1>7, <1>8, <1>9, <1>10, <1>11, <1>12, <1>13, <1>14,
       <1>15, <1>16, <1>17 DEF Next, Call, InCall

\* If besides the kernel uses no identifier twice, a session whose process was reaped ends
\* up with the status the process ended with, whichever of several waiters reaped it
\* (md_session_wait).
THEOREM ExitCodesTrue ==
    ASSUME "poll" \notin WaitModes, ~Recycle
    PROVE  Spec => []ExitCodeTrue
<1>1. Init => Typed /\ Books /\ Locked /\ Owned /\ Ended /\ Recorded
      BY ListInit, OwnedInit, EndedInit, RecordedInit
<1>2. Typed /\ Books /\ Locked /\ Owned /\ Ended /\ Recorded /\ [Next]_vars
        => (Typed /\ Books /\ Locked /\ Owned /\ Ended /\ Recorded)'
      BY TypedStep, BooksStep, LockedStep, OwnedStep, EndedStep, RecordedStep
<1>3. Recorded => ExitCodeTrue
      BY DEF Recorded, ExitCodeTrue, Busy
<1> QED
    BY <1>1, <1>2, <1>3, PTL DEF Spec

-----------------------------------------------------------------------------
(* The signal handler.                                                      *)

Actions == {"original", "ours", "default"}
Stages == Signals \cup {"flags"}        \* of initialising, in this order
Ends == Signals \cup PipeEnds           \* of shutting down
Undone == {"TERM", "CHLD"} \cup PipeEnds   \* of undoing

\* The signals that are heard and come before s, in both orders.
Before(s) == CASE s = "CHLD" -> {} [] s = "TERM" -> {"CHLD"} [] s = "INT" -> {"CHLD", "TERM"}
               [] OTHER -> Heard

\* What is still installed when c is the next call of undoing.
Remaining(c) == CASE c = "TERM" -> {"CHLD", "TERM"} [] c = "CHLD" -> {"CHLD"} [] OTHER -> {}

Taken(s) == action[s] = "ours" /\ saved[s] = "original"

Placed ==
    /\ action \in [Signals -> Actions] /\ saved \in [Signals -> Actions]
    /\ \/ doing = Idle \/ doing \in {"install"} \X Stages
       \/ doing \in {"undo"} \X Undone \/ doing \in {"restore"} \X Ends
    /\ doing = Idle =>
          IF initialized THEN pipe = Opened /\ \A s \in Heard : Taken(s)
          ELSE \A s \in Heard : action[s] = "original"
    /\ \A p \in Stages : doing = <<"install", p>> =>
          /\ ~initialized /\ pipe = Opened
          /\ \A s \in Heard : IF s \in Before(p) THEN Taken(s) ELSE action[s] = "original"
    /\ \A p \in Undone : doing = <<"undo", p>> =>
          /\ ~initialized /\ (Remaining(p) # {} => pipe = Opened)
          /\ \A s \in Heard : IF s \in Remaining(p) THEN Taken(s) ELSE action[s] = "original"
    /\ \A p \in Ends : doing = <<"restore", p>> =>
          /\ initialized /\ (Heard \ Before(p) # {} => pipe = Opened)
          /\ \A s \in Heard : IF s \in Before(p) THEN action[s] = "original" ELSE Taken(s)

-----------------------------------------------------------------------------
LEMMA PlacedInit == SigInit => Placed
BY DEF SigInit, Placed, Idle, Signals, Heard, Actions

\* Signals, the mask and the flags move nothing the invariant is about.
LEMMA PlacedKept == Placed /\ UNCHANGED installVars => Placed'
BY DEF Placed, installVars, Taken

\* Every step of the program and every signal keeps the actions in their places.
LEMMA PlacedStep == Placed /\ [SigNext]_sigVars => Placed'
<1> SUFFICES ASSUME Placed, [SigNext]_sigVars
             PROVE  Placed'
    OBVIOUS
<1> USE DEF Placed, Taken, Signals, Heard, Stages, Ends, Undone, PipeEnds, Actions, Before, Remaining, Idle
<1>1. CASE SignalInit
      BY <1>1 DEF SignalInit
<1>2. ASSUME NEW s \in Signals, NEW next \in Stages, Installed(s, next),
             <<s, next>> \in {<<"CHLD", "TERM">>, <<"TERM", "INT">>, <<"INT", "PIPE">>, <<"PIPE", "flags">>}
      PROVE  Placed'
      BY <1>2 DEF Installed
<1>3. ASSUME NEW s \in Heard, Failed(s)
      PROVE  Placed'
      BY <1>3 DEF Failed, UndoOrder, After, Remaining, Undone
<1>4. ASSUME NEW s \in {"TERM", "CHLD"}, UndoRestored(s)
       PROVE  Placed'
       BY <1>4 DEF UndoRestored, Restored, UndoOrder, After, Remaining, Undone
<1>5. ASSUME NEW e \in PipeEnds, UndoClosed(e)
       PROVE  Placed'
       BY <1>5 DEF UndoClosed, UndoOrder, After, Remaining, Undone
<1>6. ASSUME doing = <<"install", "PIPE">>, doing' = <<"install", "flags">>,
             UNCHANGED <<initialized, action, saved, pipe>>
      PROVE  Placed'
      BY <1>6
<1>7. CASE FlagsCleared
      BY <1>7 DEF FlagsCleared
<1>8. CASE SignalShutdown
      BY <1>8 DEF SignalShutdown
<1>9. ASSUME NEW s \in Signals, doing = <<"restore", s>>, action' = Restored(s),
             doing' = After(ShutdownOrder, "restore", s), UNCHANGED <<initialized, saved, pipe>>
      PROVE  Placed'
  <2>1. CASE s = "CHLD"
        BY <1>9, <2>1 DEF Restored, ShutdownOrder, After
  <2>2. CASE s = "TERM"
        BY <1>9, <2>2 DEF Restored, ShutdownOrder, After
  <2>3. CASE s = "INT"
        BY <1>9, <2>3 DEF Restored, ShutdownOrder, After
  <2>4. CASE s = "PIPE"
        BY <1>9, <2>4 DEF Restored, ShutdownOrder, After
  <2> QED
      BY <2>1, <2>2, <2>3, <2>4
<1>10. CASE PipeClosed
  <2>1. PICK e \in PipeEnds : doing = <<"restore", e>> /\ pipe' = Closed(e, "none")
                              /\ doing' = After(ShutdownOrder, "restore", e)
                              /\ initialized' = (initialized /\ doing' # Idle)
                              /\ UNCHANGED <<action, saved>>
        BY <1>10 DEF PipeClosed
  <2>2. CASE e = "read"
    <3>1. /\ doing = <<"restore", "read">> /\ doing' = <<"restore", "write">>
          /\ initialized' = initialized /\ UNCHANGED <<action, saved>>
          BY <2>1, <2>2 DEF ShutdownOrder, After
    <3> QED
        BY <3>1
  <2>3. CASE e = "write"
        BY <2>1, <2>3 DEF ShutdownOrder, After
  <2> QED
      BY <2>1, <2>2, <2>3
<1>11. ASSUME UNCHANGED installVars
      PROVE  Placed'
      BY <1>11, PlacedKept
<1> QED
  <2> USE DEF sigVars, maskVars, handlerVars
  <2> HIDE DEF Placed, Taken, Undone, Ends, Actions, Before, Remaining
  <2>1. CASE InstallStep
        BY <1>2, <1>3, <1>4, <1>5, <1>6, <2>1 DEF InstallStep
  <2>2. CASE RestoreStep
        BY <1>9, <2>2 DEF RestoreStep
  <2>3. ASSUME NEW s \in Signals, Deliver(s)
        PROVE  Placed'
        BY <1>11, <2>3 DEF Deliver
  <2>4. ASSUME NEW set, Block(set) \/ Unblock(set) \/ SaveAndBlock(set) \/ RestoreMask
        PROVE  Placed'
        BY <1>11, <2>4 DEF Block, Unblock, SaveAndBlock, RestoreMask, SetMask
  <2>5. CASE RequestShutdown \/ ClearShutdownRequest
        BY <1>11, <2>5 DEF RequestShutdown, ClearShutdownRequest
  <2>6. CASE UNCHANGED sigVars
        BY <1>11, <2>6
  <2> QED
      BY <1>1, <1>7, <1>8, <1>10, <2>1, <2>2, <2>3, <2>4, <2>5, <2>6 DEF SigNext, SignalCall

\* Whoever handles a signal finds both ends of the pipe open, between any two calls of an
\* initialisation, of undoing one that failed and of a shutdown (signal_handler,
\* md_signal_init, md_signal_shutdown).
THEOREM HandledPipeOpen == SigSpec => []PipeOpenWhileHandled
<1>1. Placed => PipeOpenWhileHandled
  <2> SUFFICES ASSUME Placed, NEW s \in Heard, action[s] = "ours"
               PROVE  pipe = Opened
      BY DEF PipeOpenWhileHandled
  <2>1. action[s] # "original"
        OBVIOUS
  <2>2. CASE doing = Idle
        BY <2>1, <2>2 DEF Placed
  <2>3. ASSUME NEW p \in Stages, doing = <<"install", p>>
        PROVE  pipe = Opened
        BY <2>3 DEF Placed
  <2>4. ASSUME NEW p \in Undone, doing = <<"undo", p>>
        PROVE  pipe = Opened
    <3>1. s \in Remaining(p)
          BY <2>1, <2>4 DEF Placed
    <3> QED
        BY <2>4, <3>1 DEF Placed
  <2>5. ASSUME NEW p \in Ends, doing = <<"restore", p>>
        PROVE  pipe = Opened
    <3>1. s \in Heard \ Before(p)
          BY <2>1, <2>5 DEF Placed
    <3> QED
        BY <2>5, <3>1 DEF Placed
  <2> QED
      BY <2>2, <2>3, <2>4, <2>5 DEF Placed
<1> QED
    BY <1>1, PlacedInit, PlacedStep, PTL DEF SigSpec

\* When the module is not in use the program has its own actions back, however far an
\* initialisation got before it failed (md_signal_init's error paths, md_signal_shutdown).
THEOREM OwnActionsBack == SigSpec => []ActionsRestored
<1>1. Placed => ActionsRestored
      BY DEF Placed, ActionsRestored
<1> QED
    BY <1>1, PlacedInit, PlacedStep, PTL DEF SigSpec
===============================================================================
